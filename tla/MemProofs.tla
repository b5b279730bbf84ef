------------------------------- MODULE MemProofs -------------------------------
(***************************************************************************)
(* Proofs about module MemSystem, for every number of cores, ports and     *)
(* channels, all periods and latencies, and every plan of requests: a      *)
(* request is in one queue at a time (RequestsKeptHolds), the memory       *)
(* system does for the cores what module MemService says                   *)
(* (MemImplementsService), and transfers come back whole                   *)
(* (TransfersWholeHolds).                                                  *)
(*                                                                         *)
(* A step moves entries between queues.  The first sections say what one   *)
(* move does to a queue (Hop) and when many moves at a time keep all       *)
(* queues apart (Round, Relay); then every action is shown to be such a    *)
(* round.                                                                  *)
(***************************************************************************)
EXTENDS MemTransfers, QueueLemmas

-------------------------------------------------------------------------------
(* One sequence out of many *)

\* FlattenSeq appends the sequences one after the other.
Flattens(f, q, n) == f = [i \in 1..n |-> IF i = 1 THEN q[i] ELSE f[i - 1] \o q[i]]
\* It does so in steps: the result is the last of these partial results.
LEMMA FlattenSteps ==
  ASSUME NEW q, Len(q) \in Nat \ {0}
  PROVE  \E f : Flattens(f, q, Len(q)) /\ FlattenSeq(q) = f[Len(q)]
<1> DEFINE Bad == {n \in 1..Len(q) : ~\E f : Flattens(f, q, n)}
<1>1. Bad = {}
  <2>1. SUFFICES ASSUME Bad # {} PROVE FALSE
    OBVIOUS
  <2>a. Bad \in SUBSET Nat /\ \A m : m \in Bad <=> m \in 1..Len(q) /\ ~\E f : Flattens(f, q, m)
    OBVIOUS
  <2> HIDE DEF Bad
  <2>2. PICK n \in Bad : \A m \in Bad : n <= m
    BY <2>1, <2>a, LeastNumber
  <2>3. n \in 1..Len(q) /\ ~\E f : Flattens(f, q, n)
    BY <2>a
  <2>4. n # 1
    <3>1. Flattens([i \in 1..1 |-> q[1]], q, 1)
      BY DEF Flattens
    <3>2. QED
      BY <2>3, <3>1
  <2>5. PICK g : Flattens(g, q, n - 1)
    BY <2>2, <2>3, <2>4, <2>a
  <2> DEFINE f == [i \in 1..n |-> IF i = n THEN g[n - 1] \o q[n] ELSE g[i]]
  <2>6. \A i \in 1..n - 1 : g[i] = IF i = 1 THEN q[i] ELSE g[i - 1] \o q[i]
    BY <2>5 DEF Flattens
  <2>7. \A i \in 1..n : f[i] = IF i = 1 THEN q[i] ELSE f[i - 1] \o q[i]
    <3> TAKE i \in 1..n
    <3>1. CASE i = n
      <4>1. f[n] = g[n - 1] \o q[n] /\ f[n - 1] = g[n - 1]
        <5>1. n \in 1..n /\ n - 1 \in 1..n /\ n - 1 # n
          BY <2>3, <2>4
        <5>2. QED
          BY <5>1, Zenon
      <4>2. QED
        BY <2>4, <3>1, <4>1
    <3>2. CASE i # n
      <4>1. i \in 1..n - 1 /\ f[i] = g[i] /\ (i # 1 => f[i - 1] = g[i - 1])
        BY <2>3, <3>2
      <4>2. QED
        BY <2>6, <4>1
    <3>3. QED
      BY <3>1, <3>2
  <2>8. Flattens(f, q, n)
    <3>1. [i \in 1..n |-> f[i]] = [i \in 1..n |-> IF i = 1 THEN q[i] ELSE f[i - 1] \o q[i]]
      BY <2>7, Zenon
    <3>2. QED
      BY <3>1 DEF Flattens
  <2>9. QED
    BY <2>3, <2>8
<1>a. Len(q) \in 1..Len(q) /\ Len(q) \notin Bad
  BY <1>1
<1>2. PICK f : Flattens(f, q, Len(q))
  BY <1>a
<1> DEFINE F == CHOOSE g : g = [i \in 1..Len(q) |-> IF i = 1 THEN q[i] ELSE g[i - 1] \o q[i]]
<1>3. Flattens(F, q, Len(q))
  BY <1>2, Zenon DEF Flattens
<1>4. FlattenSeq(q) = F[Len(q)]
  BY DEF FlattenSeq
<1>5. QED
  BY <1>3, <1>4

\* What it holds is what they hold, and nothing twice if they do not share anything.
LEMMA FlattenElems ==
  ASSUME NEW S, NEW q \in Seq(Seq(S)), Len(q) # 0
  PROVE  /\ FlattenSeq(q) \in Seq(S)
         /\ \A x : x \in Elems(FlattenSeq(q)) <=> \E j \in 1..Len(q) : x \in Elems(q[j])
         /\ (\A j \in 1..Len(q) : Distinct(q[j])) /\
            (\A j, k \in 1..Len(q) : j # k => Elems(q[j]) \cap Elems(q[k]) = {})
              => Distinct(FlattenSeq(q))
<1>0. Len(q) \in Nat \ {0} /\ \A j \in 1..Len(q) : q[j] \in Seq(S)
  BY ElementOfSeq
<1>1. PICK f : Flattens(f, q, Len(q)) /\ FlattenSeq(q) = f[Len(q)]
  BY <1>0, FlattenSteps
<1>2. /\ f[1] = q[1]
      /\ \A i \in 1..Len(q) : i # 1 => f[i] = f[i - 1] \o q[i]
  <2>1. \A i \in 1..Len(q) : f[i] = IF i = 1 THEN q[i] ELSE f[i - 1] \o q[i]
    BY <1>1, Zenon DEF Flattens
  <2>2. 1 \in 1..Len(q)
    BY <1>0
  <2>3. QED
    BY <2>1, <2>2, Zenon
<1> DEFINE Apart == /\ \A j \in 1..Len(q) : Distinct(q[j])
                    /\ \A j, k \in 1..Len(q) : j # k => Elems(q[j]) \cap Elems(q[k]) = {}
           Good(n) == /\ f[n] \in Seq(S)
                      /\ \A x : x \in Elems(f[n]) <=> \E j \in 1..n : x \in Elems(q[j])
                      /\ Apart => Distinct(f[n])
           Bad == {n \in 1..Len(q) : ~Good(n)}
<1>3. Good(1)
  <2>1. 1..1 = {1}
    OBVIOUS
  <2>2. \A x : x \in Elems(q[1]) <=> \E j \in 1..1 : x \in Elems(q[j])
    BY <2>1
  <2>3. 1 \in 1..Len(q) /\ f[1] \in Seq(S) /\ Elems(f[1]) = Elems(q[1])
    BY <1>0, <1>2
  <2>4. Apart => Distinct(f[1])
    BY <1>2, <2>3
  <2>5. QED
    BY <2>2, <2>3, <2>4
<1>4. ASSUME NEW n \in 1..Len(q), n # 1, Good(n - 1) PROVE Good(n)
  <2>1. f[n] = f[n - 1] \o q[n] /\ f[n - 1] \in Seq(S) /\ q[n] \in Seq(S)
    BY <1>0, <1>2, <1>4
  <2>2. /\ f[n] \in Seq(S) /\ Elems(f[n]) = Elems(f[n - 1]) \cup Elems(q[n])
        /\ Distinct(f[n - 1]) /\ Distinct(q[n]) /\ Elems(f[n - 1]) \cap Elems(q[n]) = {} => Distinct(f[n])
    BY <2>1, ElemsConcat, ConcatProperties
  <2>3. 1..n = 1..n - 1 \cup {n}
    BY <1>0, <1>4
  <2>4. \A x : x \in Elems(f[n]) <=> \E j \in 1..n : x \in Elems(q[j])
    <3>1. \A j : j \in 1..n <=> j \in 1..n - 1 \/ j = n
      BY <2>3
    <3>2. \A x : x \in Elems(f[n]) <=> x \in Elems(f[n - 1]) \/ x \in Elems(q[n])
      BY <2>2
    <3>3. \A x : x \in Elems(f[n - 1]) <=> \E j \in 1..n - 1 : x \in Elems(q[j])
      BY <1>4
    <3>4. QED
      BY <3>1, <3>2, <3>3, Zenon
  <2>5. ASSUME Apart PROVE Elems(f[n - 1]) \cap Elems(q[n]) = {}
    <3>1. \A j \in 1..n - 1 : j \in 1..Len(q) /\ j # n
      BY <1>0, <1>4
    <3>2. \A j \in 1..n - 1 : Elems(q[j]) \cap Elems(q[n]) = {}
      BY <2>5, <3>1
    <3>3. QED
      BY <1>4, <3>2
  <2>6. Apart => Distinct(f[n])
    BY <1>4, <2>2, <2>5
  <2>7. QED
    BY <2>2, <2>4, <2>6
<1>5. Bad = {}
  <2> HIDE DEF Good
  <2>1. SUFFICES ASSUME Bad # {} PROVE FALSE
    OBVIOUS
  <2>a. Bad \in SUBSET Nat /\ \A m : m \in Bad <=> m \in 1..Len(q) /\ ~Good(m)
    OBVIOUS
  <2> HIDE DEF Bad
  <2>2. PICK n \in Bad : \A m \in Bad : n <= m
    BY <2>1, <2>a, LeastNumber
  <2>3. n \in 1..Len(q) /\ ~Good(n)
    BY <2>a
  <2>4. n # 1
    BY <1>3, <2>3
  <2>5. Good(n - 1)
    <3>1. n - 1 \in 1..Len(q) /\ ~(n <= n - 1)
      BY <1>0, <2>3, <2>4
    <3>2. n - 1 \notin Bad
      BY <2>2, <3>1
    <3>3. QED
      BY <2>a, <3>1, <3>2, Zenon
  <2>6. QED
    BY <1>4, <2>3, <2>4, <2>5
<1>6. Good(Len(q))
  <2> HIDE DEF Good
  <2>1. Len(q) \in 1..Len(q) /\ Len(q) \notin Bad
    BY <1>0, <1>5
  <2>2. QED
    BY <2>1
<1>7. QED
  BY <1>1, <1>6

-------------------------------------------------------------------------------
(* Hops between queues *)

\* A queue q becomes r: the entries of gone leave it and those of come enter it.
Hop(q, r, gone, come) ==
  /\ gone \subseteq Elems(q)
  /\ Elems(r) = (Elems(q) \ gone) \cup come
  /\ Distinct(q) /\ come \cap (Elems(q) \ gone) = {} => Distinct(r)

\* A queue that stays as it is.
LEMMA HopStay == \A q : Hop(q, q, {}, {})
BY DEF Hop

\* pop_front of one entry
LEMMA HopPop ==
  ASSUME NEW S, NEW q \in Seq(S), q # <<>>, Distinct(q)
  PROVE  Tail(q) \in Seq(S) /\ Hop(q, Tail(q), {q[1]}, {})
<1>1. Elems(q) = Elems(Tail(q)) \cup {q[1]} /\ Distinct(Tail(q)) /\ q[1] \notin Elems(Tail(q))
  BY ElemsTail
<1>2. QED
  BY <1>1, HeadTailProperties DEF Hop

\* push_back of several entries
LEMMA HopConcat ==
  ASSUME NEW S, NEW q \in Seq(S), NEW e \in Seq(S), Distinct(e)
  PROVE  q \o e \in Seq(S) /\ Hop(q, q \o e, {}, Elems(e))
<1>1. /\ Elems(q \o e) = Elems(q) \cup Elems(e)
      /\ Distinct(q) /\ Elems(q) \cap Elems(e) = {} => Distinct(q \o e)
  BY ElemsConcat
<1>2. q \o e \in Seq(S)
  BY ConcatProperties
<1>3. QED
  BY <1>1, <1>2 DEF Hop

\* push_back of one
LEMMA HopAppend ==
  ASSUME NEW S, NEW q \in Seq(S), NEW e \in S
  PROVE  Append(q, e) \in Seq(S) /\ Hop(q, Append(q, e), {}, {e})
<1>1. /\ Elems(Append(q, e)) = Elems(q) \cup {e}
      /\ Distinct(q) /\ e \notin Elems(q) => Distinct(Append(q, e))
  BY ElemsAppend
<1>2. QED
  BY <1>1, AppendProperties DEF Hop

\* pop_front of the first k entries, or of all if there are fewer
LEMMA HopDrop ==
  ASSUME NEW S, NEW q \in Seq(S), NEW k \in Nat, Distinct(q)
  PROVE  /\ SubSeq(q, k + 1, Len(q)) \in Seq(S)
         /\ Hop(q, SubSeq(q, k + 1, Len(q)), {q[i] : i \in {n \in 1..Len(q) : n <= k}}, {})
<1> DEFINE r == SubSeq(q, k + 1, Len(q))
           gone == {q[i] : i \in {n \in 1..Len(q) : n <= k}}
<1>1. /\ Len(q) \in Nat /\ r \in Seq(S)
      /\ Len(r) = IF k + 1 <= Len(q) THEN Len(q) - k ELSE 0
      /\ \A i \in 1..Len(r) : r[i] = q[k + i] /\ k + i \in 1..Len(q)
  <2>1. \A i \in k + 1..Len(q) : q[i] \in S
    BY ElementOfSeq
  <2>2. Len(q) \in Nat /\ k + 1 \in Int
    BY LenProperties
  <2>3. QED
    BY <2>1, <2>2, SubSeqProperties
<1>2. gone \subseteq Elems(q)
  BY DEF Elems
<1>3. Distinct(r)
  <2>1. \A m, n \in 1..Len(r) : r[m] = r[n] => m = n
    BY <1>1 DEF Distinct
  <2>2. QED
    BY <2>1 DEF Distinct
<1>4. ASSUME NEW x \in Elems(r) PROVE x \in Elems(q) \ gone
  <2>1. PICK i \in 1..Len(r) : r[i] = x
    BY DEF Elems
  <2>2. k + i \in 1..Len(q) /\ q[k + i] = x /\ k + i > k
    BY <1>1, <2>1
  <2>3. x \notin gone
    BY <2>2 DEF Distinct
  <2>4. QED
    BY <2>2, <2>3 DEF Elems
<1>5. ASSUME NEW x \in Elems(q) \ gone PROVE x \in Elems(r)
  <2>1. PICK i \in 1..Len(q) : q[i] = x
    BY DEF Elems
  <2>2. i > k
    BY <1>1, <1>5, <2>1
  <2>3. i - k \in 1..Len(r) /\ r[i - k] = q[i]
    BY <1>1, <2>1, <2>2
  <2>4. QED
    BY <2>1, <2>3 DEF Elems
<1>6. QED
  BY <1>1, <1>2, <1>3, <1>4, <1>5 DEF Hop

\* No two queues share an entry, and none holds one twice.
Apart(W, Q) ==
  /\ \A w \in W : Distinct(Q[w])
  /\ \A v, w \in W : \A x : x \in Elems(Q[v]) /\ x \in Elems(Q[w]) => v = w

\* A round of hops: what leaves a queue enters exactly one other, and what enters a queue has
\* left one or is new.
Hops(W, Q, R, Gone, Come, New) ==
  /\ \A w \in W : Hop(Q[w], R[w], Gone[w], Come[w])
  /\ \A v, w \in W : \A x : x \in Come[v] /\ x \in Come[w] => v = w
  /\ \A w \in W : \A x \in Gone[w] : \E v \in W : x \in Come[v]
  /\ \A x \in New : \E v \in W : x \in Come[v]
  /\ \A w \in W : \A x \in Come[w] : x \in New \/ \E v \in W : x \in Gone[v]
  /\ \A w \in W : \A x \in Elems(Q[w]) : x \notin New

\* Then the queues stay apart and nothing is lost.
LEMMA Round ==
  ASSUME NEW W, NEW Q, NEW R, NEW Gone, NEW Come, NEW New,
         Apart(W, Q), Hops(W, Q, R, Gone, Come, New)
  PROVE  /\ Apart(W, R)
         /\ \A x : (\E w \in W : x \in Elems(R[w])) <=> (\E w \in W : x \in Elems(Q[w])) \/ x \in New
<1>0. /\ \A w \in W : Hop(Q[w], R[w], Gone[w], Come[w])
      /\ \A v, w \in W : \A x : x \in Come[v] /\ x \in Come[w] => v = w
      /\ \A w \in W : \A x \in Gone[w] : \E v \in W : x \in Come[v]
      /\ \A x \in New : \E v \in W : x \in Come[v]
      /\ \A w \in W : \A x \in Come[w] : x \in New \/ \E v \in W : x \in Gone[v]
      /\ \A w \in W : \A x \in Elems(Q[w]) : x \notin New
  BY DEF Hops
<1>1. \A w \in W : Gone[w] \subseteq Elems(Q[w])
  BY <1>0 DEF Hop
<1>2. \A w \in W : \A x : x \in Elems(R[w]) <=> (x \in Elems(Q[w]) /\ x \notin Gone[w]) \/ x \in Come[w]
  BY <1>0 DEF Hop
<1>3. \A w \in W : \A x \in Come[w] : \A v \in W : x \in Elems(Q[v]) => x \in Gone[v]
  BY <1>0, <1>1 DEF Apart
<1>4. \A w \in W : Distinct(R[w])
  <2> TAKE w \in W
  <2>1. Come[w] \cap (Elems(Q[w]) \ Gone[w]) = {}
    BY <1>3
  <2>2. QED
    BY <1>0, <2>1 DEF Hop, Apart
<1>5. ASSUME NEW v \in W, NEW w \in W, NEW x, x \in Elems(R[v]), x \in Elems(R[w]) PROVE v = w
  BY <1>0, <1>2, <1>3, <1>5 DEF Apart
<1>6. ASSUME NEW x, NEW w \in W, x \in Elems(R[w])
      PROVE  (\E v \in W : x \in Elems(Q[v])) \/ x \in New
  BY <1>0, <1>1, <1>2, <1>6
<1>7. ASSUME NEW x, NEW w \in W, x \in Elems(Q[w]) PROVE \E v \in W : x \in Elems(R[v])
  BY <1>0, <1>2, <1>7
<1>8. ASSUME NEW x \in New PROVE \E v \in W : x \in Elems(R[v])
  BY <1>0, <1>2
<1>9. QED
  BY <1>4, <1>5, <1>6, <1>7, <1>8 DEF Apart

\* A round in which some queues hand their first entry on, each to another that hands nothing on.
Relays(W, S, Q, R, F, To) ==
  /\ F \subseteq W
  /\ \A w \in W : Q[w] \in Seq(S)
  /\ \A w \in F : /\ Q[w] # <<>> /\ R[w] = Tail(Q[w])
                  /\ To[w] \in W /\ To[w] \notin F /\ R[To[w]] = Append(Q[To[w]], Q[w][1])
  /\ \A v, w \in F : To[v] = To[w] => v = w
  /\ \A w \in W : w \notin F /\ (\A v \in F : w # To[v]) => R[w] = Q[w]
\* Then, too, the queues stay apart and nothing is lost.
LEMMA Relay ==
  ASSUME NEW W, NEW S, NEW Q, NEW R, NEW F, NEW To, Apart(W, Q), Relays(W, S, Q, R, F, To)
  PROVE  /\ Apart(W, R)
         /\ \A x : (\E w \in W : x \in Elems(R[w])) <=> (\E w \in W : x \in Elems(Q[w]))
<1>0. /\ F \subseteq W
      /\ \A w \in W : Q[w] \in Seq(S) /\ Distinct(Q[w])
      /\ \A w \in F : /\ Q[w] # <<>> /\ R[w] = Tail(Q[w])
                      /\ To[w] \in W /\ To[w] \notin F /\ R[To[w]] = Append(Q[To[w]], Q[w][1])
      /\ \A v, w \in F : To[v] = To[w] => v = w
      /\ \A w \in W : w \notin F /\ (\A v \in F : w # To[v]) => R[w] = Q[w]
  BY DEF Relays, Apart
<1>1. \A w \in F : Q[w][1] \in S /\ Q[w][1] \in Elems(Q[w])
  <2> TAKE w \in F
  <2>1. PICK q \in Seq(S) : q = Q[w] /\ q # <<>>
    BY <1>0
  <2>2. q[1] \in S /\ q[1] \in Elems(q)
    BY <2>1, HeadTailProperties, ElemsEmpty
  <2>3. QED
    BY <2>1, <2>2
<1>2. PICK Gone, Come :
        /\ Gone = [w \in W |-> {x \in S : w \in F /\ x = Q[w][1]}]
        /\ Come = [w \in W |-> {x \in S : \E v \in F : w = To[v] /\ x = Q[v][1]}]
  OBVIOUS
<1>3. \A w \in W : /\ \A x : x \in Gone[w] <=> w \in F /\ x = Q[w][1]
                   /\ \A x : x \in Come[w] <=> \E v \in F : w = To[v] /\ x = Q[v][1]
  BY <1>1, <1>2
<1>4. \A w \in W : Hop(Q[w], R[w], Gone[w], Come[w])
  <2> TAKE w \in W
  <2>1. PICK q \in Seq(S) : q = Q[w] /\ Distinct(q)
    BY <1>0
  <2>2. CASE w \in F
    <3>1. Gone[w] = {q[1]} /\ Come[w] = {} /\ R[w] = Tail(q) /\ q # <<>>
      BY <1>0, <1>3, <2>1, <2>2
    <3>2. Hop(q, Tail(q), {q[1]}, {})
      BY <2>1, <3>1, HopPop
    <3>3. QED
      BY <2>1, <3>1, <3>2, Zenon
  <2>3. ASSUME NEW v \in F, w = To[v] PROVE Hop(Q[w], R[w], Gone[w], Come[w])
    <3>1. PICK e \in S : e = Q[v][1]
      BY <1>1
    <3>2. Gone[w] = {} /\ Come[w] = {e} /\ R[w] = Append(q, e)
      <4>1. w \notin F
        BY <1>0, <2>3
      <4>2. \A x : x \notin Gone[w]
        BY <1>3, <4>1
      <4>3. \A x : x \in Come[w] <=> x = e
        BY <1>0, <1>3, <2>3, <3>1
      <4>4. R[w] = Append(q, e)
        BY <1>0, <2>1, <2>3, <3>1
      <4>5. QED
        BY <4>2, <4>3, <4>4
    <3>3. Hop(q, Append(q, e), {}, {e})
      BY HopAppend
    <3>4. QED
      BY <2>1, <3>2, <3>3, Zenon
  <2>4. CASE w \notin F /\ \A v \in F : w # To[v]
    <3>1. Gone[w] = {} /\ Come[w] = {} /\ R[w] = Q[w]
      BY <1>0, <1>3, <2>4
    <3>2. QED
      BY <3>1, HopStay
  <2>5. QED
    BY <2>2, <2>3, <2>4
<1>5. \A v, w \in W : \A x : x \in Come[v] /\ x \in Come[w] => v = w
  <2> SUFFICES ASSUME NEW v \in W, NEW w \in W, NEW x, x \in Come[v], x \in Come[w] PROVE v = w
    OBVIOUS
  <2>1. PICK t \in F, u \in F : v = To[t] /\ w = To[u] /\ x = Q[t][1] /\ x = Q[u][1]
    BY <1>3
  <2>2. t \in W /\ u \in W /\ x \in Elems(Q[t]) /\ x \in Elems(Q[u])
    BY <1>0, <1>1, <2>1, Zenon
  <2>3. t = u
    BY <2>2, Zenon DEF Apart
  <2>4. QED
    BY <2>1, <2>3
<1>6. \A w \in W : \A x \in Gone[w] : \E v \in W : x \in Come[v]
  BY <1>0, <1>3
<1>7. PICK N : N = {}
  OBVIOUS
<1>8. Hops(W, Q, R, Gone, Come, N)
  <2>1. \A x \in N : \E v \in W : x \in Come[v]
    BY <1>7
  <2>2. \A w \in W : \A x \in Elems(Q[w]) : x \notin N
    BY <1>7
  <2>3. \A w \in W : \A x \in Come[w] : x \in N \/ \E v \in W : x \in Gone[v]
    BY <1>0, <1>3
  <2>4. QED
    BY <1>4, <1>5, <1>6, <2>1, <2>2, <2>3, Zenon DEF Hops
<1>9. Apart(W, R) /\ \A x : (\E w \in W : x \in Elems(R[w])) <=> (\E w \in W : x \in Elems(Q[w])) \/ x \in N
  BY <1>8, Round, Zenon
<1>10. QED
  BY <1>7, <1>9

-------------------------------------------------------------------------------
(* The queues of the memory system *)

\* The eight kinds of queues
OutboxOf(c) == <<"outbox", c>>
ReceivedOf(c) == <<"received", c>>
Link(s, d) == <<"link", s, d>>
OutBufOf(d) == <<"outBuf", d>>
FromXbarOf(m) == <<"fromXbar", m>>
ToMemOf(m) == <<"toMem", m>>
DramOf(m) == <<"dram", m>>
ToXbarOf(m) == <<"toXbar", m>>
KindOf(w) ==
  \/ \E c \in Core : w = OutboxOf(c) \/ w = ReceivedOf(c)
  \/ \E s, d \in Node : w = Link(s, d)
  \/ \E d \in Node : w = OutBufOf(d)
  \/ \E m \in Channel : w = FromXbarOf(m) \/ w = ToMemOf(m) \/ w = DramOf(m) \/ w = ToXbarOf(m)

\* Each queue has a name of its own.
LEMMA StoreNames == \A w : w \in Stores <=> KindOf(w)
BY DEF Stores, KindOf, OutboxOf, ReceivedOf, Link, OutBufOf, FromXbarOf, ToMemOf, DramOf, ToXbarOf
\* Queues of one kind have different names.
LEMMA OtherNames ==
  /\ \A c, d : /\ OutboxOf(c) = OutboxOf(d) => c = d
               /\ ReceivedOf(c) = ReceivedOf(d) => c = d
               /\ OutBufOf(c) = OutBufOf(d) => c = d
               /\ FromXbarOf(c) = FromXbarOf(d) => c = d
               /\ ToMemOf(c) = ToMemOf(d) => c = d
               /\ DramOf(c) = DramOf(d) => c = d
               /\ ToXbarOf(c) = ToXbarOf(d) => c = d
  /\ \A s, d, t, e : Link(s, d) = Link(t, e) => s = t /\ d = e
BY DEF OutboxOf, ReceivedOf, Link, OutBufOf, FromXbarOf, ToMemOf, DramOf, ToXbarOf

\* What is in them, by name
ContentIs ==
  /\ \A c \in Core : Content(OutboxOf(c)) = outbox[c] /\ Content(ReceivedOf(c)) = received[c]
  /\ \A s, d \in Node : Content(Link(s, d)) = Reqs(inBuf[s][d])
  /\ \A d \in Node : Content(OutBufOf(d)) = outBuf[d]
  /\ \A m \in Channel : Content(FromXbarOf(m)) = fromXbar[m] /\ Content(ToMemOf(m)) = toMem[m]
                        /\ Content(DramOf(m)) = Reqs(dram[m]) /\ Content(ToXbarOf(m)) = toXbar[m]
\* These hold before and after a step.
LEMMA Contents == ContentIs /\ ContentIs'
BY DEF ContentIs, Content, OutboxOf, ReceivedOf, Link, OutBufOf, FromXbarOf, ToMemOf, DramOf, ToXbarOf

\* A name tells its kind.
LEMMA KindNames ==
  /\ \A c : OutboxOf(c)[1] = "outbox" /\ ReceivedOf(c)[1] = "received" /\ OutBufOf(c)[1] = "outBuf"
  /\ \A s, d : Link(s, d)[1] = "link"
  /\ \A m : /\ FromXbarOf(m)[1] = "fromXbar" /\ ToMemOf(m)[1] = "toMem"
            /\ DramOf(m)[1] = "dram" /\ ToXbarOf(m)[1] = "toXbar"
BY DEF OutboxOf, ReceivedOf, Link, OutBufOf, FromXbarOf, ToMemOf, DramOf, ToXbarOf

-------------------------------------------------------------------------------
(* Plans, ports and clocks *)

\* Every request is in the plan of one core, in one place.
LEMMA PlanFacts ==
  ASSUME MemRequestAssumption
  PROVE  /\ \A c \in Core : Len(Plan[c]) \in Nat
         /\ \A c \in Core : \A n \in 1..Len(Plan[c]) : Plan[c][n] \in Req /\ CoreOf[Plan[c][n]] = c
         /\ \A r \in Req : CoreOf[r] \in Core /\ \E n \in 1..Len(Plan[CoreOf[r]]) : Plan[CoreOf[r]][n] = r
<1>1. \A c \in Core : Plan[c] \in Seq(Req) /\ Len(Plan[c]) \in Nat
  BY LenProperties DEF MemRequestAssumption
<1>2. \A c \in Core : \A n \in 1..Len(Plan[c]) : Plan[c][n] \in Req
  BY <1>1, ElementOfSeq
<1>3. ASSUME NEW r \in Req
      PROVE  CoreOf[r] \in Core /\ \E n \in 1..Len(Plan[CoreOf[r]]) : Plan[CoreOf[r]][n] = r
  <2>1. \E c \in Core : Contains(Plan[c], r)
    BY DEF MemRequestAssumption, Contains
  <2>2. CoreOf[r] \in Core /\ Contains(Plan[CoreOf[r]], r)
    BY <2>1 DEF CoreOf
  <2>3. QED
    BY <2>2 DEF Contains
<1>4. ASSUME NEW c \in Core, NEW n \in 1..Len(Plan[c]) PROVE CoreOf[Plan[c][n]] = c
  <2>1. PICK r \in Req : r = Plan[c][n]
    BY <1>2
  <2>2. PICK m \in 1..Len(Plan[CoreOf[r]]) : CoreOf[r] \in Core /\ Plan[CoreOf[r]][m] = r
    BY <1>3
  <2>3. CoreOf[r] = c
    BY <2>1, <2>2, SMTT(30) DEF MemRequestAssumption
  <2>4. QED
    BY <2>1, <2>3
<1>5. QED
  BY <1>1, <1>2, <1>3, <1>4

\* The nodes of the interconnect are the ports of the cores and, behind them, the channels.
LEMMA PortFacts ==
  ASSUME MemConfigAssumption
  PROVE  /\ Offset \in Nat \ {0}
         /\ \A p \in 0..(Offset - 1) : /\ p \in Node /\ CoreAt(p) \in Core /\ 1 + (p % Ports) \in 1..Ports
                                       /\ PortOf(CoreAt(p), 1 + (p % Ports)) = p
         /\ \A c \in Core, j \in 1..Ports :
              /\ PortOf(c, j) \in 0..(Offset - 1) /\ CoreAt(PortOf(c, j)) = c
              /\ 1 + (PortOf(c, j) % Ports) = j
         /\ \A m \in Channel : Offset + m \in Node /\ Offset + m >= Offset
         /\ \A d \in Node : d \in Nat /\ (d >= Offset => d - Offset \in Channel)
<1>0. Ports \in Nat \ {0} /\ NumCores \in Nat \ {0} /\ NumChannels \in Nat \ {0}
  BY DEF MemConfigAssumption
<1>1. Offset \in Nat \ {0} /\ Offset = NumCores * Ports
  BY <1>0 DEF Offset
<1>2. ASSUME NEW p \in 0..(Offset - 1)
      PROVE  CoreAt(p) \in Core /\ 1 + (p % Ports) \in 1..Ports /\ PortOf(CoreAt(p), 1 + (p % Ports)) = p
  <2>1. p \in 0..(NumCores * Ports - 1) /\ p \in Nat
    BY <1>0, <1>1
  <2>2. p \div Ports \in 0..(NumCores - 1)
    BY <1>0, <2>1
  <2>3. p = (p \div Ports) * Ports + (p % Ports) /\ p % Ports \in 0..(Ports - 1)
    BY <1>0, <2>1
  <2>4. QED
    BY <1>0, <2>2, <2>3 DEF CoreAt, Core, PortOf
<1>3. ASSUME NEW c \in Core, NEW j \in 1..Ports
      PROVE  /\ PortOf(c, j) \in 0..(Offset - 1) /\ CoreAt(PortOf(c, j)) = c
             /\ 1 + (PortOf(c, j) % Ports) = j
  <2>1. c \in 0..(NumCores - 1) /\ c \in Nat
    BY <1>0 DEF Core
  <2>2. c * Ports + j - 1 \in 0..(NumCores * Ports - 1)
    BY <1>0, <2>1
  <2>3. (c * Ports + j - 1) \div Ports = c /\ (c * Ports + j - 1) % Ports = j - 1
    BY <1>0, <2>1
  <2>4. QED
    BY <1>0, <1>1, <2>2, <2>3 DEF PortOf, CoreAt
<1>4. QED
  BY <1>0, <1>1, <1>2, <1>3 DEF Node, Channel

\* A message goes to a node, as a request to a channel and as a response to its core.
LEMMA DestFacts ==
  ASSUME MemConfigAssumption, MemRequestAssumption, NEW r \in Req
  PROVE  /\ Dest(r) \in Node
         /\ r \in replied => Dest(r) < Offset /\ CoreAt(Dest(r)) = CoreOf[r]
         /\ r \notin replied => Dest(r) >= Offset
<1>1. ChannelOf[r] \in Channel /\ CoreOf[r] \in Core /\ Ports \in Nat \ {0} /\ ChannelOf[r] \in Int
  <2>1. CoreOf[r] \in Core
    BY PlanFacts
  <2>2. ChannelOf[r] \in Channel
    BY DEF MemRequestAssumption
  <2>3. Ports \in Nat \ {0} /\ NumChannels \in Nat \ {0}
    BY DEF MemConfigAssumption
  <2>4. QED
    BY <2>1, <2>2, <2>3 DEF Channel
<1>2. 1 + (ChannelOf[r] % Ports) \in 1..Ports
  BY <1>1
<1>3. CASE r \in replied
  BY <1>1, <1>2, <1>3, PortFacts DEF Dest
<1>4. CASE r \notin replied
  BY <1>1, <1>4, PortFacts DEF Dest
<1>5. QED
  BY <1>3, <1>4

\* The least of three clocks
LEMMA LeastOfThree ==
  ASSUME NEW a \in Int, NEW b \in Int, NEW c \in Int
  PROVE  /\ Least({a, b, c}) \in {a, b, c}
         /\ Least({a, b, c}) <= a /\ Least({a, b, c}) <= b /\ Least({a, b, c}) <= c
<1>1. \E x \in {a, b, c} : \A y \in {a, b, c} : x <= y
  BY SMT
<1>2. QED
  BY <1>1 DEF Least

\* Places on a ring are told apart by their distance from a third.
LEMMA Ring ==
  ASSUME NEW N \in Nat \ {0}, NEW r \in 0..(N - 1), NEW s \in 0..(N - 1), NEW t \in 0..(N - 1),
         (s - r) % N = (t - r) % N
  PROVE  s = t
OBVIOUS

\* Each destination takes from one source at most, the one next in turn: no two sources are at
\* the same distance.
LEMMA ChosenOnce ==
  ASSUME MemConfigAssumption, TypeOK, NEW d \in Node
  PROVE  /\ \A s, t \in Chosen(d) : s = t
         /\ \A s \in Chosen(d) : Least(Chosen(d)) = s
<1>0. Offset \in Nat \ {0} /\ NumChannels \in Nat \ {0} /\ rrNext[d] \in Node /\ Node = 0..(Offset + NumChannels - 1)
  BY PortFacts DEF MemConfigAssumption, TypeOK, Node
<1>1. PICK N \in Nat \ {0} : N = Offset + NumChannels
  BY <1>0
<1>2. \A s \in Node : s \in 0..(N - 1) /\ Distance(s, d) = (s - rrNext[d]) % N /\ Distance(s, d) \in Int
  BY <1>0, <1>1 DEF Distance
<1>3. ASSUME NEW s \in Node, NEW t \in Node, Distance(s, d) = Distance(t, d) PROVE s = t
  <2>1. PICK r \in 0..(N - 1) : r = rrNext[d]
    BY <1>0, <1>1
  <2>2. (s - r) % N = (t - r) % N
    BY <1>2, <1>3, <2>1
  <2>3. QED
    <3>1. s \in 0..(N - 1) /\ t \in 0..(N - 1)
      BY <1>2
    <3>2. QED
      BY <2>2, <3>1, Ring
<1>4. ASSUME NEW s \in Chosen(d), NEW t \in Chosen(d) PROVE s = t
  <2>1. s \in Node /\ t \in Node /\ Distance(s, d) <= Distance(t, d) /\ Distance(t, d) <= Distance(s, d)
    BY DEF Chosen
  <2>2. QED
    BY <1>2, <1>3, <2>1
<1>5. ASSUME NEW s \in Chosen(d) PROVE Least(Chosen(d)) = s
  <2>1. Chosen(d) = {s} /\ s \in Int
    BY <1>0, <1>4 DEF Chosen
  <2>2. Least({s}) = s
    BY <2>1 DEF Least
  <2>3. QED
    BY <2>1, <2>2
<1>6. QED
  BY <1>4, <1>5

-------------------------------------------------------------------------------
(* Types *)

\* One clock is at zero: the others are counted from the earliest on.
TypeInv ==
  /\ TypeOK /\ 0 \in {coreTime, dramTime, icntTime}
  /\ \A c \in Core : made[c] <= Len(Plan[c])

\* The queues with the time that their messages still have to wait
Message == [req : Req, left : Int]
Cell == [req : Req, left : Nat]

\* The requests in such a queue
LEMMA ReqsType ==
  ASSUME NEW q \in Seq(Message)
  PROVE  /\ Reqs(q) \in Seq(Req) /\ Len(Reqs(q)) = Len(q)
         /\ \A n \in 1..Len(q) : Reqs(q)[n] = q[n].req
         /\ (q = <<>>) <=> (Reqs(q) = <<>>)
<1>1. \A n \in 1..Len(q) : q[n] \in Message
  BY ElementOfSeq
<1>2. \A n \in 1..Len(q) : q[n].req \in Req
  BY <1>1 DEF Message
<1>3. Len(q) \in Nat /\ Reqs(q) \in [1..Len(q) -> Req]
  BY <1>2, LenProperties DEF Reqs
<1>4. Reqs(q) \in Seq(Req) /\ Len(Reqs(q)) = Len(q)
  BY <1>3, SeqDef, LenProperties
<1>5. QED
  BY <1>3, <1>4, EmptySeq DEF Reqs

\* Waiting changes nothing about the requests.
LEMMA ReqsKept ==
  ASSUME NEW q \in Seq(Message), NEW p \in Seq(Message), Len(p) = Len(q),
         \A n \in 1..Len(q) : p[n].req = q[n].req
  PROVE  Reqs(p) = Reqs(q)
BY DEF Reqs

\* push and pop of a message are push and pop of its request.
LEMMA ReqsMoves ==
  ASSUME NEW q \in Seq(Message)
  PROVE  /\ \A e \in Message : Reqs(Append(q, e)) = Append(Reqs(q), e.req)
         /\ q # <<>> => Reqs(Tail(q)) = Tail(Reqs(q)) /\ Reqs(q)[1] = Head(q).req /\ Head(q).req \in Req
<1>0. Len(q) \in Nat /\ Reqs(q) \in Seq(Req) /\ Len(Reqs(q)) = Len(q)
      /\ \A n \in 1..Len(q) : Reqs(q)[n] = q[n].req /\ q[n].req \in Req
  <2>1. \A n \in 1..Len(q) : q[n] \in Message
    BY ElementOfSeq
  <2>2. QED
    BY <2>1, ReqsType, LenProperties DEF Message
<1>1. ASSUME NEW e \in Message PROVE Reqs(Append(q, e)) = Append(Reqs(q), e.req)
  <2>0. e.req \in Req
    BY DEF Message
  <2>1. /\ Append(q, e) \in Seq(Message) /\ Len(Append(q, e)) = Len(q) + 1
        /\ \A n \in 1..Len(q) : Append(q, e)[n] = q[n]
        /\ Append(q, e)[Len(q) + 1] = e
    BY AppendProperties
  <2>2. /\ Append(Reqs(q), e.req) \in Seq(Req) /\ Len(Append(Reqs(q), e.req)) = Len(q) + 1
        /\ \A n \in 1..Len(q) : Append(Reqs(q), e.req)[n] = Reqs(q)[n]
        /\ Append(Reqs(q), e.req)[Len(q) + 1] = e.req
    BY <1>0, <2>0, AppendProperties
  <2>3. /\ Reqs(Append(q, e)) \in Seq(Req) /\ Len(Reqs(Append(q, e))) = Len(q) + 1
        /\ \A n \in 1..Len(q) + 1 : Reqs(Append(q, e))[n] = Append(q, e)[n].req
    BY <2>1, ReqsType
  <2>4. \A n \in 1..Len(q) + 1 : Reqs(Append(q, e))[n] = Append(Reqs(q), e.req)[n]
    <3> TAKE n \in 1..Len(q) + 1
    <3>1. CASE n \in 1..Len(q)
      BY <1>0, <2>1, <2>2, <2>3, <3>1
    <3>2. CASE n = Len(q) + 1
      BY <1>0, <2>1, <2>2, <2>3, <3>2
    <3>3. QED
      BY <1>0, <3>1, <3>2
  <2>5. QED
    BY <2>2, <2>3, <2>4, SeqEqual
<1>2. ASSUME q # <<>>
      PROVE  Reqs(Tail(q)) = Tail(Reqs(q)) /\ Reqs(q)[1] = Head(q).req /\ Head(q).req \in Req
  <2>1. /\ Len(q) \in Nat \ {0} /\ Head(q) = q[1] /\ Tail(q) \in Seq(Message) /\ Len(Tail(q)) = Len(q) - 1
        /\ \A n \in 1..Len(Tail(q)) : Tail(q)[n] = q[n + 1]
    BY <1>2, HeadTailProperties, EmptySeq, LenProperties
  <2>2. Reqs(q) # <<>>
    BY <1>2, ReqsType
  <2>3. /\ Tail(Reqs(q)) \in Seq(Req) /\ Len(Tail(Reqs(q))) = Len(q) - 1
        /\ \A n \in 1..Len(Tail(Reqs(q))) : Tail(Reqs(q))[n] = Reqs(q)[n + 1]
    BY <1>0, <2>2, HeadTailProperties
  <2>4. /\ Reqs(Tail(q)) \in Seq(Req) /\ Len(Reqs(Tail(q))) = Len(q) - 1
        /\ \A n \in 1..Len(q) - 1 : Reqs(Tail(q))[n] = Tail(q)[n].req
    BY <2>1, ReqsType
  <2>5. \A n \in 1..Len(q) - 1 : Reqs(Tail(q))[n] = Tail(Reqs(q))[n]
    <3> TAKE n \in 1..Len(q) - 1
    <3>1. n + 1 \in 1..Len(q)
      BY <2>1
    <3>2. QED
      BY <1>0, <2>1, <2>3, <2>4, <3>1
  <2>6. Reqs(Tail(q)) = Tail(Reqs(q))
    BY <2>3, <2>4, <2>5, SeqEqual
  <2>7. 1 \in 1..Len(q)
    BY <2>1
  <2>8. QED
    BY <1>0, <2>1, <2>6, <2>7
<1>3. QED
  BY <1>1, <1>2

\* A cell of the delay queue is a message whose time is not negative.
LEMMA CellsAreMessages == \A q \in Seq(Cell) : q \in Seq(Message)
<1> TAKE q \in Seq(Cell)
<1>1. Len(q) \in Nat /\ q \in [1..Len(q) -> Cell]
  BY LenProperties
<1>2. \A n \in 1..Len(q) : q[n] \in Message
  <2>1. \A n \in 1..Len(q) : q[n] \in Cell
    BY <1>1
  <2>2. \A x \in Cell : x \in Message
    BY DEF Cell, Message
  <2>3. QED
    BY <2>1, <2>2
<1>3. q \in [1..Len(q) -> Message]
  BY <1>1, <1>2
<1>4. QED
  BY <1>1, <1>3, SeqDef

\* What the parts of TypeOK say, by the kind of the queues
LEMMA QueueTypes ==
  ASSUME TypeOK
  PROVE  /\ \A s, d \in Node : inBuf[s][d] \in Seq(Message)
         /\ \A m \in Channel : dram[m] \in Seq(Cell) /\ dram[m] \in Seq(Message)
         /\ \A c \in Core : outbox[c] \in Seq(Req) /\ received[c] \in Seq(Req)
         /\ \A d \in Node : outBuf[d] \in Seq(Req)
         /\ \A m \in Channel : fromXbar[m] \in Seq(Req) /\ toMem[m] \in Seq(Req) /\ toXbar[m] \in Seq(Req)
<1>1. \A m \in Channel : dram[m] \in Seq(Cell)
  BY DEF TypeOK, Cell
<1>2. \A m \in Channel : dram[m] \in Seq(Message)
  BY <1>1, CellsAreMessages
<1>3. \A s, d \in Node : inBuf[s][d] \in Seq(Message)
  BY DEF TypeOK, Message
<1>4. \A c \in Core : outbox[c] \in Seq(Req) /\ received[c] \in Seq(Req)
  BY DEF TypeOK
<1>5. \A d \in Node : outBuf[d] \in Seq(Req)
  BY DEF TypeOK
<1>6. \A m \in Channel : fromXbar[m] \in Seq(Req) /\ toMem[m] \in Seq(Req) /\ toXbar[m] \in Seq(Req)
  BY DEF TypeOK
<1>7. QED
  BY <1>1, <1>2, <1>3, <1>4, <1>5, <1>6, Zenon

\* Another round of the delay queue
LEMMA AgedType ==
  ASSUME NEW q \in Seq(Cell)
  PROVE  Aged(q) \in Seq(Cell) /\ Len(Aged(q)) = Len(q) /\ Reqs(Aged(q)) = Reqs(q)
<1>1. Len(q) \in Nat /\ \A n \in 1..Len(q) : q[n] \in Cell
  BY ElementOfSeq, LenProperties
<1>2. \A n \in 1..Len(q) : /\ [q[n] EXCEPT !.left = IF @ > 0 THEN @ - 1 ELSE 0] \in Cell
                           /\ [q[n] EXCEPT !.left = IF @ > 0 THEN @ - 1 ELSE 0].req = q[n].req
  BY <1>1 DEF Cell
<1>3. Aged(q) \in [1..Len(q) -> Cell] /\ \A n \in 1..Len(q) : Aged(q)[n].req = q[n].req
  BY <1>2 DEF Aged
<1>4. Aged(q) \in Seq(Cell) /\ Len(Aged(q)) = Len(q)
  BY <1>1, <1>3, SeqDef, LenProperties
<1>5. QED
  BY <1>3, <1>4, ReqsKept, CellsAreMessages

\* A round of the delay queue with what comes in and goes out
LEMMA DramTypes ==
  ASSUME MemConfigAssumption, TypeOK, NEW m \in Channel
  PROVE  /\ Inside(m) \in Seq(Cell) /\ Leaving(m) \in Seq(Cell)
         /\ Arrived(m) => Inside(m) # <<>> /\ Leaving(m) = Tail(Inside(m)) /\ Head(Inside(m)).req \in Req
         /\ ~Arrived(m) => Leaving(m) = Inside(m)
         /\ Reqs(Inside(m)) = IF Admit(m) THEN Append(Reqs(dram[m]), Head(toMem[m])) ELSE Reqs(dram[m])
         /\ Admit(m) => toMem[m] # <<>> /\ Head(toMem[m]) = toMem[m][1] /\ Head(toMem[m]) \in Req
<1>1. dram[m] \in Seq(Cell) /\ toMem[m] \in Seq(Req) /\ DramLatency \in Nat
  BY QueueTypes DEF MemConfigAssumption
<1>2. Admit(m) => toMem[m] # <<>> /\ Head(toMem[m]) = toMem[m][1] /\ Head(toMem[m]) \in Req
  BY <1>1, HeadTailProperties DEF Admit
<1>3. Aged(dram[m]) \in Seq(Cell) /\ Reqs(Aged(dram[m])) = Reqs(dram[m])
  BY <1>1, AgedType
<1>4. Admit(m) => [req |-> Head(toMem[m]), left |-> DramLatency] \in Cell
  BY <1>1, <1>2 DEF Cell
<1>5. Inside(m) \in Seq(Cell)
  BY <1>3, <1>4, AppendProperties DEF Inside
<1>6. Reqs(Inside(m)) = IF Admit(m) THEN Append(Reqs(dram[m]), Head(toMem[m])) ELSE Reqs(dram[m])
  <2>1. ASSUME Admit(m) PROVE Reqs(Inside(m)) = Append(Reqs(dram[m]), Head(toMem[m]))
    <3>1. PICK e \in Cell : e = [req |-> Head(toMem[m]), left |-> DramLatency]
      BY <1>4, <2>1
    <3>2. e \in Message /\ e.req = Head(toMem[m])
      BY <3>1 DEF Cell, Message
    <3>3. Reqs(Append(Aged(dram[m]), e)) = Append(Reqs(Aged(dram[m])), e.req)
      BY <1>3, <3>2, CellsAreMessages, ReqsMoves
    <3>4. QED
      BY <1>3, <2>1, <3>1, <3>2, <3>3 DEF Inside
  <2>2. QED
    BY <1>3, <2>1 DEF Inside
<1>7. Arrived(m) => Inside(m) # <<>> /\ Leaving(m) = Tail(Inside(m)) /\ Head(Inside(m)).req \in Req
  <2>1. Arrived(m) => Inside(m) # <<>>
    BY DEF Arrived
  <2>2. Inside(m) # <<>> => Head(Inside(m)).req \in Req
    BY <1>5, CellsAreMessages, ReqsMoves
  <2>3. QED
    BY <2>1, <2>2 DEF Leaving
<1>8. Leaving(m) \in Seq(Cell) /\ (~Arrived(m) => Leaving(m) = Inside(m))
  BY <1>5, <1>7, HeadTailProperties DEF Leaving
<1>9. QED
  BY <1>2, <1>5, <1>6, <1>7, <1>8

\* What enters at a node is the request at its place in the queue of a core, or the first
\* response of a channel.
LEMMA EnteringFacts ==
  ASSUME MemConfigAssumption, TypeOK, NEW p \in Node
  PROVE  /\ Entering(p) # <<>> => /\ Head(Entering(p)) \in Req /\ Entering(p) = <<Head(Entering(p))>>
                                  /\ Elems(Entering(p)) = {Head(Entering(p))}
         /\ p < Offset => /\ Entering(p) # <<>> <=> 1 + (p % Ports) \in 1..Len(outbox[CoreAt(p)])
                          /\ Entering(p) # <<>> => Head(Entering(p)) = outbox[CoreAt(p)][1 + (p % Ports)]
         /\ p >= Offset => /\ Entering(p) # <<>> <=> toXbar[p - Offset] # <<>>
                           /\ Entering(p) # <<>> => Head(Entering(p)) = toXbar[p - Offset][1]
<1>1. \A x : Head(<<x>>) = x /\ Elems(<<x>>) = {x} /\ <<x>> # <<>>
  <2>1. \A x : Elems(<<x>>) = {x}
    <3> TAKE x
    <3>1. Len(<<x>>) = 1 /\ 1..1 = {1} /\ <<x>>[1] = x
      OBVIOUS
    <3>2. QED
      BY <3>1 DEF Elems
  <2>2. QED
    BY <2>1
<1>2. CASE p < Offset
  <2>1. p \in 0..(Offset - 1)
    BY <1>2, PortFacts
  <2>2. CoreAt(p) \in Core /\ 1 + (p % Ports) \in 1..Ports
    BY <2>1, PortFacts
  <2>3. PICK q \in Seq(Req) : q = outbox[CoreAt(p)]
    BY <2>2, QueueTypes
  <2>4. PICK j \in Nat \ {0} : j = 1 + (p % Ports)
    BY <2>2
  <2>5. Entering(p) = IF j <= Len(q) THEN <<q[j]>> ELSE <<>>
    BY <1>2, <2>3, <2>4 DEF Entering
  <2>6. Len(q) \in Nat /\ \A n \in 1..Len(q) : q[n] \in Req
    BY ElementOfSeq, LenProperties
  <2>7. j <= Len(q) <=> j \in 1..Len(q)
    BY <2>6
  <2>8. p \in Int /\ Offset \in Int /\ ~(p >= Offset)
    BY <1>2, <2>1, PortFacts
  <2>9. QED
    BY <1>1, <2>3, <2>4, <2>5, <2>6, <2>7, <2>8
<1>3. CASE ~(p < Offset)
  <2>1. p - Offset \in Channel
    BY <1>3, PortFacts
  <2>2. PICK q \in Seq(Req) : q = toXbar[p - Offset]
    BY <2>1, QueueTypes
  <2>3. Entering(p) = IF q = <<>> THEN <<>> ELSE <<Head(q)>>
    BY <1>3, <2>2 DEF Entering
  <2>4. q # <<>> => Head(q) = q[1] /\ Head(q) \in Req
    BY HeadTailProperties
  <2>5. QED
    BY <1>1, <1>3, <2>2, <2>3, <2>4
<1>4. QED
  BY <1>2, <1>3

\* The first of a queue, as a sequence
LEMMA FirstFacts ==
  ASSUME NEW q \in Seq(Req)
  PROVE  /\ FirstOf(q) \in Seq(Req) /\ Distinct(FirstOf(q)) /\ Popped(q) \in Seq(Req)
         /\ \A x : x \in Elems(FirstOf(q)) <=> q # <<>> /\ x = q[1]
         /\ q # <<>> => Popped(q) = Tail(q)
         /\ q = <<>> => FirstOf(q) = <<>> /\ Popped(q) = q
<1>1. CASE q = <<>>
  <2>1. FirstOf(q) = <<>> /\ Popped(q) = q /\ <<>> \in Seq(Req) /\ Elems(<<>>) = {} /\ Distinct(<<>>)
    BY <1>1, ElemsEmpty DEF FirstOf, Popped
  <2>2. QED
    BY <1>1, <2>1
<1>2. CASE q # <<>>
  <2>1. Head(q) = q[1] /\ Head(q) \in Req /\ Tail(q) \in Seq(Req)
    BY <1>2, HeadTailProperties
  <2>2. FirstOf(q) = <<q[1]>> /\ Popped(q) = Tail(q)
    BY <1>2, <2>1 DEF FirstOf, Popped
  <2>3. Len(<<q[1]>>) = 1 /\ 1..1 = {1} /\ <<q[1]>>[1] = q[1] /\ <<q[1]>> \in Seq(Req)
    BY <2>1
  <2>4. Elems(<<q[1]>>) = {q[1]}
    BY <2>3 DEF Elems
  <2>5. Distinct(<<q[1]>>)
    BY <2>3 DEF Distinct
  <2>6. QED
    BY <1>2, <2>1, <2>2, <2>3, <2>4, <2>5
<1>3. QED
  BY <1>1, <1>2

\* What a core gets in one cycle of the interconnect: the first message at each of its ports.
LEMMA DeliveredFacts ==
  ASSUME MemConfigAssumption, TypeOK, NEW c \in Core
  PROVE  /\ Delivered(c) \in Seq(Req)
         /\ \A x : x \in Elems(Delivered(c)) <=>
                     \E j \in 1..Ports : outBuf[PortOf(c, j)] # <<>> /\ x = outBuf[PortOf(c, j)][1]
         /\ (\A d, e \in Node : \A x : x \in Elems(outBuf[d]) /\ x \in Elems(outBuf[e]) => d = e)
              => Distinct(Delivered(c))
<1>0. Ports \in Nat \ {0} /\ \A j \in 1..Ports : PortOf(c, j) \in Node /\ CoreAt(PortOf(c, j)) = c
                                                 /\ 1 + (PortOf(c, j) % Ports) = j
  BY PortFacts DEF MemConfigAssumption
<1>1. \A j \in 1..Ports : outBuf[PortOf(c, j)] \in Seq(Req)
  BY <1>0, QueueTypes
<1>2. PICK q : q = [j \in 1..Ports |-> FirstOf(outBuf[PortOf(c, j)])]
  OBVIOUS
<1>3. /\ \A j \in 1..Ports : q[j] = FirstOf(outBuf[PortOf(c, j)]) /\ q[j] \in Seq(Req) /\ Distinct(q[j])
      /\ \A j \in 1..Ports : \A x : x \in Elems(q[j]) <=> outBuf[PortOf(c, j)] # <<>> /\ x = outBuf[PortOf(c, j)][1]
  BY <1>1, <1>2, FirstFacts
<1>4. q \in [1..Ports -> Seq(Req)]
  BY <1>2, <1>3
<1>5. q \in Seq(Seq(Req)) /\ Len(q) = Ports
  BY <1>0, <1>4, SeqDef, LenProperties
<1>6. Delivered(c) = FlattenSeq(q)
  BY <1>2 DEF Delivered
<1>7. /\ FlattenSeq(q) \in Seq(Req)
      /\ \A x : x \in Elems(FlattenSeq(q)) <=> \E j \in 1..Ports : x \in Elems(q[j])
      /\ (\A j, k \in 1..Ports : j # k => Elems(q[j]) \cap Elems(q[k]) = {}) => Distinct(FlattenSeq(q))
  <2>1. Len(q) # 0 /\ \A j \in 1..Len(q) : Distinct(q[j])
    BY <1>0, <1>3, <1>5
  <2>2. QED
    BY <1>5, <2>1, FlattenElems
<1>8. ASSUME \A d, e \in Node : \A x : x \in Elems(outBuf[d]) /\ x \in Elems(outBuf[e]) => d = e
      PROVE  \A j, k \in 1..Ports : j # k => Elems(q[j]) \cap Elems(q[k]) = {}
  <2> SUFFICES ASSUME NEW j \in 1..Ports, NEW k \in 1..Ports, NEW x, x \in Elems(q[j]), x \in Elems(q[k])
               PROVE  j = k
    OBVIOUS
  <2>1. x \in Elems(outBuf[PortOf(c, j)]) /\ x \in Elems(outBuf[PortOf(c, k)])
    <3>1. \A i \in 1..Ports : outBuf[PortOf(c, i)] # <<>> =>
            outBuf[PortOf(c, i)][1] \in Elems(outBuf[PortOf(c, i)])
      BY <1>1, ElemsEmpty
    <3>2. QED
      BY <1>3, <3>1
  <2>2. PortOf(c, j) = PortOf(c, k)
    BY <1>0, <1>8, <2>1, Zenon
  <2>3. QED
    BY <1>0, <2>2
<1>9. \A x : x \in Elems(Delivered(c)) <=>
               \E j \in 1..Ports : outBuf[PortOf(c, j)] # <<>> /\ x = outBuf[PortOf(c, j)][1]
  <2>1. \A x : x \in Elems(Delivered(c)) <=> \E j \in 1..Ports : x \in Elems(q[j])
    BY <1>6, <1>7
  <2>2. QED
    BY <1>3, <2>1, Zenon
<1>10. QED
  BY <1>6, <1>7, <1>8, <1>9

\* What a core makes in one cycle: the next requests of its plan.
LEMMA MadeNext ==
  ASSUME MemRequestAssumption, NEW c \in Core, NEW m \in Nat, NEW n \in Nat, m + n <= Len(Plan[c])
  PROVE  /\ SubSeq(Plan[c], m + 1, m + n) \in Seq(Req) /\ Distinct(SubSeq(Plan[c], m + 1, m + n))
         /\ \A x : x \in Elems(SubSeq(Plan[c], m + 1, m + n)) <=> \E i \in m + 1..m + n : Plan[c][i] = x
<1>0. PICK p \in Seq(Req) : p = Plan[c]
  BY DEF MemRequestAssumption
<1>1. Len(p) \in Nat /\ \A i \in 1..Len(p) : p[i] \in Req
  BY ElementOfSeq, LenProperties
<1>2. PICK s : s = SubSeq(p, m + 1, m + n)
  OBVIOUS
<1>3. /\ s \in Seq(Req) /\ Len(s) = n
      /\ \A i \in 1..n : s[i] = p[m + i] /\ m + i \in 1..Len(p)
  <2>1. \A i \in m + 1..m + n : p[i] \in Req
    BY <1>0, <1>1
  <2>2. m + 1 \in Int /\ m + n \in Int
    OBVIOUS
  <2>3. /\ s \in Seq(Req) /\ Len(s) = IF m + 1 <= m + n THEN m + n - (m + 1) + 1 ELSE 0
        /\ \A i \in 1..m + n - (m + 1) + 1 : s[i] = p[m + 1 + i - 1]
    BY <1>2, <2>1, <2>2, SubSeqProperties
  <2>4. QED
    BY <1>0, <2>3
<1>4. \A i, j \in 1..Len(p) : p[i] = p[j] => i = j
  <2>1. \A i, j \in 1..Len(Plan[c]) : Plan[c][i] = Plan[c][j] => i = j
    BY DEF MemRequestAssumption
  <2>2. QED
    BY <1>0, <2>1
<1>5. Distinct(s)
  <2>1. ASSUME NEW i \in 1..n, NEW j \in 1..n, s[i] = s[j] PROVE i = j
    <3>1. p[m + i] = p[m + j] /\ m + i \in 1..Len(p) /\ m + j \in 1..Len(p)
      BY <1>3, <2>1
    <3>2. m + i = m + j
      BY <1>4, <3>1
    <3>3. QED
      BY <3>2
  <2>2. QED
    BY <1>3, <2>1 DEF Distinct
<1>6. \A x : x \in Elems(s) <=> \E i \in m + 1..m + n : p[i] = x
  <2>1. ASSUME NEW i \in m + 1..m + n PROVE i - m \in 1..n /\ s[i - m] = p[i]
    BY <1>3
  <2>2. ASSUME NEW i \in 1..n PROVE m + i \in m + 1..m + n /\ s[i] = p[m + i]
    BY <1>3
  <2>3. \A x : x \in Elems(s) <=> \E i \in 1..n : s[i] = x
    BY <1>3 DEF Elems
  <2>4. QED
    BY <2>1, <2>2, <2>3
<1>7. QED
  BY <1>0, <1>2, <1>3, <1>5, <1>6

\* At first the types are right.
LEMMA TypeInit == ASSUME MemConfigAssumption, MemRequestAssumption, Init PROVE TypeInv
<1>0. /\ NumCores \in Nat \ {0} /\ NumChannels \in Nat \ {0} /\ ReqSize \in Nat \ {0}
      /\ CorePeriod \in Nat \ {0} /\ DramPeriod \in Nat \ {0} /\ IcntPeriod \in Nat \ {0}
  BY DEF MemConfigAssumption
<1>1. 0 \in Node /\ Offset \in Nat
  BY <1>0, PortFacts DEF Node
<1>2. coreTime \in 0..CorePeriod /\ dramTime \in 0..DramPeriod /\ icntTime \in 0..IcntPeriod
  BY <1>0 DEF Init
<1>3. /\ inBuf \in [Node -> [Node -> Seq([req : Req, left : Int])]] /\ rrNext \in [Node -> Node]
      /\ outBuf \in [Node -> Seq(Req)]
  BY <1>1 DEF Init
<1>4. /\ made \in [Core -> Nat] /\ outbox \in [Core -> Seq(Req)] /\ received \in [Core -> Seq(Req)]
      /\ fromXbar \in [Channel -> Seq(Req)] /\ toMem \in [Channel -> Seq(Req)]
      /\ toXbar \in [Channel -> Seq(Req)]
      /\ dram \in [Channel -> Seq([req : Req, left : Nat])]
  BY DEF Init
<1>5. credit \in [Channel -> Nat] /\ replied \subseteq Req /\ young \subseteq Req
  <2>1. 2 * ReqSize \in Nat
    BY <1>0
  <2>2. QED
    BY <2>1 DEF Init
<1>6. step \in {"clock", "core", "dram", "icnt", "tick"} /\ mask \subseteq {"core", "dram", "icnt"}
  BY DEF Init
<1>7. \A c \in Core : made[c] <= Len(Plan[c])
  <2>1. \A c \in Core : made[c] = 0 /\ Len(Plan[c]) \in Nat
    BY PlanFacts DEF Init
  <2>2. QED
    BY <2>1
<1>8. 0 \in {coreTime, dramTime, icntTime}
  BY DEF Init
<1>9. QED
  BY <1>2, <1>3, <1>4, <1>5, <1>6, <1>7, <1>8 DEF TypeInv, TypeOK

\* Simulator::set_cycle_mask: the clock that is earliest next is the zero of the others.
LEMMA TypeClock ==
  ASSUME MemConfigAssumption, TypeInv, Clock
  PROVE  TypeInv'
<1>0. /\ CorePeriod \in Nat \ {0} /\ DramPeriod \in Nat \ {0} /\ IcntPeriod \in Nat \ {0}
      /\ coreTime \in 0..CorePeriod /\ dramTime \in 0..DramPeriod /\ icntTime \in 0..IcntPeriod
      /\ 0 \in {coreTime, dramTime, icntTime}
  BY DEF MemConfigAssumption, TypeInv, TypeOK
<1>a. coreTime \in Int /\ dramTime \in Int /\ icntTime \in Int
  BY <1>0
<1>b. /\ Least({coreTime, dramTime, icntTime}) \in {coreTime, dramTime, icntTime}
      /\ Least({coreTime, dramTime, icntTime}) <= coreTime
      /\ Least({coreTime, dramTime, icntTime}) <= dramTime
      /\ Least({coreTime, dramTime, icntTime}) <= icntTime
  BY <1>a, LeastOfThree, Zenon
<1>1. PICK e : e = Least({coreTime, dramTime, icntTime})
  OBVIOUS
<1>2. e = 0
  <2>1. e \in {coreTime, dramTime, icntTime} /\ e <= coreTime /\ e <= dramTime /\ e <= icntTime
    BY <1>b, <1>1, Zenon
  <2>2. QED
    BY <1>0, <2>1
<1>3. PICK a \in Nat, b \in Nat, c \in Nat :
        /\ a = IF coreTime = e THEN coreTime + CorePeriod ELSE coreTime
        /\ b = IF dramTime = e THEN dramTime + DramPeriod ELSE dramTime
        /\ c = IF icntTime = e THEN icntTime + IcntPeriod ELSE icntTime
  BY <1>0, <1>2
<1>4. a \in 0..CorePeriod /\ b \in 0..DramPeriod /\ c \in 0..IcntPeriod
  BY <1>0, <1>2, <1>3
<1>5. PICK n : n = Least({a, b, c})
  OBVIOUS
<1>6. n \in {a, b, c} /\ n <= a /\ n <= b /\ n <= c
  <2>1. a \in Int /\ b \in Int /\ c \in Int
    OBVIOUS
  <2>2. QED
    BY <1>5, <2>1, LeastOfThree, Zenon
<1>7. coreTime' = a - n /\ dramTime' = b - n /\ icntTime' = c - n
  BY <1>1, <1>3, <1>5 DEF Clock
<1>8. /\ coreTime' \in 0..CorePeriod /\ dramTime' \in 0..DramPeriod /\ icntTime' \in 0..IcntPeriod
      /\ 0 \in {coreTime', dramTime', icntTime'}
  BY <1>0, <1>4, <1>6, <1>7
<1>9. step' = "core" /\ mask' \subseteq {"core", "dram", "icnt"}
      /\ UNCHANGED <<made, outbox, inBuf, rrNext, outBuf, dram, credit, toXbar, replied, fromXbar, toMem, received, young>>
  BY DEF Clock, sendVars, icntVars, dramVars, cacheVars
<1>10. QED
  BY <1>8, <1>9 DEF TypeInv, TypeOK

\* A clock whose turn it is not.
LEMMA TypeSkip ==
  ASSUME TypeInv, Skip
  PROVE  TypeInv'
<1>1. step' \in {"clock", "core", "dram", "icnt", "tick"}
  BY DEF Skip
<1>2. UNCHANGED <<mask, coreTime, dramTime, icntTime, made, outbox, inBuf, rrNext, outBuf, dram, credit, toXbar, replied,
                  fromXbar, toMem, received, young>>
  BY DEF Skip, clockVars, sendVars, icntVars, dramVars, cacheVars
<1>3. QED
  BY <1>1, <1>2 DEF TypeInv, TypeOK

\* A core makes no more requests than its plan has.
LEMMA TypeCoreCycle ==
  ASSUME MemConfigAssumption, MemRequestAssumption, TypeInv, CoreCycle
  PROVE  TypeInv'
<1>0. Ports \in Nat \ {0} /\ TypeOK /\ \A c \in Core : made[c] \in Nat
  BY DEF MemConfigAssumption, TypeInv, TypeOK
<1>1. PICK n \in [Core -> 0..Ports] :
        /\ \A c \in Core : made[c] + n[c] <= Len(Plan[c])
        /\ made' = [c \in Core |-> made[c] + n[c]]
        /\ outbox' = [c \in Core |-> outbox[c] \o SubSeq(Plan[c], made[c] + 1, made[c] + n[c])]
  BY DEF CoreCycle
<1>2. \A c \in Core : /\ n[c] \in Nat /\ made[c] + n[c] \in Nat
                      /\ outbox[c] \o SubSeq(Plan[c], made[c] + 1, made[c] + n[c]) \in Seq(Req)
  <2> TAKE c \in Core
  <2>1. n[c] \in Nat /\ made[c] + n[c] \in Nat /\ made[c] + n[c] <= Len(Plan[c])
    BY <1>0, <1>1
  <2>2. SubSeq(Plan[c], made[c] + 1, made[c] + n[c]) \in Seq(Req)
    BY <1>0, <2>1, MadeNext
  <2>3. outbox[c] \in Seq(Req)
    BY <1>0, QueueTypes
  <2>4. QED
    BY <2>1, <2>2, <2>3, ConcatProperties
<1>3. made' \in [Core -> Nat] /\ outbox' \in [Core -> Seq(Req)] /\ \A c \in Core : made'[c] <= Len(Plan[c])
  BY <1>1, <1>2
<1>4. fromXbar' \in [Channel -> Seq(Req)] /\ toMem' \in [Channel -> Seq(Req)]
  <2>1. \A m \in Channel : fromXbar[m] \in Seq(Req) /\ toMem[m] \in Seq(Req)
    BY <1>0, QueueTypes
  <2>2. \A m \in Channel : fromXbar[m] # <<>> =>
          Append(toMem[m], Head(fromXbar[m])) \in Seq(Req) /\ Tail(fromXbar[m]) \in Seq(Req)
    BY <2>1, HeadTailProperties, AppendProperties
  <2>3. <<>> \in Seq(Req)
    OBVIOUS
  <2>4. QED
    BY <2>1, <2>2, <2>3 DEF CoreCycle
<1>5. /\ step' = "dram" /\ young' = {}
      /\ UNCHANGED <<mask, coreTime, dramTime, icntTime, inBuf, rrNext, outBuf, dram, credit, toXbar, replied, received>>
  BY DEF CoreCycle, clockVars, icntVars, dramVars
<1>6. QED
  BY <1>3, <1>4, <1>5 DEF TypeInv, TypeOK

\* Credits stay natural numbers: what is taken has been there.
LEMMA TypeDramCycle ==
  ASSUME MemConfigAssumption, MemRequestAssumption, TypeInv, DramCycle
  PROVE  TypeInv'
<1>0. /\ TypeOK /\ ReqSize \in Nat \ {0} /\ CycleBytes \in Nat
      /\ \A m \in Channel : credit[m] \in Nat /\ toMem[m] \in Seq(Req) /\ toXbar[m] \in Seq(Req)
  BY QueueTypes DEF MemConfigAssumption, TypeInv, TypeOK
<1>1. Enough \in Nat
  <2>1. Cardinality(Req) \in Nat
    BY FS_CardinalityType DEF MemRequestAssumption
  <2>2. QED
    BY <1>0, <2>1 DEF Enough
<1>2. \A m \in Channel : Refilled(m) \in Nat
  BY <1>0, <1>1 DEF Refilled
<1>3. credit' \in [Channel -> Nat]
  <2>1. \A m \in Channel : CycleBytes > 0 /\ Admit(m) => Refilled(m) - ReqSize \in Nat
    BY <1>0, <1>2 DEF Admit
  <2>2. QED
    BY <1>2, <2>1 DEF DramCycle
<1>4. toMem' \in [Channel -> Seq(Req)]
  <2>1. \A m \in Channel : Admit(m) => Tail(toMem[m]) \in Seq(Req)
    BY <1>0, HeadTailProperties DEF Admit
  <2>2. QED
    BY <1>0, <2>1 DEF DramCycle
<1>5. dram' \in [Channel -> Seq([req : Req, left : Nat])]
  <2>1. \A m \in Channel : Leaving(m) \in Seq(Cell)
    BY <1>0, DramTypes
  <2>2. QED
    BY <2>1 DEF DramCycle, Cell
<1>6. toXbar' \in [Channel -> Seq(Req)] /\ replied' \subseteq Req
  <2>1. \A m \in Channel : Arrived(m) => Head(Inside(m)).req \in Req
    BY <1>0, DramTypes
  <2>2. \A m \in Channel : Arrived(m) => Append(toXbar[m], Head(Inside(m)).req) \in Seq(Req)
    BY <1>0, <2>1, AppendProperties
  <2>3. replied \subseteq Req
    BY <1>0 DEF TypeOK
  <2>4. QED
    BY <1>0, <2>1, <2>2, <2>3 DEF DramCycle
<1>7. /\ step' = "icnt"
      /\ UNCHANGED <<mask, coreTime, dramTime, icntTime, made, outbox, inBuf, rrNext, outBuf, fromXbar, received, young>>
  BY DEF DramCycle, clockVars, sendVars, icntVars
<1>8. QED
  BY <1>3, <1>4, <1>5, <1>6, <1>7 DEF TypeInv, TypeOK

\* ToSet and Elems are the same for a queue.
LEMMA ToSetIsElems == ASSUME NEW S, NEW q \in Seq(S) PROVE ToSet(q) = Elems(q)
<1>1. DOMAIN q = 1..Len(q)
  BY LenProperties
<1>2. QED
  BY <1>1 DEF ToSet, Elems

\* SimpleInterconnect::push of a request
LEMMA PushedFacts ==
  ASSUME MemConfigAssumption, NEW q \in Seq(Message), NEW r \in Req
  PROVE  PushTo(q, r) \in Seq(Message) /\ Reqs(PushTo(q, r)) = Append(Reqs(q), r)
<1>1. PICK t : t = IF q = <<>> THEN IcntLatency ELSE Last(q).left + 1
  OBVIOUS
<1>2. t \in Int
  <2>1. CASE q = <<>>
    BY <1>1, <2>1 DEF MemConfigAssumption
  <2>2. CASE q # <<>>
    <3>1. Len(q) \in 1..Len(q)
      BY <2>2, EmptySeq, LenProperties
    <3>2. Last(q) \in Message
      BY <3>1, ElementOfSeq DEF Last
    <3>3. QED
      BY <1>1, <2>2, <3>2 DEF Message
  <2>3. QED
    BY <2>1, <2>2
<1>3. PICK e : e = [req |-> r, left |-> t]
  OBVIOUS
<1>4. e \in Message /\ e.req = r
  BY <1>2, <1>3 DEF Message
<1>5. PushTo(q, r) = Append(q, e)
  BY <1>1, <1>3 DEF PushTo
<1>6. QED
  BY <1>4, <1>5, ReqsMoves, AppendProperties

\* One cycle of waiting in the interconnect
Waited(q) == [n \in 1..Len(q) |-> [q[n] EXCEPT !.left = @ - 1]]
\* Waiting changes no request.
LEMMA WaitedFacts ==
  ASSUME NEW q \in Seq(Message)
  PROVE  Waited(q) \in Seq(Message) /\ Reqs(Waited(q)) = Reqs(q)
<1>1. Len(q) \in Nat /\ \A n \in 1..Len(q) : q[n] \in Message
  BY ElementOfSeq, LenProperties
<1>2. \A n \in 1..Len(q) : /\ [q[n] EXCEPT !.left = @ - 1] \in Message
                           /\ [q[n] EXCEPT !.left = @ - 1].req = q[n].req
  BY <1>1 DEF Message
<1>3. Waited(q) \in [1..Len(q) -> Message] /\ \A n \in 1..Len(q) : Waited(q)[n].req = q[n].req
  BY <1>2 DEF Waited
<1>4. Waited(q) \in Seq(Message) /\ Len(Waited(q)) = Len(q)
  BY <1>1, <1>3, SeqDef, LenProperties
<1>5. QED
  BY <1>3, <1>4, ReqsKept

\* The links after a cycle of the interconnect
LinkAfter(s, d) == IF s \in Chosen(d) THEN Tail(inBuf[s][d]) ELSE inBuf[s][d]
\* A message that is taken is the first of its queue.
LEMMA LinkFacts ==
  ASSUME TypeOK, NEW s \in Node, NEW d \in Node
  PROVE  /\ LinkAfter(s, d) \in Seq(Message)
         /\ s \in Chosen(d) => /\ inBuf[s][d] # <<>> /\ Head(inBuf[s][d]).req \in Req
                               /\ Reqs(inBuf[s][d]) # <<>>
                               /\ Head(inBuf[s][d]).req = Reqs(inBuf[s][d])[1]
                               /\ Reqs(Waited(LinkAfter(s, d))) = Tail(Reqs(inBuf[s][d]))
         /\ s \notin Chosen(d) => Reqs(Waited(LinkAfter(s, d))) = Reqs(inBuf[s][d])
<1>1. PICK q \in Seq(Message) : q = inBuf[s][d]
  BY QueueTypes
<1>2. s \in Chosen(d) => q # <<>>
  BY <1>1 DEF Chosen, Due
<1>3. q # <<>> => Tail(q) \in Seq(Message)
  BY HeadTailProperties
<1>4. LinkAfter(s, d) \in Seq(Message)
  BY <1>1, <1>2, <1>3 DEF LinkAfter
<1>5. Reqs(Waited(LinkAfter(s, d))) = Reqs(LinkAfter(s, d))
  BY <1>4, WaitedFacts
<1>6. q # <<>> => Reqs(Tail(q)) = Tail(Reqs(q)) /\ Reqs(q)[1] = Head(q).req /\ Head(q).req \in Req /\ Reqs(q) # <<>>
  BY ReqsMoves, ReqsType
<1>7. QED
  BY <1>1, <1>2, <1>4, <1>5, <1>6 DEF LinkAfter

\* What the interconnect takes and hands over are requests.
LEMMA TypeExchange ==
  ASSUME MemConfigAssumption, MemRequestAssumption, TypeInv, Exchange
  PROVE  TypeInv'
<1>0. TypeOK /\ Ports \in Nat \ {0}
  BY DEF TypeInv, MemConfigAssumption
<1>1. inBuf' \in [Node -> [Node -> Seq(Message)]]
  <2>1. ASSUME NEW s \in Node, NEW d \in Node
        PROVE  (IF Entering(s) # <<>> /\ Dest(Head(Entering(s))) = d
                THEN PushTo(inBuf[s][d], Head(Entering(s))) ELSE inBuf[s][d]) \in Seq(Message)
    <3>1. inBuf[s][d] \in Seq(Message)
      BY <1>0, QueueTypes
    <3>2. Entering(s) # <<>> => Head(Entering(s)) \in Req
      BY <1>0, EnteringFacts
    <3>3. QED
      BY <3>1, <3>2, PushedFacts
  <2>2. inBuf' = [s \in Node |-> [d \in Node |->
          IF Entering(s) # <<>> /\ Dest(Head(Entering(s))) = d
          THEN PushTo(inBuf[s][d], Head(Entering(s))) ELSE inBuf[s][d]]]
    BY DEF Exchange
  <2>3. QED
    BY <2>1, <2>2
<1>2. outbox' \in [Core -> Seq(Req)]
  <2>1. \A c \in Core : SubSeq(outbox[c], Ports + 1, Len(outbox[c])) \in Seq(Req)
    <3> TAKE c \in Core
    <3>1. outbox[c] \in Seq(Req) /\ Len(outbox[c]) \in Nat
      BY <1>0, QueueTypes, LenProperties
    <3>2. \A i \in Ports + 1..Len(outbox[c]) : outbox[c][i] \in Req
      BY <1>0, <3>1, ElementOfSeq
    <3>3. QED
      BY <1>0, <3>1, <3>2, SubSeqProperties
  <2>2. QED
    BY <2>1 DEF Exchange
<1>3. received' \in [Core -> Seq(Req)]
  <2>1. \A c \in Core : received[c] \o Delivered(c) \in Seq(Req)
    <3> TAKE c \in Core
    <3>1. received[c] \in Seq(Req) /\ Delivered(c) \in Seq(Req)
      BY <1>0, QueueTypes, DeliveredFacts
    <3>2. QED
      BY <3>1, ConcatProperties
  <2>2. QED
    BY <2>1 DEF Exchange
<1>4. fromXbar' \in [Channel -> Seq(Req)]
  <2>1. \A m \in Channel : fromXbar[m] \o FirstOf(outBuf[Offset + m]) \in Seq(Req)
    <3> TAKE m \in Channel
    <3>1. Offset + m \in Node
      BY PortFacts
    <3>2. fromXbar[m] \in Seq(Req) /\ outBuf[Offset + m] \in Seq(Req)
      BY <1>0, <3>1, QueueTypes
    <3>3. FirstOf(outBuf[Offset + m]) \in Seq(Req)
      BY <3>2, FirstFacts
    <3>4. QED
      BY <3>2, <3>3, ConcatProperties
  <2>2. QED
    BY <2>1 DEF Exchange
<1>5. toXbar' \in [Channel -> Seq(Req)] /\ outBuf' \in [Node -> Seq(Req)]
  <2>1. /\ \A m \in Channel : Popped(toXbar[m]) \in Seq(Req)
        /\ \A d \in Node : Popped(outBuf[d]) \in Seq(Req)
    BY <1>0, QueueTypes, FirstFacts
  <2>2. QED
    BY <2>1 DEF Exchange
<1>6. young' \subseteq Req
  <2>1. ASSUME NEW p \in 0..(Offset - 1) PROVE ToSet(Entering(p)) \subseteq Req
    <3>1. p \in Node
      BY PortFacts
    <3>2. CASE Entering(p) = <<>>
      BY <3>2 DEF ToSet
    <3>3. CASE Entering(p) # <<>>
      <4>1. Entering(p) = <<Head(Entering(p))>> /\ Head(Entering(p)) \in Req
        BY <1>0, <3>1, <3>3, EnteringFacts
      <4>2. PICK r \in Req : r = Head(Entering(p))
        BY <4>1
      <4>3. Entering(p) = <<r>>
        BY <4>1, <4>2, Zenon
      <4>4. Entering(p) \in Seq(Req)
        BY <4>3
      <4>5. QED
        BY <4>4, ToSetIsElems, ElemsType
    <3>4. QED
      BY <3>2, <3>3
  <2>2. young \subseteq Req
    BY <1>0 DEF TypeOK
  <2>3. young' = young \cup UNION {ToSet(Entering(p)) : p \in 0..(Offset - 1)}
    BY DEF Exchange
  <2>4. QED
    BY <2>1, <2>2, <2>3
<1>7. /\ step' = "tick"
      /\ UNCHANGED <<mask, coreTime, dramTime, icntTime, made, rrNext, toMem, dram, credit, replied>>
  BY DEF Exchange, clockVars
<1>8. TypeOK'
  BY <1>0, <1>1, <1>2, <1>3, <1>4, <1>5, <1>6, <1>7 DEF TypeOK, Message
<1>9. QED
  BY <1>7, <1>8 DEF TypeInv

\* What a node takes from a source is a request, and the next source is a node.
LEMMA TypeTick ==
  ASSUME MemConfigAssumption, TypeInv, Tick
  PROVE  TypeInv'
<1>0. TypeOK
  BY DEF TypeInv
<1>1. inBuf' \in [Node -> [Node -> Seq(Message)]]
  <2>1. inBuf' = [s \in Node |-> [d \in Node |-> Waited(LinkAfter(s, d))]]
    BY DEF Tick, Waited, LinkAfter
  <2>2. \A s, d \in Node : Waited(LinkAfter(s, d)) \in Seq(Message)
    BY <1>0, LinkFacts, WaitedFacts
  <2>3. QED
    BY <2>1, <2>2
<1>2. \A d \in Node : Chosen(d) # {} =>
        Least(Chosen(d)) \in Chosen(d) /\ Least(Chosen(d)) \in Node
  <2> TAKE d \in Node
  <2>1. \A s \in Chosen(d) : Least(Chosen(d)) = s /\ s \in Node
    BY <1>0, ChosenOnce DEF Chosen
  <2>2. QED
    BY <2>1
<1>3. outBuf' \in [Node -> Seq(Req)]
  <2>1. \A d \in Node : Chosen(d) # {} =>
          Append(outBuf[d], Head(inBuf[Least(Chosen(d))][d]).req) \in Seq(Req)
    <3> SUFFICES ASSUME NEW d \in Node, Chosen(d) # {}
                 PROVE  Append(outBuf[d], Head(inBuf[Least(Chosen(d))][d]).req) \in Seq(Req)
      OBVIOUS
    <3>1. PICK s \in Node : s = Least(Chosen(d)) /\ s \in Chosen(d)
      BY <1>2
    <3>2. Head(inBuf[s][d]).req \in Req /\ outBuf[d] \in Seq(Req)
      BY <1>0, <3>1, LinkFacts, QueueTypes
    <3>3. QED
      BY <3>1, <3>2, AppendProperties
  <2>2. \A d \in Node : outBuf[d] \in Seq(Req)
    BY <1>0, QueueTypes
  <2>3. QED
    BY <2>1, <2>2 DEF Tick
<1>4. rrNext' \in [Node -> Node]
  <2>1. \A s \in Node : NextSource(s) \in Node
    <3>1. Offset \in Nat \ {0} /\ NumChannels \in Nat \ {0}
      BY PortFacts DEF MemConfigAssumption
    <3>2. PICK N \in Nat \ {0} : N = Offset + NumChannels
      BY <3>1
    <3>3. \A s \in 0..(N - 1) : (s + 1) % N \in 0..(N - 1)
      OBVIOUS
    <3>4. QED
      BY <3>1, <3>2, <3>3 DEF NextSource, Node
  <2>2. \A d \in Node : rrNext[d] \in Node
    BY <1>0 DEF TypeOK
  <2>3. QED
    BY <1>2, <2>1, <2>2 DEF Tick
<1>5. /\ step' = "clock"
      /\ UNCHANGED <<mask, coreTime, dramTime, icntTime, made, outbox, dram, credit, toXbar, replied, fromXbar, toMem,
                     received, young>>
  BY DEF Tick, clockVars, sendVars, dramVars, cacheVars
<1>6. TypeOK'
  BY <1>0, <1>1, <1>3, <1>4, <1>5 DEF TypeOK, Message
<1>7. QED
  BY <1>5, <1>6 DEF TypeInv

\* Every step keeps the types.
LEMMA TypeStep ==
  ASSUME MemConfigAssumption, MemRequestAssumption, TypeInv, [Next]_vars
  PROVE  TypeInv'
<1>1. CASE UNCHANGED vars
  <2>1. UNCHANGED <<step, mask, coreTime, dramTime, icntTime, made, outbox, inBuf, rrNext, outBuf, dram, credit, toXbar, replied,
                    fromXbar, toMem, received, young>>
    BY <1>1 DEF vars, clockVars, sendVars, icntVars, dramVars, cacheVars
  <2>2. QED
    BY <2>1 DEF TypeInv, TypeOK
<1>2. QED
  BY <1>1, TypeClock, TypeSkip, TypeCoreCycle, TypeDramCycle, TypeExchange, TypeTick DEF Next

-------------------------------------------------------------------------------
(* The invariant *)

\* All the queues, as one function
Queues == [w \in Stores |-> Content(w)]

\* A request that has been made is in one queue, once, and no other request is in any.
Kept ==
  /\ Apart(Stores, Queues)
  /\ \A r \in Req : Made(r) <=> \E w \in Stores : r \in Elems(Queues[w])

\* A message goes where it has to: a request to a channel, a response to the core that made the
\* request; only a channel turns the one into the other.
Routed ==
  /\ \A c \in Core : \A r \in Elems(outbox[c]) : CoreOf[r] = c /\ r \notin replied
  /\ \A c \in Core : \A r \in Elems(received[c]) : CoreOf[r] = c /\ r \in replied
  /\ \A s, d \in Node : \A r \in Elems(Reqs(inBuf[s][d])) : Dest(r) = d
  /\ \A d \in Node : \A r \in Elems(outBuf[d]) : Dest(r) = d
  /\ \A m \in Channel : \A r \in Elems(fromXbar[m]) : r \notin replied
  /\ \A m \in Channel : \A r \in Elems(toMem[m]) : r \notin replied
  /\ \A m \in Channel : \A r \in Elems(Reqs(dram[m])) : r \notin replied
  /\ \A m \in Channel : \A r \in Elems(toXbar[m]) : r \in replied
  /\ \A r \in replied : Made(r)

\* A request taken since the last cycle of the caches has left its core and not reached the DRAM.
Fresh ==
  \A r \in young :
    /\ Made(r) /\ r \notin replied
    /\ \A c \in Core : r \notin Elems(outbox[c])
    /\ \A m \in Channel : r \notin Elems(toMem[m]) /\ r \notin Elems(Reqs(dram[m]))

\* A function that holds the queues has them under their names.
View(Q) ==
  /\ \A c \in Core : Q[OutboxOf(c)] = outbox[c] /\ Q[ReceivedOf(c)] = received[c]
  /\ \A s, d \in Node : Q[Link(s, d)] = Reqs(inBuf[s][d])
  /\ \A d \in Node : Q[OutBufOf(d)] = outBuf[d]
  /\ \A m \in Channel : Q[FromXbarOf(m)] = fromXbar[m] /\ Q[ToMemOf(m)] = toMem[m]
                        /\ Q[DramOf(m)] = Reqs(dram[m]) /\ Q[ToXbarOf(m)] = toXbar[m]
\* The names of all queues
LEMMA AreStores ==
  /\ \A c \in Core : OutboxOf(c) \in Stores /\ ReceivedOf(c) \in Stores
  /\ \A s, d \in Node : Link(s, d) \in Stores
  /\ \A d \in Node : OutBufOf(d) \in Stores
  /\ \A m \in Channel : FromXbarOf(m) \in Stores /\ ToMemOf(m) \in Stores /\ DramOf(m) \in Stores /\ ToXbarOf(m) \in Stores
BY StoreNames DEF KindOf
\* The functions of all queues before and after a step are such functions.
LEMMA Views ==
  ASSUME NEW Q, NEW R
  PROVE  (Q = Queues => View(Q)) /\ (R = Queues' => View(R)')
<1>1. ASSUME Q = Queues PROVE View(Q)
  <2>1. \A w \in Stores : Q[w] = Content(w)
    BY <1>1 DEF Queues
  <2>2. ContentIs
    BY Contents
  <2>3. QED
    BY <2>1, <2>2, AreStores DEF View, ContentIs
<1>2. ASSUME R = Queues' PROVE View(R)'
  <2>1. \A w \in Stores : R[w] = Content(w)'
    BY <1>2 DEF Queues
  <2>2. ContentIs'
    BY Contents
  <2>3. QED
    BY <2>1, <2>2, AreStores DEF View, ContentIs
<1>3. QED
  BY <1>1, <1>2

\* Queues of different kinds have different names.
LEMMA OtherKinds ==
  \A a, b, c, d :
    /\ OutboxOf(a) # ReceivedOf(b) /\ OutboxOf(a) # Link(b, c) /\ OutboxOf(a) # OutBufOf(b) /\ OutboxOf(a) # FromXbarOf(b)
    /\ OutboxOf(a) # ToMemOf(b) /\ OutboxOf(a) # DramOf(b) /\ OutboxOf(a) # ToXbarOf(b)
    /\ ReceivedOf(a) # Link(b, c) /\ ReceivedOf(a) # OutBufOf(b) /\ ReceivedOf(a) # FromXbarOf(b)
    /\ ReceivedOf(a) # ToMemOf(b) /\ ReceivedOf(a) # DramOf(b) /\ ReceivedOf(a) # ToXbarOf(b)
    /\ Link(a, b) # OutBufOf(c) /\ Link(a, b) # FromXbarOf(c)
    /\ Link(a, b) # ToMemOf(c) /\ Link(a, b) # DramOf(c) /\ Link(a, b) # ToXbarOf(c)
    /\ OutBufOf(a) # FromXbarOf(b) /\ OutBufOf(a) # ToMemOf(b) /\ OutBufOf(a) # DramOf(b) /\ OutBufOf(a) # ToXbarOf(b)
    /\ FromXbarOf(a) # ToMemOf(b) /\ FromXbarOf(a) # DramOf(b) /\ FromXbarOf(a) # ToXbarOf(b)
    /\ ToMemOf(a) # DramOf(b) /\ ToMemOf(a) # ToXbarOf(b) /\ DramOf(a) # ToXbarOf(b)
BY KindNames

\* Requests that have been made are the first of the plan.
LEMMA MadeFacts ==
  ASSUME MemRequestAssumption, NEW c \in Core, NEW n \in 1..Len(Plan[c]), made[c] \in Nat, made[c] <= Len(Plan[c])
  PROVE  Made(Plan[c][n]) <=> n <= made[c]
<1>1. CoreOf[Plan[c][n]] = c /\ Len(Plan[c]) \in Nat
  BY PlanFacts
<1>2. Made(Plan[c][n]) <=> \E i \in 1..made[c] : Plan[c][i] = Plan[c][n]
  BY <1>1 DEF Made
<1>3. ASSUME n <= made[c] PROVE Made(Plan[c][n])
  <2>1. n \in 1..made[c]
    BY <1>1, <1>3
  <2>2. QED
    BY <1>2, <2>1
<1>4. ASSUME NEW i \in 1..made[c], Plan[c][i] = Plan[c][n] PROVE n <= made[c]
  <2>1. i \in 1..Len(Plan[c])
    BY <1>1
  <2>2. i = n
    BY <1>4, <2>1 DEF MemRequestAssumption
  <2>3. QED
    BY <2>2
<1>5. QED
  BY <1>2, <1>3, <1>4

\* A queue that is left alone
Rests(Q, R, Gone, Come, w) == R[w] = Q[w] /\ Gone[w] = {} /\ Come[w] = {}
\* It makes the empty hop.
LEMMA Resting ==
  ASSUME NEW Q, NEW R, NEW Gone, NEW Come, NEW w, Rests(Q, R, Gone, Come, w)
  PROVE  Hop(Q[w], R[w], Gone[w], Come[w])
BY HopStay DEF Rests

\* The cores make requests, and each cache passes one on.
LEMMA KeptCoreCycle ==
  ASSUME MemConfigAssumption, MemRequestAssumption, TypeInv, Kept, CoreCycle
  PROVE  Kept'
<1>0. /\ TypeOK /\ Ports \in Nat \ {0}
      /\ \A c \in Core : made[c] \in Nat /\ made[c] <= Len(Plan[c])
  BY DEF MemConfigAssumption, TypeInv, TypeOK
<1>1. PICK n \in [Core -> 0..Ports] :
        /\ \A c \in Core : made[c] + n[c] <= Len(Plan[c])
        /\ made' = [c \in Core |-> made[c] + n[c]]
        /\ outbox' = [c \in Core |-> outbox[c] \o SubSeq(Plan[c], made[c] + 1, made[c] + n[c])]
  BY DEF CoreCycle
<1>2. PICK new : new = [c \in Core |-> SubSeq(Plan[c], made[c] + 1, made[c] + n[c])]
  OBVIOUS
<1>3. \A c \in Core : /\ n[c] \in Nat /\ new[c] \in Seq(Req) /\ Distinct(new[c])
                      /\ \A x : x \in Elems(new[c]) <=> \E i \in made[c] + 1..made[c] + n[c] : Plan[c][i] = x
  <2> TAKE c \in Core
  <2>1. n[c] \in Nat /\ made[c] \in Nat /\ made[c] + n[c] <= Len(Plan[c])
    BY <1>0, <1>1
  <2>2. /\ SubSeq(Plan[c], made[c] + 1, made[c] + n[c]) \in Seq(Req)
        /\ Distinct(SubSeq(Plan[c], made[c] + 1, made[c] + n[c]))
        /\ \A x : x \in Elems(SubSeq(Plan[c], made[c] + 1, made[c] + n[c])) <=>
                    \E i \in made[c] + 1..made[c] + n[c] : Plan[c][i] = x
    BY <2>1, MadeNext
  <2>3. new[c] = SubSeq(Plan[c], made[c] + 1, made[c] + n[c])
    BY <1>2, Zenon
  <2>4. QED
    BY <2>1, <2>2, <2>3, Zenon
<1>4. PICK N : N = {x \in Req : \E c \in Core : x \in Elems(new[c])}
  OBVIOUS
<1>a. \A c \in Core : \A x : x \in Elems(new[c]) => x \in Req /\ CoreOf[x] = c /\ ~Made(x) /\ Made(x)'
  <2> SUFFICES ASSUME NEW c \in Core, NEW x, x \in Elems(new[c])
               PROVE  x \in Req /\ CoreOf[x] = c /\ ~Made(x) /\ Made(x)'
    OBVIOUS
  <2>1. PICK i \in made[c] + 1..made[c] + n[c] : Plan[c][i] = x
    BY <1>3
  <2>2. i \in 1..Len(Plan[c]) /\ ~(i <= made[c]) /\ i \in 1..(made[c] + n[c])
    BY <1>0, <1>1, <1>3, <2>1, PlanFacts
  <2>3. x \in Req /\ CoreOf[x] = c
    BY <2>1, <2>2, PlanFacts
  <2>4. ~Made(x)
    BY <1>0, <2>1, <2>2, MadeFacts
  <2>5. Made(x)'
    <3>1. made'[c] = made[c] + n[c]
      BY <1>1
    <3>2. QED
      BY <2>1, <2>2, <2>3, <3>1 DEF Made
  <2>6. QED
    BY <2>3, <2>4, <2>5
<1>b. \A r \in Req : Made(r)' <=> Made(r) \/ r \in N
  <2> TAKE r \in Req
  <2>1. PICK c \in Core : c = CoreOf[r] /\ \E i \in 1..Len(Plan[c]) : Plan[c][i] = r
    BY PlanFacts
  <2>2. Made(r) <=> \E j \in 1..made[c] : Plan[c][j] = r
    BY <2>1 DEF Made
  <2>3. Made(r)' <=> \E j \in 1..(made[c] + n[c]) : Plan[c][j] = r
    <3>1. made'[c] = made[c] + n[c]
      BY <1>1
    <3>2. QED
      BY <2>1, <3>1 DEF Made
  <2>4. r \in N <=> \E j \in made[c] + 1..made[c] + n[c] : Plan[c][j] = r
    <3>1. r \in N <=> r \in Elems(new[c])
      BY <1>4, <1>a, <2>1
    <3>2. QED
      BY <1>3, <3>1
  <2>5. \A j : j \in 1..(made[c] + n[c]) <=> j \in 1..made[c] \/ j \in made[c] + 1..made[c] + n[c]
    BY <1>0, <1>3
  <2>6. QED
    BY <2>2, <2>3, <2>4, <2>5
<1>5. PICK Q, R : Q = Queues /\ R = Queues'
  OBVIOUS
<1>6. View(Q) /\ View(R)'
  BY <1>5, Views
<1>7. PICK first : first = [m \in Channel |-> {x \in Req : fromXbar[m] # <<>> /\ x = fromXbar[m][1]}]
  OBVIOUS
<1>8. PICK Gone, Come :
        /\ Gone = [w \in Stores |-> {x \in Req : \E m \in Channel : w = FromXbarOf(m) /\ x \in first[m]}]
        /\ Come = [w \in Stores |-> {x \in Req : \/ \E c \in Core : w = OutboxOf(c) /\ x \in Elems(new[c])
                                                 \/ \E m \in Channel : w = ToMemOf(m) /\ x \in first[m]}]
  OBVIOUS
<1>9. /\ \A c \in Core : outbox'[c] = outbox[c] \o new[c] /\ received'[c] = received[c]
      /\ \A s, d \in Node : inBuf'[s][d] = inBuf[s][d]
      /\ \A d \in Node : outBuf'[d] = outBuf[d]
      /\ \A m \in Channel : /\ fromXbar[m] # <<>> => /\ toMem'[m] = Append(toMem[m], fromXbar[m][1])
                                                     /\ fromXbar'[m] = Tail(fromXbar[m])
                            /\ fromXbar[m] = <<>> => toMem'[m] = toMem[m] /\ fromXbar'[m] = fromXbar[m]
                            /\ dram'[m] = dram[m] /\ toXbar'[m] = toXbar[m]
  <2>1. \A m \in Channel : fromXbar[m] # <<>> => Head(fromXbar[m]) = fromXbar[m][1]
    BY <1>0, QueueTypes, HeadTailProperties
  <2>2. \A c \in Core : outbox'[c] = outbox[c] \o new[c]
    BY <1>1, <1>2
  <2>3. QED
    BY <2>1, <2>2 DEF CoreCycle, clockVars, icntVars, dramVars
<1>10. \A w \in Stores : Hop(Q[w], R[w], Gone[w], Come[w])
  <2>1. ASSUME NEW c \in Core PROVE Hop(Q[OutboxOf(c)], R[OutboxOf(c)], Gone[OutboxOf(c)], Come[OutboxOf(c)])
    <3>1. Gone[OutboxOf(c)] = {} /\ Come[OutboxOf(c)] = Elems(new[c])
      <4>1. \A x : x \in Come[OutboxOf(c)] <=> x \in Elems(new[c])
        BY <1>8, <1>a, AreStores, OtherNames, OtherKinds
      <4>2. \A x : x \notin Gone[OutboxOf(c)]
        BY <1>8, AreStores, OtherKinds
      <4>3. QED
        BY <4>1, <4>2
    <3>2. Hop(outbox[c], outbox[c] \o new[c], {}, Elems(new[c]))
      BY <1>0, <1>3, QueueTypes, HopConcat
    <3>3. Q[OutboxOf(c)] = outbox[c] /\ R[OutboxOf(c)] = outbox[c] \o new[c]
      BY <1>6, <1>9 DEF View
    <3>4. QED
      BY <3>1, <3>2, <3>3, Zenon
  <2>2. ASSUME NEW m \in Channel PROVE Hop(Q[FromXbarOf(m)], R[FromXbarOf(m)], Gone[FromXbarOf(m)], Come[FromXbarOf(m)])
    <3>1. Come[FromXbarOf(m)] = {} /\ Gone[FromXbarOf(m)] = first[m]
      <4>1. \A x : x \in Gone[FromXbarOf(m)] <=> x \in first[m]
        BY <1>7, <1>8, AreStores, OtherNames
      <4>2. \A x : x \notin Come[FromXbarOf(m)]
        BY <1>8, AreStores, OtherKinds
      <4>3. QED
        BY <4>1, <4>2
    <3>2. Q[FromXbarOf(m)] = fromXbar[m] /\ R[FromXbarOf(m)] = fromXbar'[m]
      BY <1>6 DEF View
    <3>a. PICK q \in Seq(Req) : q = fromXbar[m]
      BY <1>0, QueueTypes
    <3>b. Distinct(q)
      BY <1>5, <3>2, <3>a, AreStores DEF Kept, Apart
    <3>3. CASE q = <<>>
      <4>1. first[m] = {} /\ fromXbar'[m] = q
        BY <1>7, <1>9, <3>3, <3>a
      <4>2. QED
        BY <3>1, <3>2, <3>a, <4>1, HopStay
    <3>4. CASE q # <<>>
      <4>1. Hop(q, Tail(q), {q[1]}, {})
        BY <3>4, <3>b, HopPop
      <4>2. q[1] \in Req
        BY <3>4, HeadTailProperties
      <4>3. first[m] = {q[1]} /\ fromXbar'[m] = Tail(q)
        BY <1>7, <1>9, <3>4, <3>a, <4>2
      <4>4. QED
        BY <3>1, <3>2, <3>a, <4>1, <4>3, Zenon
    <3>5. QED
      BY <3>3, <3>4
  <2>3. ASSUME NEW m \in Channel PROVE Hop(Q[ToMemOf(m)], R[ToMemOf(m)], Gone[ToMemOf(m)], Come[ToMemOf(m)])
    <3>1. Gone[ToMemOf(m)] = {} /\ Come[ToMemOf(m)] = first[m]
      <4>1. \A x : x \in Come[ToMemOf(m)] <=> x \in first[m]
        BY <1>7, <1>8, AreStores, OtherNames, OtherKinds
      <4>2. \A x : x \notin Gone[ToMemOf(m)]
        BY <1>8, AreStores, OtherKinds
      <4>3. QED
        BY <4>1, <4>2
    <3>2. Q[ToMemOf(m)] = toMem[m] /\ R[ToMemOf(m)] = toMem'[m]
      BY <1>6 DEF View
    <3>a. PICK q \in Seq(Req), p \in Seq(Req) : q = fromXbar[m] /\ p = toMem[m]
      BY <1>0, QueueTypes
    <3>3. CASE q = <<>>
      <4>1. first[m] = {} /\ toMem'[m] = p
        BY <1>7, <1>9, <3>3, <3>a
      <4>2. QED
        BY <3>1, <3>2, <3>a, <4>1, HopStay
    <3>4. CASE q # <<>>
      <4>2. q[1] \in Req
        BY <3>4, HeadTailProperties
      <4>1. Hop(p, Append(p, q[1]), {}, {q[1]})
        BY <4>2, HopAppend
      <4>3. first[m] = {q[1]} /\ toMem'[m] = Append(p, q[1])
        BY <1>7, <1>9, <3>4, <3>a, <4>2
      <4>4. QED
        BY <3>1, <3>2, <3>a, <4>1, <4>3, Zenon
    <3>5. QED
      BY <3>3, <3>4
  <2>4. /\ \A c \in Core : Rests(Q, R, Gone, Come, ReceivedOf(c))
        /\ \A s, d \in Node : Rests(Q, R, Gone, Come, Link(s, d))
        /\ \A d \in Node : Rests(Q, R, Gone, Come, OutBufOf(d))
        /\ \A m \in Channel : Rests(Q, R, Gone, Come, DramOf(m)) /\ Rests(Q, R, Gone, Come, ToXbarOf(m))
    <3>1. /\ \A c \in Core : R[ReceivedOf(c)] = Q[ReceivedOf(c)]
          /\ \A s, d \in Node : R[Link(s, d)] = Q[Link(s, d)]
          /\ \A d \in Node : R[OutBufOf(d)] = Q[OutBufOf(d)]
          /\ \A m \in Channel : R[DramOf(m)] = Q[DramOf(m)] /\ R[ToXbarOf(m)] = Q[ToXbarOf(m)]
      <4>1. \A c \in Core : R[ReceivedOf(c)] = Q[ReceivedOf(c)]
        <5> TAKE c \in Core
        <5>1. R[ReceivedOf(c)] = received'[c] /\ Q[ReceivedOf(c)] = received[c]
          BY <1>6 DEF View
        <5>2. QED
          BY <1>9, <5>1, Zenon
      <4>2. \A s, d \in Node : R[Link(s, d)] = Q[Link(s, d)]
        <5> TAKE s, d \in Node
        <5>1. R[Link(s, d)] = Reqs(inBuf'[s][d]) /\ Q[Link(s, d)] = Reqs(inBuf[s][d])
          BY <1>6 DEF View, Reqs
        <5>2. QED
          BY <1>9, <5>1, Zenon
      <4>3. \A d \in Node : R[OutBufOf(d)] = Q[OutBufOf(d)]
        BY <1>6, <1>9 DEF View
      <4>4. \A m \in Channel : R[DramOf(m)] = Q[DramOf(m)] /\ R[ToXbarOf(m)] = Q[ToXbarOf(m)]
        <5> TAKE m \in Channel
        <5>1. /\ R[DramOf(m)] = Reqs(dram'[m]) /\ Q[DramOf(m)] = Reqs(dram[m])
              /\ R[ToXbarOf(m)] = toXbar'[m] /\ Q[ToXbarOf(m)] = toXbar[m]
          BY <1>6 DEF View, Reqs
        <5>2. QED
          BY <1>9, <5>1, Zenon
      <4>5. QED
        BY <4>1, <4>2, <4>3, <4>4
    <3>2. \A w \in Stores : \A x : x \in Gone[w] \/ x \in Come[w] => w[1] \in {"outbox", "fromXbar", "toMem"}
      BY <1>8, KindNames
    <3>3. /\ \A c \in Core : \A x : x \notin Gone[ReceivedOf(c)] /\ x \notin Come[ReceivedOf(c)]
          /\ \A s, d \in Node : \A x : x \notin Gone[Link(s, d)] /\ x \notin Come[Link(s, d)]
          /\ \A d \in Node : \A x : x \notin Gone[OutBufOf(d)] /\ x \notin Come[OutBufOf(d)]
          /\ \A m \in Channel : \A x : /\ x \notin Gone[DramOf(m)] /\ x \notin Come[DramOf(m)]
                                       /\ x \notin Gone[ToXbarOf(m)] /\ x \notin Come[ToXbarOf(m)]
      <4>1. \A c \in Core : \A x : x \notin Gone[ReceivedOf(c)] /\ x \notin Come[ReceivedOf(c)]
        BY <3>2, AreStores, KindNames
      <4>2. \A s, d \in Node : \A x : x \notin Gone[Link(s, d)] /\ x \notin Come[Link(s, d)]
        BY <3>2, AreStores, KindNames
      <4>3. \A d \in Node : \A x : x \notin Gone[OutBufOf(d)] /\ x \notin Come[OutBufOf(d)]
        BY <3>2, AreStores, KindNames
      <4>4. \A m \in Channel : \A x : /\ x \notin Gone[DramOf(m)] /\ x \notin Come[DramOf(m)]
                                      /\ x \notin Gone[ToXbarOf(m)] /\ x \notin Come[ToXbarOf(m)]
        BY <3>2, AreStores, KindNames
      <4>5. QED
        BY <4>1, <4>2, <4>3, <4>4
    <3>4. QED
      BY <3>1, <3>3 DEF Rests
  <2>5. QED
    BY <2>1, <2>2, <2>3, <2>4, Resting, StoreNames DEF KindOf
<1>11. Apart(Stores, Q)
  BY <1>5 DEF Kept
<1>12. \A m \in Channel : \A x \in first[m] : x \in Elems(Q[FromXbarOf(m)])
  <2> TAKE m \in Channel
  <2>1. PICK q \in Seq(Req) : q = fromXbar[m] /\ q = Q[FromXbarOf(m)]
    BY <1>0, <1>6, QueueTypes DEF View
  <2>2. q # <<>> => q[1] \in Elems(q)
    BY ElemsEmpty
  <2>3. QED
    BY <1>7, <2>1, <2>2
<1>13. \A w \in Stores : \A x \in Elems(Q[w]) : x \notin N
  BY <1>4, <1>5, <1>a DEF Kept
<1>14. \A v, w \in Stores : \A x : x \in Come[v] /\ x \in Come[w] => v = w
  <2> SUFFICES ASSUME NEW v \in Stores, NEW w \in Stores, NEW x, x \in Come[v], x \in Come[w] PROVE v = w
    OBVIOUS
  <2>1. x \in Req /\ \/ \E c \in Core : v = OutboxOf(c) /\ x \in Elems(new[c])
                     \/ \E m \in Channel : v = ToMemOf(m) /\ x \in first[m]
    BY <1>8
  <2>2. \/ \E c \in Core : w = OutboxOf(c) /\ x \in Elems(new[c])
        \/ \E m \in Channel : w = ToMemOf(m) /\ x \in first[m]
    BY <1>8
  <2>3. \A c \in Core, m \in Channel : ~(x \in Elems(new[c]) /\ x \in first[m])
    BY <1>4, <1>12, <1>13, <2>1, AreStores
  <2>4. \A c, d \in Core : x \in Elems(new[c]) /\ x \in Elems(new[d]) => c = d
    BY <1>a
  <2>5. \A m, k \in Channel : x \in first[m] /\ x \in first[k] => m = k
    <3>1. \A m, k \in Channel : x \in first[m] /\ x \in first[k] => FromXbarOf(m) = FromXbarOf(k)
      BY <1>11, <1>12, AreStores DEF Apart
    <3>2. QED
      BY <3>1, OtherNames
  <2>6. QED
    BY <2>1, <2>2, <2>3, <2>4, <2>5
<1>15. /\ \A w \in Stores : \A x \in Gone[w] : \E v \in Stores : x \in Come[v]
       /\ \A x \in N : \E v \in Stores : x \in Come[v]
       /\ \A w \in Stores : \A x \in Come[w] : x \in N \/ \E v \in Stores : x \in Gone[v]
  <2>1. \A w \in Stores : \A x \in Gone[w] : \E v \in Stores : x \in Come[v]
    <3> TAKE w \in Stores
    <3> TAKE x \in Gone[w]
    <3>1. x \in Req /\ \E m \in Channel : x \in first[m]
      BY <1>8
    <3>2. PICK m \in Channel : x \in first[m]
      BY <3>1
    <3>3. x \in Come[ToMemOf(m)] /\ ToMemOf(m) \in Stores
      BY <1>8, <3>1, <3>2, AreStores
    <3>4. QED
      BY <3>3
  <2>2. \A x \in N : \E v \in Stores : x \in Come[v]
    <3> TAKE x \in N
    <3>1. PICK c \in Core : x \in Elems(new[c]) /\ x \in Req
      BY <1>4
    <3>2. x \in Come[OutboxOf(c)] /\ OutboxOf(c) \in Stores
      BY <1>8, <3>1, AreStores
    <3>3. QED
      BY <3>2
  <2>3. \A w \in Stores : \A x \in Come[w] : x \in N \/ \E v \in Stores : x \in Gone[v]
    <3> TAKE w \in Stores
    <3> TAKE x \in Come[w]
    <3>1. x \in Req /\ ((\E c \in Core : x \in Elems(new[c])) \/ \E m \in Channel : x \in first[m])
      BY <1>8
    <3>2. \A m \in Channel : x \in first[m] => x \in Gone[FromXbarOf(m)] /\ FromXbarOf(m) \in Stores
      BY <1>8, <3>1, AreStores
    <3>3. QED
      BY <1>4, <3>1, <3>2
  <2>4. QED
    BY <2>1, <2>2, <2>3
<1>16. /\ Apart(Stores, R)
       /\ \A x : (\E w \in Stores : x \in Elems(R[w])) <=> (\E w \in Stores : x \in Elems(Q[w])) \/ x \in N
  <2>1. /\ \A w \in Stores : \A x \in Gone[w] : \E v \in Stores : x \in Come[v]
        /\ \A x \in N : \E v \in Stores : x \in Come[v]
        /\ \A w \in Stores : \A x \in Come[w] : x \in N \/ \E v \in Stores : x \in Gone[v]
    BY <1>15
  <2>2. Hops(Stores, Q, R, Gone, Come, N)
    BY <1>10, <1>13, <1>14, <2>1, Zenon DEF Hops
  <2>3. QED
    BY <1>11, <2>2, Round, Zenon
<1>17. QED
  <2>1. \A r \in Req : Made(r)' <=> \E w \in Stores : r \in Elems(R[w])
    <3>1. \A r \in Req : Made(r) <=> \E w \in Stores : r \in Elems(Q[w])
      BY <1>5 DEF Kept
    <3>2. QED
      BY <1>16, <1>b, <3>1
  <2>2. QED
    BY <1>5, <1>16, <2>1 DEF Kept

\* The queues hold requests.
LEMMA ViewTypes ==
  ASSUME TypeOK, NEW Q, View(Q)
  PROVE  \A w \in Stores : Q[w] \in Seq(Req)
<1> TAKE w \in Stores
<1>1. KindOf(w)
  BY StoreNames
<1>2. \A c \in Core : Q[OutboxOf(c)] \in Seq(Req) /\ Q[ReceivedOf(c)] \in Seq(Req)
  BY QueueTypes DEF View
<1>3. \A s, d \in Node : Q[Link(s, d)] \in Seq(Req)
  <2> TAKE s, d \in Node
  <2>1. PICK q \in Seq(Message) : q = inBuf[s][d]
    BY QueueTypes
  <2>2. Q[Link(s, d)] = Reqs(q)
    BY <2>1 DEF View
  <2>3. QED
    BY <2>2, ReqsType
<1>4. \A d \in Node : Q[OutBufOf(d)] \in Seq(Req)
  BY QueueTypes DEF View
<1>5. \A m \in Channel : Q[FromXbarOf(m)] \in Seq(Req) /\ Q[ToMemOf(m)] \in Seq(Req) /\ Q[ToXbarOf(m)] \in Seq(Req)
  BY QueueTypes DEF View
<1>6. \A m \in Channel : Q[DramOf(m)] \in Seq(Req)
  <2> TAKE m \in Channel
  <2>1. PICK q \in Seq(Message) : q = dram[m]
    BY QueueTypes
  <2>2. Q[DramOf(m)] = Reqs(q)
    BY <2>1 DEF View
  <2>3. QED
    BY <2>2, ReqsType
<1>7. QED
  BY <1>1, <1>2, <1>3, <1>4, <1>5, <1>6 DEF KindOf

\* What a name is about
LEMMA NameParts ==
  \A m, s : ToMemOf(m)[2] = m /\ DramOf(m)[2] = m /\ Link(s, m)[3] = m
BY DEF ToMemOf, DramOf, Link

\* The DRAM takes requests of the caches and hands responses back.
LEMMA KeptDramCycle ==
  ASSUME MemConfigAssumption, MemRequestAssumption, TypeInv, Kept, DramCycle
  PROVE  Kept'
<1>0. TypeOK
  BY DEF TypeInv
<1>1. PICK Q, R : Q = Queues /\ R = Queues'
  OBVIOUS
<1>2. View(Q) /\ View(R)' /\ Apart(Stores, Q) /\ \A w \in Stores : Q[w] \in Seq(Req)
  <2>1. View(Q) /\ View(R)'
    BY <1>1, Views
  <2>2. QED
    BY <1>0, <1>1, <2>1, ViewTypes DEF Kept
<1>3. PICK M :
        M = [w \in Stores |-> IF \E m \in Channel : w = DramOf(m) THEN Reqs(Inside(w[2]))
                              ELSE IF \E m \in Channel : w = ToMemOf(m) /\ Admit(m) THEN Tail(Q[w]) ELSE Q[w]]
  OBVIOUS
<1>4. /\ \A m \in Channel : /\ M[DramOf(m)] = Reqs(Inside(m))
                            /\ Admit(m) => M[ToMemOf(m)] = Tail(Q[ToMemOf(m)])
                            /\ ~Admit(m) => M[ToMemOf(m)] = Q[ToMemOf(m)]
      /\ \A w \in Stores : w[1] \notin {"dram", "toMem"} => M[w] = Q[w]
  <2>1. \A m \in Channel : M[DramOf(m)] = Reqs(Inside(m))
    BY <1>3, AreStores, NameParts
  <2>2. \A m \in Channel : /\ Admit(m) => M[ToMemOf(m)] = Tail(Q[ToMemOf(m)])
                           /\ ~Admit(m) => M[ToMemOf(m)] = Q[ToMemOf(m)]
    <3> TAKE m \in Channel
    <3>1. ToMemOf(m) \in Stores /\ (\A k \in Channel : ToMemOf(m) # DramOf(k) /\ (ToMemOf(m) = ToMemOf(k) => m = k))
      BY AreStores, OtherNames, OtherKinds
    <3>2. QED
      BY <1>3, <3>1
  <2>3. \A w \in Stores : w[1] \notin {"dram", "toMem"} => M[w] = Q[w]
    <3> TAKE w \in Stores
    <3>1. \A m : w = DramOf(m) \/ w = ToMemOf(m) => w[1] \in {"dram", "toMem"}
      BY KindNames
    <3>2. QED
      BY <1>3, <3>1
  <2>4. QED
    BY <2>1, <2>2, <2>3
<1>5. \A m \in Channel :
        /\ Inside(m) \in Seq(Message)
        /\ Reqs(Inside(m)) = IF Admit(m) THEN Append(Reqs(dram[m]), toMem[m][1]) ELSE Reqs(dram[m])
        /\ Admit(m) => toMem[m] # <<>>
        /\ Arrived(m) => /\ Reqs(Inside(m)) # <<>> /\ Reqs(Leaving(m)) = Tail(Reqs(Inside(m)))
                         /\ Head(Inside(m)).req = Reqs(Inside(m))[1]
        /\ ~Arrived(m) => Leaving(m) = Inside(m)
  <2> TAKE m \in Channel
  <2>1. /\ Inside(m) \in Seq(Cell)
        /\ Arrived(m) => Inside(m) # <<>> /\ Leaving(m) = Tail(Inside(m))
        /\ ~Arrived(m) => Leaving(m) = Inside(m)
        /\ Reqs(Inside(m)) = IF Admit(m) THEN Append(Reqs(dram[m]), Head(toMem[m])) ELSE Reqs(dram[m])
        /\ Admit(m) => toMem[m] # <<>> /\ Head(toMem[m]) = toMem[m][1]
    BY <1>0, DramTypes
  <2>2. PICK q \in Seq(Message) : q = Inside(m)
    BY <2>1, CellsAreMessages
  <2>3. q # <<>> => Reqs(q) # <<>> /\ Reqs(Tail(q)) = Tail(Reqs(q)) /\ Head(q).req = Reqs(q)[1]
    BY ReqsMoves, ReqsType
  <2>4. QED
    BY <2>1, <2>2, <2>3
<1>6. PICK F, To : /\ F = {w \in Stores : \E m \in Channel : w = ToMemOf(m) /\ Admit(m)}
                   /\ To = [w \in F |-> DramOf(w[2])]
  OBVIOUS
<1>7. \A w \in F : \E m \in Channel : w = ToMemOf(m) /\ Admit(m) /\ To[w] = DramOf(m)
  BY <1>6, NameParts
<1>8. Relays(Stores, Req, Q, M, F, To)
  <2>1. F \subseteq Stores
    BY <1>6
  <2>2. ASSUME NEW w \in F
        PROVE  /\ Q[w] # <<>> /\ M[w] = Tail(Q[w])
               /\ To[w] \in Stores /\ To[w] \notin F /\ M[To[w]] = Append(Q[To[w]], Q[w][1])
    <3>1. PICK m \in Channel : w = ToMemOf(m) /\ Admit(m) /\ To[w] = DramOf(m)
      BY <1>7
    <3>2. Q[w] = toMem[m] /\ Q[To[w]] = Reqs(dram[m])
      BY <1>2, <3>1 DEF View
    <3>3. M[w] = Tail(Q[w]) /\ M[To[w]] = Reqs(Inside(m))
      BY <1>4, <3>1
    <3>4. Reqs(Inside(m)) = Append(Reqs(dram[m]), toMem[m][1]) /\ toMem[m] # <<>>
      BY <1>5, <3>1
    <3>5. To[w] \in Stores /\ To[w] \notin F
      BY <1>7, <3>1, AreStores, OtherKinds
    <3>6. QED
      BY <3>2, <3>3, <3>4, <3>5, Zenon
  <2>3. \A v, w \in F : To[v] = To[w] => v = w
    BY <1>7, OtherNames
  <2>4. ASSUME NEW w \in Stores, w \notin F, \A v \in F : w # To[v] PROVE M[w] = Q[w]
    <3>1. CASE \E m \in Channel : w = DramOf(m)
      <4>1. PICK m \in Channel : w = DramOf(m)
        BY <3>1
      <4>2. ~Admit(m)
        <5>1. Admit(m) => ToMemOf(m) \in F
          BY <1>6, AreStores
        <5>2. ToMemOf(m) \in F => To[ToMemOf(m)] = w
          BY <1>6, <4>1, NameParts
        <5>3. QED
          BY <2>4, <5>1, <5>2
      <4>3. Q[w] = Reqs(dram[m]) /\ M[w] = Reqs(Inside(m))
        BY <1>2, <1>4, <4>1 DEF View
      <4>4. QED
        BY <1>5, <4>2, <4>3
    <3>2. CASE \E m \in Channel : w = ToMemOf(m)
      <4>1. PICK m \in Channel : w = ToMemOf(m)
        BY <3>2
      <4>2. ~Admit(m)
        BY <1>6, <2>4, <4>1
      <4>3. QED
        BY <1>4, <4>1, <4>2
    <3>3. CASE ~(\E m \in Channel : w = DramOf(m) \/ w = ToMemOf(m))
      BY <1>3, <3>3
    <3>4. QED
      BY <3>1, <3>2, <3>3
  <2>5. QED
    BY <1>2, <2>1, <2>2, <2>3, <2>4, Zenon DEF Relays
<1>9. /\ Apart(Stores, M)
      /\ \A x : (\E w \in Stores : x \in Elems(M[w])) <=> (\E w \in Stores : x \in Elems(Q[w]))
  BY <1>2, <1>8, Relay, Zenon
<1>10. \A w \in Stores : M[w] \in Seq(Req)
  <2> TAKE w \in Stores
  <2>1. CASE \E m \in Channel : w = DramOf(m)
    <3>1. PICK m \in Channel : w = DramOf(m)
      BY <2>1
    <3>2. PICK q \in Seq(Message) : q = Inside(m) /\ M[w] = Reqs(q)
      BY <1>4, <1>5, <3>1
    <3>3. QED
      BY <3>2, ReqsType
  <2>2. CASE \E m \in Channel : w = ToMemOf(m) /\ Admit(m)
    <3>1. PICK m \in Channel : w = ToMemOf(m) /\ Admit(m)
      BY <2>2
    <3>2. Q[w] \in Seq(Req) /\ Q[w] # <<>> /\ M[w] = Tail(Q[w])
      BY <1>2, <1>4, <1>5, <3>1 DEF View
    <3>3. QED
      BY <3>2, HeadTailProperties
  <2>3. CASE ~(\E m \in Channel : w = DramOf(m)) /\ ~(\E m \in Channel : w = ToMemOf(m) /\ Admit(m))
    <3>1. M[w] = Q[w]
      BY <1>3, <2>3
    <3>2. QED
      BY <1>2, <3>1
  <2>4. QED
    BY <2>1, <2>2, <2>3
<1>11. PICK E, Out : /\ E = {w \in Stores : \E m \in Channel : w = DramOf(m) /\ Arrived(m)}
                     /\ Out = [w \in E |-> ToXbarOf(w[2])]
  OBVIOUS
<1>12. \A w \in E : \E m \in Channel : w = DramOf(m) /\ Arrived(m) /\ Out[w] = ToXbarOf(m)
  BY <1>11, NameParts
<1>13. /\ \A c \in Core : outbox'[c] = outbox[c] /\ received'[c] = received[c]
       /\ inBuf' = inBuf /\ outBuf' = outBuf /\ fromXbar' = fromXbar /\ made' = made
       /\ \A m \in Channel : /\ Admit(m) => toMem'[m] = Tail(toMem[m])
                             /\ ~Admit(m) => toMem'[m] = toMem[m]
                             /\ dram'[m] = Leaving(m)
                             /\ Arrived(m) => toXbar'[m] = Append(toXbar[m], Head(Inside(m)).req)
                             /\ ~Arrived(m) => toXbar'[m] = toXbar[m]
  BY DEF DramCycle, clockVars, sendVars, icntVars
<1>14. /\ \A w \in Stores : w[1] \notin {"dram", "toXbar"} => R[w] = M[w]
       /\ \A m \in Channel : R[DramOf(m)] = Reqs(Leaving(m)) /\ R[ToXbarOf(m)] = toXbar'[m] /\ M[ToXbarOf(m)] = toXbar[m]
  <2>1. \A c \in Core : R[OutboxOf(c)] = M[OutboxOf(c)] /\ R[ReceivedOf(c)] = M[ReceivedOf(c)]
    <3> TAKE c \in Core
    <3>1. M[OutboxOf(c)] = Q[OutboxOf(c)] /\ M[ReceivedOf(c)] = Q[ReceivedOf(c)]
      BY <1>4, AreStores, KindNames
    <3>2. QED
      BY <1>2, <1>13, <3>1 DEF View
  <2>2. \A s, d \in Node : R[Link(s, d)] = M[Link(s, d)]
    <3> TAKE s, d \in Node
    <3>1. M[Link(s, d)] = Q[Link(s, d)]
      BY <1>4, AreStores, KindNames
    <3>2. R[Link(s, d)] = Reqs(inBuf'[s][d]) /\ Q[Link(s, d)] = Reqs(inBuf[s][d])
      BY <1>2 DEF View, Reqs
    <3>3. QED
      BY <1>13, <3>1, <3>2, Zenon
  <2>3. \A d \in Node : R[OutBufOf(d)] = M[OutBufOf(d)]
    <3> TAKE d \in Node
    <3>1. M[OutBufOf(d)] = Q[OutBufOf(d)]
      BY <1>4, AreStores, KindNames
    <3>2. QED
      BY <1>2, <1>13, <3>1 DEF View
  <2>4. \A m \in Channel : R[FromXbarOf(m)] = M[FromXbarOf(m)]
    <3> TAKE m \in Channel
    <3>1. M[FromXbarOf(m)] = Q[FromXbarOf(m)]
      BY <1>4, AreStores, KindNames
    <3>2. QED
      BY <1>2, <1>13, <3>1 DEF View
  <2>5. \A m \in Channel : R[ToMemOf(m)] = M[ToMemOf(m)]
    <3> TAKE m \in Channel
    <3>1. R[ToMemOf(m)] = toMem'[m] /\ Q[ToMemOf(m)] = toMem[m]
      BY <1>2 DEF View
    <3>2. QED
      BY <1>4, <1>13, <3>1, Zenon
  <2>6. \A m \in Channel : R[DramOf(m)] = Reqs(Leaving(m))
    <3> TAKE m \in Channel
    <3>1. R[DramOf(m)] = Reqs(dram'[m])
      BY <1>2 DEF View, Reqs
    <3>2. QED
      BY <1>13, <3>1, Zenon
  <2>7. \A m \in Channel : R[ToXbarOf(m)] = toXbar'[m] /\ M[ToXbarOf(m)] = toXbar[m]
    <3> TAKE m \in Channel
    <3>1. M[ToXbarOf(m)] = Q[ToXbarOf(m)]
      BY <1>4, AreStores, KindNames
    <3>2. QED
      BY <1>2, <3>1 DEF View
  <2>8. ASSUME NEW w \in Stores, w[1] \notin {"dram", "toXbar"} PROVE R[w] = M[w]
    <3>1. KindOf(w) /\ \A m : w # DramOf(m) /\ w # ToXbarOf(m)
      BY <2>8, StoreNames, KindNames
    <3>2. QED
      BY <2>1, <2>2, <2>3, <2>4, <2>5, <3>1 DEF KindOf
  <2>9. QED
    BY <2>6, <2>7, <2>8
<1>15. Relays(Stores, Req, M, R, E, Out)
  <2>1. E \subseteq Stores
    BY <1>11
  <2>2. ASSUME NEW w \in E
        PROVE  /\ M[w] # <<>> /\ R[w] = Tail(M[w])
               /\ Out[w] \in Stores /\ Out[w] \notin E /\ R[Out[w]] = Append(M[Out[w]], M[w][1])
    <3>1. PICK m \in Channel : w = DramOf(m) /\ Arrived(m) /\ Out[w] = ToXbarOf(m)
      BY <1>12
    <3>2. M[w] = Reqs(Inside(m)) /\ R[w] = Reqs(Leaving(m)) /\ M[Out[w]] = toXbar[m] /\ R[Out[w]] = toXbar'[m]
      BY <1>4, <1>14, <3>1
    <3>3. toXbar'[m] = Append(toXbar[m], Head(Inside(m)).req)
      BY <1>13, <3>1
    <3>4. Out[w] \in Stores /\ Out[w] \notin E
      BY <1>12, <3>1, AreStores, OtherKinds
    <3>5. Reqs(Inside(m)) # <<>> /\ Reqs(Leaving(m)) = Tail(Reqs(Inside(m))) /\ Head(Inside(m)).req = Reqs(Inside(m))[1]
      BY <1>5, <3>1
    <3>6. QED
      BY <3>2, <3>3, <3>4, <3>5, Zenon
  <2>3. \A v, w \in E : Out[v] = Out[w] => v = w
    BY <1>12, OtherNames
  <2>4. ASSUME NEW w \in Stores, w \notin E, \A v \in E : w # Out[v] PROVE R[w] = M[w]
    <3>1. CASE \E m \in Channel : w = ToXbarOf(m)
      <4>1. PICK m \in Channel : w = ToXbarOf(m)
        BY <3>1
      <4>2. ~Arrived(m)
        <5>1. Arrived(m) => DramOf(m) \in E
          BY <1>11, AreStores
        <5>2. DramOf(m) \in E => Out[DramOf(m)] = w
          BY <1>11, <4>1, NameParts
        <5>3. QED
          BY <2>4, <5>1, <5>2
      <4>3. QED
        BY <1>13, <1>14, <4>1, <4>2
    <3>2. CASE \E m \in Channel : w = DramOf(m)
      <4>1. PICK m \in Channel : w = DramOf(m)
        BY <3>2
      <4>2. ~Arrived(m)
        BY <1>11, <2>4, <4>1
      <4>3. QED
        BY <1>4, <1>5, <1>14, <4>1, <4>2
    <3>3. CASE ~(\E m \in Channel : w = ToXbarOf(m) \/ w = DramOf(m))
      <4>1. w[1] \notin {"dram", "toXbar"}
        BY <3>3, StoreNames, KindNames DEF KindOf
      <4>2. QED
        BY <1>14, <4>1
    <3>4. QED
      BY <3>1, <3>2, <3>3
  <2>5. QED
    BY <1>10, <2>1, <2>2, <2>3, <2>4, Zenon DEF Relays
<1>16. /\ Apart(Stores, R)
       /\ \A x : (\E w \in Stores : x \in Elems(R[w])) <=> (\E w \in Stores : x \in Elems(M[w]))
  BY <1>9, <1>15, Relay, Zenon
<1>17. \A r \in Req : Made(r)' <=> \E w \in Stores : r \in Elems(R[w])
  <2>1. \A r \in Req : Made(r)' <=> Made(r)
    BY <1>13 DEF Made
  <2>2. \A r \in Req : Made(r) <=> \E w \in Stores : r \in Elems(Q[w])
    BY <1>1 DEF Kept
  <2>3. QED
    BY <1>9, <1>16, <2>1, <2>2
<1>18. QED
  BY <1>1, <1>16, <1>17 DEF Kept

\* Each node takes a message that is due from the source whose turn it is.
LEMMA KeptTick ==
  ASSUME MemConfigAssumption, MemRequestAssumption, TypeInv, Kept, Tick
  PROVE  Kept'
<1>0. TypeOK
  BY DEF TypeInv
<1>1. PICK Q, R : Q = Queues /\ R = Queues'
  OBVIOUS
<1>2. View(Q) /\ View(R)' /\ Apart(Stores, Q) /\ \A w \in Stores : Q[w] \in Seq(Req)
  <2>1. View(Q) /\ View(R)'
    BY <1>1, Views
  <2>2. QED
    BY <1>0, <1>1, <2>1, ViewTypes DEF Kept
<1>3. /\ \A s, d \in Node : inBuf'[s][d] = Waited(LinkAfter(s, d))
      /\ \A d \in Node : /\ \A s \in Chosen(d) : outBuf'[d] = Append(outBuf[d], Head(inBuf[s][d]).req)
                         /\ Chosen(d) = {} => outBuf'[d] = outBuf[d]
      /\ outbox' = outbox /\ received' = received /\ fromXbar' = fromXbar /\ toMem' = toMem
      /\ dram' = dram /\ toXbar' = toXbar /\ made' = made
  <2>1. \A s, d \in Node : inBuf'[s][d] = Waited(LinkAfter(s, d))
    BY DEF Tick, Waited, LinkAfter
  <2>2. \A d \in Node : /\ \A s \in Chosen(d) : outBuf'[d] = Append(outBuf[d], Head(inBuf[s][d]).req)
                        /\ Chosen(d) = {} => outBuf'[d] = outBuf[d]
    <3> TAKE d \in Node
    <3>1. outBuf'[d] = IF Chosen(d) = {} THEN outBuf[d]
                       ELSE Append(outBuf[d], Head(inBuf[Least(Chosen(d))][d]).req)
      BY DEF Tick
    <3>2. \A s \in Chosen(d) : Least(Chosen(d)) = s
      BY <1>0, ChosenOnce
    <3>3. QED
      BY <3>1, <3>2
  <2>3. QED
    BY <2>1, <2>2 DEF Tick, clockVars, sendVars, dramVars, cacheVars
<1>4. PICK F, To : /\ F = {w \in Stores : \E s, d \in Node : w = Link(s, d) /\ s \in Chosen(d)}
                   /\ To = [w \in F |-> OutBufOf(w[3])]
  OBVIOUS
<1>5. \A w \in F : \E s, d \in Node : w = Link(s, d) /\ s \in Chosen(d) /\ To[w] = OutBufOf(d)
  BY <1>4, NameParts
<1>6. /\ \A s, d \in Node : R[Link(s, d)] = Reqs(Waited(LinkAfter(s, d))) /\ Q[Link(s, d)] = Reqs(inBuf[s][d])
      /\ \A d \in Node : R[OutBufOf(d)] = outBuf'[d] /\ Q[OutBufOf(d)] = outBuf[d]
      /\ \A w \in Stores : w[1] \notin {"link", "outBuf"} => R[w] = Q[w]
  <2>1. \A s, d \in Node : R[Link(s, d)] = Reqs(Waited(LinkAfter(s, d))) /\ Q[Link(s, d)] = Reqs(inBuf[s][d])
    <3> TAKE s, d \in Node
    <3>1. R[Link(s, d)] = Reqs(inBuf'[s][d]) /\ Q[Link(s, d)] = Reqs(inBuf[s][d])
      BY <1>2 DEF View, Reqs
    <3>2. QED
      BY <1>3, <3>1, Zenon
  <2>2. \A d \in Node : R[OutBufOf(d)] = outBuf'[d] /\ Q[OutBufOf(d)] = outBuf[d]
    BY <1>2 DEF View
  <2>3. \A c \in Core : R[OutboxOf(c)] = Q[OutboxOf(c)] /\ R[ReceivedOf(c)] = Q[ReceivedOf(c)]
    BY <1>2, <1>3 DEF View
  <2>4. \A m \in Channel : /\ R[FromXbarOf(m)] = Q[FromXbarOf(m)] /\ R[ToMemOf(m)] = Q[ToMemOf(m)]
                           /\ R[DramOf(m)] = Q[DramOf(m)] /\ R[ToXbarOf(m)] = Q[ToXbarOf(m)]
    <3> TAKE m \in Channel
    <3>1. /\ R[FromXbarOf(m)] = fromXbar'[m] /\ R[ToMemOf(m)] = toMem'[m]
          /\ R[DramOf(m)] = Reqs(dram'[m]) /\ R[ToXbarOf(m)] = toXbar'[m]
      BY <1>2 DEF View, Reqs
    <3>2. /\ Q[FromXbarOf(m)] = fromXbar[m] /\ Q[ToMemOf(m)] = toMem[m]
          /\ Q[DramOf(m)] = Reqs(dram[m]) /\ Q[ToXbarOf(m)] = toXbar[m]
      BY <1>2 DEF View
    <3>3. QED
      BY <1>3, <3>1, <3>2, Zenon
  <2>5. ASSUME NEW w \in Stores, w[1] \notin {"link", "outBuf"} PROVE R[w] = Q[w]
    <3>1. KindOf(w) /\ \A s, d : w # Link(s, d) /\ w # OutBufOf(d)
      BY <2>5, StoreNames, KindNames
    <3>2. QED
      BY <2>3, <2>4, <3>1 DEF KindOf
  <2>6. QED
    BY <2>1, <2>2, <2>5
<1>7. Relays(Stores, Req, Q, R, F, To)
  <2>1. F \subseteq Stores
    BY <1>4
  <2>2. ASSUME NEW w \in F
        PROVE  /\ Q[w] # <<>> /\ R[w] = Tail(Q[w])
               /\ To[w] \in Stores /\ To[w] \notin F /\ R[To[w]] = Append(Q[To[w]], Q[w][1])
    <3>1. PICK s \in Node, d \in Node : w = Link(s, d) /\ s \in Chosen(d) /\ To[w] = OutBufOf(d)
      BY <1>5
    <3>2. Q[w] = Reqs(inBuf[s][d]) /\ R[w] = Reqs(Waited(LinkAfter(s, d))) /\ Q[To[w]] = outBuf[d] /\ R[To[w]] = outBuf'[d]
      BY <1>6, <3>1
    <3>3. outBuf'[d] = Append(outBuf[d], Head(inBuf[s][d]).req)
      BY <1>3, <3>1
    <3>4. To[w] \in Stores /\ To[w] \notin F
      BY <1>5, <3>1, AreStores, OtherKinds
    <3>5. /\ Reqs(inBuf[s][d]) # <<>> /\ Head(inBuf[s][d]).req = Reqs(inBuf[s][d])[1]
          /\ Reqs(Waited(LinkAfter(s, d))) = Tail(Reqs(inBuf[s][d]))
      BY <1>0, <3>1, LinkFacts
    <3>6. QED
      BY <3>2, <3>3, <3>4, <3>5, Zenon
  <2>3. \A v, w \in F : To[v] = To[w] => v = w
    <3> SUFFICES ASSUME NEW v \in F, NEW w \in F, To[v] = To[w] PROVE v = w
      OBVIOUS
    <3>1. PICK s \in Node, d \in Node : v = Link(s, d) /\ s \in Chosen(d) /\ To[v] = OutBufOf(d)
      BY <1>5
    <3>2. PICK t \in Node, e \in Node : w = Link(t, e) /\ t \in Chosen(e) /\ To[w] = OutBufOf(e)
      BY <1>5
    <3>3. d = e
      BY <3>1, <3>2, OtherNames
    <3>4. s = t
      BY <1>0, <3>1, <3>2, <3>3, ChosenOnce
    <3>5. QED
      BY <3>1, <3>2, <3>3, <3>4
  <2>4. ASSUME NEW w \in Stores, w \notin F, \A v \in F : w # To[v] PROVE R[w] = Q[w]
    <3>1. CASE \E s, d \in Node : w = Link(s, d)
      <4>1. PICK s \in Node, d \in Node : w = Link(s, d)
        BY <3>1
      <4>2. s \notin Chosen(d)
        BY <1>4, <2>4, <4>1
      <4>3. Reqs(Waited(LinkAfter(s, d))) = Reqs(inBuf[s][d])
        BY <1>0, <4>2, LinkFacts
      <4>4. QED
        BY <1>6, <4>1, <4>3
    <3>2. CASE \E d \in Node : w = OutBufOf(d)
      <4>1. PICK d \in Node : w = OutBufOf(d)
        BY <3>2
      <4>2. \A s \in Chosen(d) : FALSE
        <5> SUFFICES ASSUME NEW s \in Chosen(d) PROVE FALSE
          OBVIOUS
        <5>1. s \in Node
          BY DEF Chosen
        <5>2. Link(s, d) \in F
          BY <1>4, <5>1, AreStores
        <5>3. To[Link(s, d)] = w
          BY <1>4, <4>1, <5>2, NameParts
        <5>4. QED
          BY <2>4, <5>2, <5>3
      <4>3. Chosen(d) = {}
        BY <4>2
      <4>4. QED
        BY <1>3, <1>6, <4>1, <4>3
    <3>3. CASE ~(\E s, d \in Node : w = Link(s, d)) /\ ~(\E d \in Node : w = OutBufOf(d))
      <4>1. w[1] \notin {"link", "outBuf"}
        BY <3>3, StoreNames, KindNames DEF KindOf
      <4>2. QED
        BY <1>6, <4>1
    <3>4. QED
      BY <3>1, <3>2, <3>3
  <2>5. QED
    BY <1>2, <2>1, <2>2, <2>3, <2>4, Zenon DEF Relays
<1>8. /\ Apart(Stores, R)
      /\ \A x : (\E w \in Stores : x \in Elems(R[w])) <=> (\E w \in Stores : x \in Elems(Q[w]))
  BY <1>2, <1>7, Relay, Zenon
<1>9. \A r \in Req : Made(r)' <=> \E w \in Stores : r \in Elems(R[w])
  <2>1. \A r \in Req : Made(r)' <=> Made(r)
    BY <1>3 DEF Made
  <2>2. \A r \in Req : Made(r) <=> \E w \in Stores : r \in Elems(Q[w])
    BY <1>1 DEF Kept
  <2>3. QED
    BY <1>8, <2>1, <2>2
<1>10. QED
  BY <1>1, <1>8, <1>9 DEF Kept

\* What enters at a node comes from its place in the queue of a core or from a channel ...
LEMMA EnterSource ==
  ASSUME MemConfigAssumption, TypeOK, NEW p \in Node, Entering(p) # <<>>
  PROVE  \/ \E c \in Core, j \in 1..Ports :
              p = PortOf(c, j) /\ j \in 1..Len(outbox[c]) /\ Head(Entering(p)) = outbox[c][j]
         \/ \E m \in Channel : p = Offset + m /\ toXbar[m] # <<>> /\ Head(Entering(p)) = toXbar[m][1]
<1>0. Offset \in Nat \ {0} /\ p \in Nat
  BY PortFacts
<1>1. CASE p < Offset
  <2>1. p \in 0..(Offset - 1)
    BY <1>0, <1>1
  <2>2. PICK c \in Core, j \in 1..Ports : c = CoreAt(p) /\ j = 1 + (p % Ports) /\ PortOf(c, j) = p
    BY <2>1, PortFacts
  <2>3. 1 + (p % Ports) \in 1..Len(outbox[CoreAt(p)]) /\ Head(Entering(p)) = outbox[CoreAt(p)][1 + (p % Ports)]
    BY <1>1, EnteringFacts
  <2>4. j \in 1..Len(outbox[c]) /\ Head(Entering(p)) = outbox[c][j]
    BY <2>2, <2>3, Zenon
  <2>5. QED
    BY <2>2, <2>4
<1>2. CASE p >= Offset
  <2>1. PICK m \in Channel : m = p - Offset
    BY <1>2, PortFacts
  <2>2. p = Offset + m
    BY <1>0, <2>1
  <2>3. toXbar[p - Offset] # <<>> /\ Head(Entering(p)) = toXbar[p - Offset][1]
    BY <1>2, EnteringFacts
  <2>4. toXbar[m] # <<>> /\ Head(Entering(p)) = toXbar[m][1]
    BY <2>1, <2>3, Zenon
  <2>5. QED
    BY <2>2, <2>4
<1>3. QED
  BY <1>0, <1>1, <1>2

\* ... and what is there enters.
LEMMA EnterThere ==
  ASSUME MemConfigAssumption, TypeOK
  PROVE  /\ \A c \in Core, j \in 1..Ports : j \in 1..Len(outbox[c]) =>
              Entering(PortOf(c, j)) # <<>> /\ Head(Entering(PortOf(c, j))) = outbox[c][j]
         /\ \A m \in Channel : toXbar[m] # <<>> =>
              Entering(Offset + m) # <<>> /\ Head(Entering(Offset + m)) = toXbar[m][1]
<1>1. ASSUME NEW c \in Core, NEW j \in 1..Ports, j \in 1..Len(outbox[c])
      PROVE  Entering(PortOf(c, j)) # <<>> /\ Head(Entering(PortOf(c, j))) = outbox[c][j]
  <2>1. PICK p \in Node : /\ p = PortOf(c, j) /\ p < Offset /\ CoreAt(p) = c /\ 1 + (p % Ports) = j
    <3>1. /\ PortOf(c, j) \in 0..(Offset - 1) /\ CoreAt(PortOf(c, j)) = c /\ 1 + (PortOf(c, j) % Ports) = j
          /\ Offset \in Nat
      BY PortFacts
    <3>2. PortOf(c, j) \in Node /\ PortOf(c, j) < Offset
      BY <3>1, PortFacts
    <3>3. QED
      BY <3>1, <3>2
  <2>2. /\ Entering(p) # <<>> <=> 1 + (p % Ports) \in 1..Len(outbox[CoreAt(p)])
        /\ Entering(p) # <<>> => Head(Entering(p)) = outbox[CoreAt(p)][1 + (p % Ports)]
    BY <2>1, EnteringFacts
  <2>3. QED
    BY <1>1, <2>1, <2>2, Zenon
<1>2. ASSUME NEW m \in Channel, toXbar[m] # <<>>
      PROVE  Entering(Offset + m) # <<>> /\ Head(Entering(Offset + m)) = toXbar[m][1]
  <2>1. PICK p \in Node : p = Offset + m /\ p >= Offset /\ p - Offset = m
    <3>1. Offset \in Nat /\ m \in Int
      BY PortFacts DEF Channel
    <3>2. Offset + m \in Node /\ Offset + m >= Offset
      BY PortFacts
    <3>3. QED
      BY <3>1, <3>2
  <2>2. /\ Entering(p) # <<>> <=> toXbar[p - Offset] # <<>>
        /\ Entering(p) # <<>> => Head(Entering(p)) = toXbar[p - Offset][1]
    BY <2>1, EnteringFacts
  <2>3. QED
    BY <1>2, <2>1, <2>2, Zenon
<1>3. QED
  BY <1>1, <1>2

\* No message enters at two nodes.
LEMMA EnterOnce ==
  ASSUME MemConfigAssumption, TypeOK, NEW Q, View(Q), Apart(Stores, Q),
         NEW s \in Node, NEW t \in Node, Entering(s) # <<>>, Entering(t) # <<>>,
         Head(Entering(s)) = Head(Entering(t))
  PROVE  s = t
<1>0. PICK x : x = Head(Entering(s)) /\ x = Head(Entering(t))
  OBVIOUS
<1>1. ASSUME NEW c \in Core, NEW j \in 1..Len(outbox[c])
      PROVE  outbox[c][j] \in Elems(Q[OutboxOf(c)])
  BY DEF View, Elems
<1>2. ASSUME NEW m \in Channel, toXbar[m] # <<>>
      PROVE  toXbar[m][1] \in Elems(Q[ToXbarOf(m)])
  <2>1. PICK q \in Seq(Req) : q = toXbar[m] /\ q = Q[ToXbarOf(m)]
    BY QueueTypes DEF View
  <2>2. q[1] \in Elems(q)
    BY <1>2, <2>1, ElemsEmpty
  <2>3. QED
    BY <2>1, <2>2
<1>3. \A v, w \in Stores : x \in Elems(Q[v]) /\ x \in Elems(Q[w]) => v = w
  BY DEF Apart
<1>4. CASE \E c \in Core, j \in 1..Ports : s = PortOf(c, j) /\ j \in 1..Len(outbox[c]) /\ x = outbox[c][j]
  <2>1. PICK c \in Core, j \in 1..Ports : s = PortOf(c, j) /\ j \in 1..Len(outbox[c]) /\ x = outbox[c][j]
    BY <1>4
  <2>2. x \in Elems(Q[OutboxOf(c)])
    BY <1>1, <2>1
  <2>3. CASE \E d \in Core, k \in 1..Ports : t = PortOf(d, k) /\ k \in 1..Len(outbox[d]) /\ x = outbox[d][k]
    <3>1. PICK d \in Core, k \in 1..Ports : t = PortOf(d, k) /\ k \in 1..Len(outbox[d]) /\ x = outbox[d][k]
      BY <2>3
    <3>2. x \in Elems(Q[OutboxOf(d)])
      BY <1>1, <3>1
    <3>3. OutboxOf(c) = OutboxOf(d)
      BY <1>3, <2>2, <3>2, AreStores, Zenon
    <3>a. c = d
      BY <3>3, OtherNames
    <3>4. Distinct(outbox[c])
      BY AreStores DEF Apart, View
    <3>5. j = k
      BY <2>1, <3>1, <3>a, <3>4 DEF Distinct
    <3>6. QED
      BY <2>1, <3>1, <3>a, <3>5
  <2>4. CASE \E m \in Channel : t = Offset + m /\ toXbar[m] # <<>> /\ x = toXbar[m][1]
    <3>1. PICK m \in Channel : x \in Elems(Q[ToXbarOf(m)])
      BY <1>2, <2>4
    <3>2. QED
      BY <1>3, <2>2, <3>1, AreStores, OtherKinds
  <2>5. QED
    BY <1>0, <2>3, <2>4, EnterSource
<1>5. CASE \E m \in Channel : s = Offset + m /\ toXbar[m] # <<>> /\ x = toXbar[m][1]
  <2>1. PICK m \in Channel : s = Offset + m /\ x \in Elems(Q[ToXbarOf(m)])
    BY <1>2, <1>5
  <2>2. CASE \E d \in Core, k \in 1..Ports : t = PortOf(d, k) /\ k \in 1..Len(outbox[d]) /\ x = outbox[d][k]
    <3>1. PICK d \in Core : x \in Elems(Q[OutboxOf(d)])
      BY <1>1, <2>2
    <3>2. QED
      BY <1>3, <2>1, <3>1, AreStores, OtherKinds
  <2>3. CASE \E k \in Channel : t = Offset + k /\ toXbar[k] # <<>> /\ x = toXbar[k][1]
    <3>1. PICK k \in Channel : t = Offset + k /\ x \in Elems(Q[ToXbarOf(k)])
      BY <1>2, <2>3
    <3>2. ToXbarOf(m) = ToXbarOf(k)
      BY <1>3, <2>1, <3>1, AreStores, Zenon
    <3>3. QED
      BY <2>1, <3>1, <3>2, OtherNames
  <2>4. QED
    BY <1>0, <2>2, <2>3, EnterSource
<1>6. QED
  BY <1>0, <1>4, <1>5, EnterSource

\* The interconnect takes requests from the cores and responses from the channels, and hands
\* over what has arrived.
LEMMA KeptExchange ==
  ASSUME MemConfigAssumption, MemRequestAssumption, TypeInv, Kept, Exchange
  PROVE  Kept'
<1>0. TypeOK /\ Ports \in Nat \ {0} /\ Ports \in Nat /\ Offset \in Nat \ {0}
  BY PortFacts DEF TypeInv, MemConfigAssumption
<1>1. PICK Q, R : Q = Queues /\ R = Queues'
  OBVIOUS
<1>2. View(Q) /\ View(R)' /\ Apart(Stores, Q) /\ \A w \in Stores : Q[w] \in Seq(Req)
  <2>1. View(Q) /\ View(R)'
    BY <1>1, Views
  <2>2. QED
    BY <1>0, <1>1, <2>1, ViewTypes DEF Kept
<1>3. PICK Takes, FirstX, FirstO :
        /\ Takes = [c \in Core |-> {outbox[c][i] : i \in {n \in 1..Len(outbox[c]) : n <= Ports}}]
        /\ FirstX = [m \in Channel |-> {x \in Req : toXbar[m] # <<>> /\ x = toXbar[m][1]}]
        /\ FirstO = [d \in Node |-> {x \in Req : outBuf[d] # <<>> /\ x = outBuf[d][1]}]
  OBVIOUS
<1>4. /\ \A c \in Core : Takes[c] \subseteq Elems(Q[OutboxOf(c)])
      /\ \A m \in Channel : FirstX[m] \subseteq Elems(Q[ToXbarOf(m)])
      /\ \A d \in Node : FirstO[d] \subseteq Elems(Q[OutBufOf(d)])
      /\ \A m \in Channel : toXbar[m] # <<>> => toXbar[m][1] \in Req
      /\ \A d \in Node : outBuf[d] # <<>> => outBuf[d][1] \in Req
  <2>1. \A q \in Seq(Req) : q # <<>> => q[1] \in Elems(q) /\ q[1] \in Req
    BY ElemsEmpty, HeadTailProperties
  <2>2. \A c \in Core : Takes[c] \subseteq Elems(Q[OutboxOf(c)])
    <3> TAKE c \in Core
    <3>1. Q[OutboxOf(c)] = outbox[c]
      BY <1>2 DEF View
    <3>2. Takes[c] = {outbox[c][i] : i \in {n \in 1..Len(outbox[c]) : n <= Ports}}
      BY <1>3, Zenon
    <3>3. QED
      BY <3>1, <3>2 DEF Elems
  <2>3. \A m \in Channel : FirstX[m] \subseteq Elems(Q[ToXbarOf(m)]) /\ (toXbar[m] # <<>> => toXbar[m][1] \in Req)
    <3> TAKE m \in Channel
    <3>1. PICK q \in Seq(Req) : q = toXbar[m] /\ q = Q[ToXbarOf(m)]
      BY <1>0, <1>2, QueueTypes DEF View
    <3>2. \A x : x \in FirstX[m] => q # <<>> /\ x = q[1]
      BY <1>3, <3>1
    <3>3. QED
      BY <2>1, <3>1, <3>2
  <2>4. \A d \in Node : FirstO[d] \subseteq Elems(Q[OutBufOf(d)]) /\ (outBuf[d] # <<>> => outBuf[d][1] \in Req)
    <3> TAKE d \in Node
    <3>1. PICK q \in Seq(Req) : q = outBuf[d] /\ q = Q[OutBufOf(d)]
      BY <1>0, <1>2, QueueTypes DEF View
    <3>2. \A x : x \in FirstO[d] => q # <<>> /\ x = q[1]
      BY <1>3, <3>1
    <3>3. QED
      BY <2>1, <3>1, <3>2
  <2>5. QED
    BY <2>2, <2>3, <2>4
<1>a. /\ \A m \in Channel : \A x : x \in FirstX[m] <=> toXbar[m] # <<>> /\ x = toXbar[m][1]
      /\ \A d \in Node : \A x : x \in FirstO[d] <=> outBuf[d] # <<>> /\ x = outBuf[d][1]
      /\ \A c \in Core : \A x : x \in Takes[c] <=> \E j \in 1..Ports : j \in 1..Len(outbox[c]) /\ x = outbox[c][j]
  <2>1. \A m \in Channel : \A x : x \in FirstX[m] <=> toXbar[m] # <<>> /\ x = toXbar[m][1]
    BY <1>3, <1>4
  <2>2. \A d \in Node : \A x : x \in FirstO[d] <=> outBuf[d] # <<>> /\ x = outBuf[d][1]
    BY <1>3, <1>4
  <2>3. \A c \in Core : \A x : x \in Takes[c] <=> \E j \in 1..Ports : j \in 1..Len(outbox[c]) /\ x = outbox[c][j]
    <3> TAKE c \in Core
    <3>1. \A x : x \in Takes[c] <=> \E i \in 1..Len(outbox[c]) : i <= Ports /\ x = outbox[c][i]
      BY <1>3
    <3>2. \A i \in 1..Len(outbox[c]) : i <= Ports <=> i \in 1..Ports
      BY <1>0
    <3>3. QED
      BY <3>1, <3>2
  <2>4. QED
    BY <2>1, <2>2, <2>3
<1>b. \A c \in Core : Takes[c] \subseteq Req
  <2> TAKE c \in Core
  <2>1. Elems(Q[OutboxOf(c)]) \subseteq Req
    BY <1>2, AreStores, ElemsType
  <2>2. QED
    BY <1>4, <2>1
<1>5. \A c \in Core : /\ Delivered(c) \in Seq(Req) /\ Distinct(Delivered(c))
                      /\ \A x : x \in Elems(Delivered(c)) <=> \E j \in 1..Ports : x \in FirstO[PortOf(c, j)]
  <2> TAKE c \in Core
  <2>1. \A d, e \in Node : \A x : x \in Elems(outBuf[d]) /\ x \in Elems(outBuf[e]) => d = e
    <3>1. \A d \in Node : outBuf[d] = Q[OutBufOf(d)] /\ OutBufOf(d) \in Stores
      BY <1>2, AreStores DEF View
    <3>2. QED
      BY <1>2, <3>1, OtherNames DEF Apart
  <2>2. /\ Delivered(c) \in Seq(Req) /\ Distinct(Delivered(c))
        /\ \A x : x \in Elems(Delivered(c)) <=>
                    \E j \in 1..Ports : outBuf[PortOf(c, j)] # <<>> /\ x = outBuf[PortOf(c, j)][1]
    BY <1>0, <2>1, DeliveredFacts
  <2>3. \A j \in 1..Ports : PortOf(c, j) \in Node
    BY PortFacts
  <2>4. QED
    BY <1>a, <2>2, <2>3
<1>6. PICK Gone, Come :
        /\ Gone = [w \in Stores |-> {x \in Req : \/ \E c \in Core : w = OutboxOf(c) /\ x \in Takes[c]
                                                 \/ \E m \in Channel : w = ToXbarOf(m) /\ x \in FirstX[m]
                                                 \/ \E d \in Node : w = OutBufOf(d) /\ x \in FirstO[d]}]
        /\ Come = [w \in Stores |-> {x \in Req : \/ \E s, d \in Node : /\ w = Link(s, d) /\ Entering(s) # <<>>
                                                                       /\ x = Head(Entering(s)) /\ Dest(x) = d
                                                 \/ \E c \in Core : w = ReceivedOf(c) /\ x \in Elems(Delivered(c))
                                                 \/ \E m \in Channel : w = FromXbarOf(m) /\ x \in FirstO[Offset + m]}]
  OBVIOUS
<1>7. /\ \A c \in Core : /\ outbox'[c] = SubSeq(outbox[c], Ports + 1, Len(outbox[c]))
                         /\ received'[c] = received[c] \o Delivered(c)
      /\ \A s, d \in Node : inBuf'[s][d] = IF Entering(s) # <<>> /\ Dest(Head(Entering(s))) = d
                                           THEN PushTo(inBuf[s][d], Head(Entering(s))) ELSE inBuf[s][d]
      /\ \A d \in Node : outBuf'[d] = Popped(outBuf[d])
      /\ \A m \in Channel : fromXbar'[m] = fromXbar[m] \o FirstOf(outBuf[Offset + m]) /\ toXbar'[m] = Popped(toXbar[m])
      /\ toMem' = toMem /\ dram' = dram /\ made' = made
  BY DEF Exchange
<1>8. \A w \in Stores : Hop(Q[w], R[w], Gone[w], Come[w])
  <2>1. ASSUME NEW c \in Core PROVE Hop(Q[OutboxOf(c)], R[OutboxOf(c)], Gone[OutboxOf(c)], Come[OutboxOf(c)])
    <3>1. Come[OutboxOf(c)] = {} /\ Gone[OutboxOf(c)] = Takes[c]
      <4>1. \A x : x \notin Come[OutboxOf(c)]
        BY <1>6, AreStores, OtherKinds
      <4>2. \A x : x \in Gone[OutboxOf(c)] <=> x \in Takes[c]
        BY <1>6, <1>b, AreStores, OtherKinds, OtherNames
      <4>3. QED
        BY <4>1, <4>2
    <3>2. PICK q \in Seq(Req) : q = outbox[c] /\ q = Q[OutboxOf(c)] /\ Distinct(q)
      BY <1>0, <1>2, QueueTypes, AreStores DEF View, Apart
    <3>3. Hop(q, SubSeq(q, Ports + 1, Len(q)), {q[i] : i \in {n \in 1..Len(q) : n <= Ports}}, {})
      BY <1>0, <3>2, HopDrop
    <3>4. R[OutboxOf(c)] = SubSeq(q, Ports + 1, Len(q))
      <4>1. R[OutboxOf(c)] = outbox'[c]
        BY <1>2 DEF View
      <4>2. QED
        BY <1>7, <3>2, <4>1, Zenon
    <3>5. Takes[c] = {q[i] : i \in {n \in 1..Len(q) : n <= Ports}}
      BY <1>3, <3>2, Zenon
    <3>6. QED
      BY <3>1, <3>2, <3>3, <3>4, <3>5, Zenon
  <2>2. ASSUME NEW c \in Core
        PROVE  Hop(Q[ReceivedOf(c)], R[ReceivedOf(c)], Gone[ReceivedOf(c)], Come[ReceivedOf(c)])
    <3>1. Gone[ReceivedOf(c)] = {} /\ Come[ReceivedOf(c)] = Elems(Delivered(c))
      <4>1. \A x : x \notin Gone[ReceivedOf(c)]
        BY <1>6, AreStores, OtherKinds
      <4>2. Elems(Delivered(c)) \subseteq Req
        BY <1>5, ElemsType
      <4>3. \A x : x \in Come[ReceivedOf(c)] <=> x \in Elems(Delivered(c))
        BY <1>6, <4>2, AreStores, OtherKinds, OtherNames
      <4>4. QED
        BY <4>1, <4>3
    <3>2. PICK q \in Seq(Req) : q = received[c] /\ q = Q[ReceivedOf(c)]
      BY <1>0, <1>2, QueueTypes DEF View
    <3>3. Hop(q, q \o Delivered(c), {}, Elems(Delivered(c)))
      BY <1>5, HopConcat
    <3>4. R[ReceivedOf(c)] = q \o Delivered(c)
      <4>1. R[ReceivedOf(c)] = received'[c]
        BY <1>2 DEF View
      <4>2. QED
        BY <1>7, <3>2, <4>1, Zenon
    <3>5. QED
      BY <3>1, <3>2, <3>3, <3>4, Zenon
  <2>3. ASSUME NEW s \in Node, NEW d \in Node
        PROVE  Hop(Q[Link(s, d)], R[Link(s, d)], Gone[Link(s, d)], Come[Link(s, d)])
    <3>1. PICK q \in Seq(Message) : q = inBuf[s][d]
      BY <1>0, QueueTypes
    <3>2. Q[Link(s, d)] = Reqs(q) /\ R[Link(s, d)] = Reqs(inBuf'[s][d]) /\ Reqs(q) \in Seq(Req)
      <4>1. Q[Link(s, d)] = Reqs(inBuf[s][d]) /\ R[Link(s, d)] = Reqs(inBuf'[s][d])
        BY <1>2 DEF View, Reqs
      <4>2. QED
        BY <3>1, <4>1, ReqsType, Zenon
    <3>3. \A x : x \notin Gone[Link(s, d)]
      BY <1>6, AreStores, OtherKinds
    <3>4. \A x : x \in Come[Link(s, d)] <=> x \in Req /\ Entering(s) # <<>> /\ x = Head(Entering(s)) /\ Dest(x) = d
      <4>1. \A x : x \in Come[Link(s, d)] <=>
              x \in Req /\ \E t, e \in Node : Link(s, d) = Link(t, e) /\ Entering(t) # <<>> /\ x = Head(Entering(t)) /\ Dest(x) = e
        BY <1>6, AreStores, OtherKinds
      <4>2. \A t, e \in Node : Link(s, d) = Link(t, e) <=> t = s /\ e = d
        BY OtherNames
      <4>3. QED
        BY <4>1, <4>2, Zenon
    <3>5. CASE Entering(s) # <<>> /\ Dest(Head(Entering(s))) = d
      <4>1. PICK e \in Req : e = Head(Entering(s))
        BY <1>0, <3>5, EnteringFacts
      <4>2. Gone[Link(s, d)] = {} /\ Come[Link(s, d)] = {e}
        BY <3>3, <3>4, <3>5, <4>1
      <4>3. R[Link(s, d)] = Reqs(PushTo(q, e))
        BY <1>7, <3>1, <3>2, <3>5, <4>1
      <4>4. Reqs(PushTo(q, e)) = Append(Reqs(q), e)
        BY PushedFacts
      <4>5. Hop(Reqs(q), Append(Reqs(q), e), {}, {e})
        BY <3>2, HopAppend
      <4>6. QED
        BY <3>2, <4>2, <4>3, <4>4, <4>5, Zenon
    <3>6. CASE ~(Entering(s) # <<>> /\ Dest(Head(Entering(s))) = d)
      <4>1. Gone[Link(s, d)] = {} /\ Come[Link(s, d)] = {}
        BY <3>3, <3>4, <3>6
      <4>2. R[Link(s, d)] = Q[Link(s, d)]
        BY <1>7, <3>1, <3>2, <3>6
      <4>3. QED
        BY <4>1, <4>2, HopStay
    <3>7. QED
      BY <3>5, <3>6
  <2>4. ASSUME NEW d \in Node PROVE Hop(Q[OutBufOf(d)], R[OutBufOf(d)], Gone[OutBufOf(d)], Come[OutBufOf(d)])
    <3>1. Come[OutBufOf(d)] = {}
      <4>1. \A x : x \notin Come[OutBufOf(d)]
        BY <1>6, AreStores, OtherKinds
      <4>2. QED
        BY <4>1
    <3>2. PICK q \in Seq(Req) : q = outBuf[d] /\ q = Q[OutBufOf(d)] /\ Distinct(q)
      BY <1>0, <1>2, QueueTypes, AreStores DEF View, Apart
    <3>3. \A x : x \in Gone[OutBufOf(d)] <=> q # <<>> /\ x = q[1]
      <4>1. \A x : x \in Gone[OutBufOf(d)] <=> x \in Req /\ x \in FirstO[d]
        BY <1>6, AreStores, OtherKinds, OtherNames
      <4>2. QED
        BY <1>4, <1>a, <3>2, <4>1
    <3>4. R[OutBufOf(d)] = Popped(q)
      <4>1. R[OutBufOf(d)] = outBuf'[d]
        BY <1>2 DEF View
      <4>2. QED
        BY <1>7, <3>2, <4>1, Zenon
    <3>5. CASE q = <<>>
      <4>1. Gone[OutBufOf(d)] = {} /\ Popped(q) = q
        BY <3>3, <3>5 DEF Popped
      <4>2. QED
        BY <3>1, <3>2, <3>4, <4>1, HopStay
    <3>6. CASE q # <<>>
      <4>1. Gone[OutBufOf(d)] = {q[1]} /\ Popped(q) = Tail(q)
        BY <3>3, <3>6 DEF Popped
      <4>2. Hop(q, Tail(q), {q[1]}, {})
        BY <3>2, <3>6, HopPop
      <4>3. QED
        BY <3>1, <3>2, <3>4, <4>1, <4>2, Zenon
    <3>7. QED
      BY <3>5, <3>6
  <2>5. ASSUME NEW m \in Channel
        PROVE  Hop(Q[FromXbarOf(m)], R[FromXbarOf(m)], Gone[FromXbarOf(m)], Come[FromXbarOf(m)])
    <3>0. Offset + m \in Node
      BY PortFacts
    <3>1. PICK q \in Seq(Req), p \in Seq(Req) : q = fromXbar[m] /\ q = Q[FromXbarOf(m)] /\ p = outBuf[Offset + m]
      BY <1>0, <1>2, <3>0, QueueTypes DEF View
    <3>2. FirstOf(p) \in Seq(Req) /\ Distinct(FirstOf(p)) /\ \A x : x \in Elems(FirstOf(p)) <=> p # <<>> /\ x = p[1]
      BY FirstFacts
    <3>3. Gone[FromXbarOf(m)] = {} /\ Come[FromXbarOf(m)] = Elems(FirstOf(p))
      <4>1. \A x : x \notin Gone[FromXbarOf(m)]
        BY <1>6, AreStores, OtherKinds
      <4>2. \A x : x \in Come[FromXbarOf(m)] <=> x \in Req /\ x \in FirstO[Offset + m]
        BY <1>6, AreStores, OtherKinds, OtherNames
      <4>3. \A x : x \in Come[FromXbarOf(m)] <=> x \in Elems(FirstOf(p))
        BY <1>4, <1>a, <3>0, <3>1, <3>2, <4>2
      <4>4. QED
        BY <4>1, <4>3
    <3>4. Hop(q, q \o FirstOf(p), {}, Elems(FirstOf(p)))
      BY <3>2, HopConcat
    <3>5. R[FromXbarOf(m)] = q \o FirstOf(p)
      <4>1. R[FromXbarOf(m)] = fromXbar'[m]
        BY <1>2 DEF View
      <4>2. QED
        BY <1>7, <3>1, <4>1, Zenon
    <3>6. QED
      BY <3>1, <3>3, <3>4, <3>5, Zenon
  <2>6. ASSUME NEW m \in Channel PROVE Hop(Q[ToXbarOf(m)], R[ToXbarOf(m)], Gone[ToXbarOf(m)], Come[ToXbarOf(m)])
    <3>1. Come[ToXbarOf(m)] = {}
      <4>1. \A x : x \notin Come[ToXbarOf(m)]
        BY <1>6, AreStores, OtherKinds
      <4>2. QED
        BY <4>1
    <3>2. PICK q \in Seq(Req) : q = toXbar[m] /\ q = Q[ToXbarOf(m)] /\ Distinct(q)
      BY <1>0, <1>2, QueueTypes, AreStores DEF View, Apart
    <3>3. \A x : x \in Gone[ToXbarOf(m)] <=> q # <<>> /\ x = q[1]
      <4>1. \A x : x \in Gone[ToXbarOf(m)] <=> x \in Req /\ x \in FirstX[m]
        BY <1>6, AreStores, OtherKinds, OtherNames
      <4>2. q # <<>> => q[1] \in Req
        BY HeadTailProperties
      <4>3. \A x : x \in FirstX[m] <=> q # <<>> /\ x = q[1]
        BY <1>a, <3>2
      <4>4. QED
        BY <4>1, <4>2, <4>3
    <3>4. R[ToXbarOf(m)] = Popped(q)
      <4>1. R[ToXbarOf(m)] = toXbar'[m]
        BY <1>2 DEF View
      <4>2. QED
        BY <1>7, <3>2, <4>1, Zenon
    <3>5. CASE q = <<>>
      <4>1. Gone[ToXbarOf(m)] = {} /\ Popped(q) = q
        BY <3>3, <3>5 DEF Popped
      <4>2. QED
        BY <3>1, <3>2, <3>4, <4>1, HopStay
    <3>6. CASE q # <<>>
      <4>1. Gone[ToXbarOf(m)] = {q[1]} /\ Popped(q) = Tail(q)
        BY <3>3, <3>6 DEF Popped
      <4>2. Hop(q, Tail(q), {q[1]}, {})
        BY <3>2, <3>6, HopPop
      <4>3. QED
        BY <3>1, <3>2, <3>4, <4>1, <4>2, Zenon
    <3>7. QED
      BY <3>5, <3>6
  <2>7. \A m \in Channel : Rests(Q, R, Gone, Come, ToMemOf(m)) /\ Rests(Q, R, Gone, Come, DramOf(m))
    <3> TAKE m \in Channel
    <3>1. /\ Q[ToMemOf(m)] = toMem[m] /\ R[ToMemOf(m)] = toMem'[m]
          /\ Q[DramOf(m)] = Reqs(dram[m]) /\ R[DramOf(m)] = Reqs(dram'[m])
      BY <1>2 DEF View, Reqs
    <3>2. R[ToMemOf(m)] = Q[ToMemOf(m)] /\ R[DramOf(m)] = Q[DramOf(m)]
      BY <1>7, <3>1, Zenon
    <3>3. \A x : /\ x \notin Gone[ToMemOf(m)] /\ x \notin Come[ToMemOf(m)]
                 /\ x \notin Gone[DramOf(m)] /\ x \notin Come[DramOf(m)]
      BY <1>6, AreStores, OtherKinds
    <3>4. QED
      BY <3>2, <3>3 DEF Rests
  <2>8. QED
    BY <2>1, <2>2, <2>3, <2>4, <2>5, <2>6, <2>7, Resting, StoreNames DEF KindOf
<1>9. \A w \in Stores : \A x \in Come[w] :
        \/ \E s \in Node : w = Link(s, Dest(x)) /\ Entering(s) # <<>> /\ x = Head(Entering(s))
        \/ \E c \in Core, j \in 1..Ports : w = ReceivedOf(c) /\ x \in FirstO[PortOf(c, j)]
        \/ \E m \in Channel : w = FromXbarOf(m) /\ x \in FirstO[Offset + m]
  BY <1>5, <1>6
<1>10. \A s \in Node : Entering(s) # <<>> => \/ \E c \in Core : Head(Entering(s)) \in Takes[c]
                                            \/ \E m \in Channel : Head(Entering(s)) \in FirstX[m]
  BY <1>0, <1>a, EnterSource
<1>11. \A v, w \in Stores : \A x : x \in Come[v] /\ x \in Come[w] => v = w
  <2> SUFFICES ASSUME NEW v \in Stores, NEW w \in Stores, NEW x, x \in Come[v], x \in Come[w] PROVE v = w
    OBVIOUS
  <2>1. \A s \in Node : Entering(s) # <<>> /\ x = Head(Entering(s)) =>
          \/ \E c \in Core : x \in Elems(Q[OutboxOf(c)])
          \/ \E m \in Channel : x \in Elems(Q[ToXbarOf(m)])
    BY <1>4, <1>10
  <2>2. \A d, e \in Node : x \in FirstO[d] /\ x \in FirstO[e] => d = e
    <3>1. \A d, e \in Node : x \in FirstO[d] /\ x \in FirstO[e] => OutBufOf(d) = OutBufOf(e)
      BY <1>2, <1>4, AreStores DEF Apart
    <3>2. QED
      BY <3>1, OtherNames
  <2>3. \A d, s \in Node : ~(x \in FirstO[d] /\ Entering(s) # <<>> /\ x = Head(Entering(s)))
    <3>1. \A d \in Node, c \in Core : ~(x \in Elems(Q[OutBufOf(d)]) /\ x \in Elems(Q[OutboxOf(c)]))
      BY <1>2, AreStores, OtherKinds DEF Apart
    <3>2. \A d \in Node, m \in Channel : ~(x \in Elems(Q[OutBufOf(d)]) /\ x \in Elems(Q[ToXbarOf(m)]))
      BY <1>2, AreStores, OtherKinds DEF Apart
    <3>3. QED
      BY <1>4, <2>1, <3>1, <3>2
  <2>4. \A s, t \in Node : Entering(s) # <<>> /\ x = Head(Entering(s)) /\ Entering(t) # <<>> /\ x = Head(Entering(t)) => s = t
    BY <1>0, <1>2, EnterOnce
  <2>5. \A c \in Core, j \in 1..Ports : PortOf(c, j) \in Node /\ CoreAt(PortOf(c, j)) = c /\ PortOf(c, j) < Offset
    BY <1>0, PortFacts
  <2>6. \A m \in Channel : Offset + m \in Node /\ Offset + m >= Offset /\ m \in Int
    BY PortFacts DEF Channel
  <2>7. CASE \E s \in Node : v = Link(s, Dest(x)) /\ Entering(s) # <<>> /\ x = Head(Entering(s))
    <3>1. PICK s \in Node : v = Link(s, Dest(x)) /\ Entering(s) # <<>> /\ x = Head(Entering(s))
      BY <2>7
    <3>2. \A d \in Node : x \notin FirstO[d]
      BY <2>3, <3>1
    <3>3. PICK t \in Node : w = Link(t, Dest(x)) /\ Entering(t) # <<>> /\ x = Head(Entering(t))
      BY <1>9, <2>5, <2>6, <3>2
    <3>4. QED
      BY <2>4, <3>1, <3>3
  <2>8. CASE \E c \in Core, j \in 1..Ports : v = ReceivedOf(c) /\ x \in FirstO[PortOf(c, j)]
    <3>1. PICK c \in Core, j \in 1..Ports : v = ReceivedOf(c) /\ x \in FirstO[PortOf(c, j)]
      BY <2>8
    <3>2. \A d \in Node : x \in FirstO[d] => d = PortOf(c, j)
      BY <2>2, <2>5, <3>1
    <3>3. \A m \in Channel : x \notin FirstO[Offset + m]
      BY <1>0, <2>5, <2>6, <3>2
    <3>4. PICK e \in Core, k \in 1..Ports : w = ReceivedOf(e) /\ x \in FirstO[PortOf(e, k)]
      BY <1>9, <2>3, <2>5, <3>1, <3>3
    <3>5. PortOf(e, k) = PortOf(c, j)
      BY <2>5, <3>2, <3>4
    <3>6. e = c
      BY <2>5, <3>5
    <3>7. QED
      BY <3>1, <3>4, <3>6
  <2>9. CASE \E m \in Channel : v = FromXbarOf(m) /\ x \in FirstO[Offset + m]
    <3>1. PICK m \in Channel : v = FromXbarOf(m) /\ x \in FirstO[Offset + m]
      BY <2>9
    <3>2. \A d \in Node : x \in FirstO[d] => d = Offset + m
      BY <2>2, <2>6, <3>1
    <3>3. \A c \in Core, j \in 1..Ports : x \notin FirstO[PortOf(c, j)]
      BY <1>0, <2>5, <2>6, <3>2
    <3>4. PICK k \in Channel : w = FromXbarOf(k) /\ x \in FirstO[Offset + k]
      BY <1>9, <2>3, <2>6, <3>1, <3>3
    <3>5. Offset + k = Offset + m
      BY <2>6, <3>2, <3>4
    <3>6. k = m
      BY <1>0, <2>6, <3>5
    <3>7. QED
      BY <3>1, <3>4, <3>6
  <2>10. QED
    BY <1>9, <2>7, <2>8, <2>9
<1>12. \A w \in Stores : \A x \in Gone[w] : \E v \in Stores : x \in Come[v]
  <2> SUFFICES ASSUME NEW w \in Stores, NEW x \in Gone[w] PROVE \E v \in Stores : x \in Come[v]
    OBVIOUS
  <2>0. x \in Req /\ Dest(x) \in Node
    BY <1>6, DestFacts
  <2>1. ASSUME NEW s \in Node, Entering(s) # <<>>, x = Head(Entering(s)) PROVE \E v \in Stores : x \in Come[v]
    <3>1. Link(s, Dest(x)) \in Stores
      BY <2>0, AreStores
    <3>2. x \in Come[Link(s, Dest(x))]
      BY <1>6, <2>0, <2>1, <3>1
    <3>3. QED
      BY <3>1, <3>2
  <2>2. CASE \E c \in Core : x \in Takes[c]
    <3>1. PICK c \in Core, j \in 1..Ports : j \in 1..Len(outbox[c]) /\ x = outbox[c][j]
      BY <1>a, <2>2
    <3>2. PortOf(c, j) \in Node /\ Entering(PortOf(c, j)) # <<>> /\ Head(Entering(PortOf(c, j))) = x
      BY <1>0, <3>1, EnterThere, PortFacts
    <3>3. QED
      BY <2>1, <3>2
  <2>3. CASE \E m \in Channel : x \in FirstX[m]
    <3>1. PICK m \in Channel : toXbar[m] # <<>> /\ x = toXbar[m][1]
      BY <1>a, <2>3
    <3>2. Offset + m \in Node /\ Entering(Offset + m) # <<>> /\ Head(Entering(Offset + m)) = x
      BY <1>0, <3>1, EnterThere, PortFacts
    <3>3. QED
      BY <2>1, <3>2
  <2>4. CASE \E d \in Node : x \in FirstO[d]
    <3>1. PICK d \in Node : x \in FirstO[d] /\ d \in Nat
      BY <2>4, PortFacts
    <3>2. CASE d < Offset
      <4>1. d \in 0..(Offset - 1)
        BY <1>0, <3>1, <3>2
      <4>2. PICK c \in Core, j \in 1..Ports : PortOf(c, j) = d
        BY <4>1, PortFacts
      <4>3. x \in Elems(Delivered(c))
        BY <1>5, <3>1, <4>2
      <4>4. x \in Come[ReceivedOf(c)] /\ ReceivedOf(c) \in Stores
        BY <1>6, <2>0, <4>3, AreStores
      <4>5. QED
        BY <4>4
    <3>3. CASE d >= Offset
      <4>1. PICK m \in Channel : m = d - Offset
        BY <3>3, PortFacts
      <4>2. Offset + m = d
        BY <1>0, <3>1, <4>1
      <4>3. x \in Come[FromXbarOf(m)] /\ FromXbarOf(m) \in Stores
        BY <1>6, <2>0, <3>1, <4>2, AreStores
      <4>4. QED
        BY <4>3
    <3>4. QED
      BY <1>0, <3>1, <3>2, <3>3
  <2>5. QED
    BY <1>6, <2>2, <2>3, <2>4
<1>13. \A w \in Stores : \A x \in Come[w] : \E v \in Stores : x \in Gone[v]
  <2> SUFFICES ASSUME NEW w \in Stores, NEW x \in Come[w] PROVE \E v \in Stores : x \in Gone[v]
    OBVIOUS
  <2>0. x \in Req
    BY <1>6
  <2>1. \A c \in Core : x \in Takes[c] => x \in Gone[OutboxOf(c)]
    BY <1>6, <2>0, AreStores
  <2>2. \A m \in Channel : x \in FirstX[m] => x \in Gone[ToXbarOf(m)]
    BY <1>6, <2>0, AreStores
  <2>3. \A d \in Node : x \in FirstO[d] => x \in Gone[OutBufOf(d)]
    BY <1>6, <2>0, AreStores
  <2>4. \/ \E c \in Core : x \in Takes[c]
        \/ \E m \in Channel : x \in FirstX[m]
        \/ \E d \in Node : x \in FirstO[d]
    <3>1. \A c \in Core, j \in 1..Ports : PortOf(c, j) \in Node
      BY PortFacts
    <3>2. \A m \in Channel : Offset + m \in Node
      BY PortFacts
    <3>3. QED
      BY <1>9, <1>10, <3>1, <3>2
  <2>5. QED
    BY <2>1, <2>2, <2>3, <2>4, AreStores
<1>14. PICK N : N = {}
  OBVIOUS
<1>15. Hops(Stores, Q, R, Gone, Come, N)
  <2>1. \A x \in N : \E v \in Stores : x \in Come[v]
    BY <1>14
  <2>2. \A w \in Stores : \A x \in Elems(Q[w]) : x \notin N
    BY <1>14
  <2>3. \A w \in Stores : \A x \in Come[w] : x \in N \/ \E v \in Stores : x \in Gone[v]
    BY <1>13
  <2>4. QED
    BY <1>8, <1>11, <1>12, <2>1, <2>2, <2>3, Zenon DEF Hops
<1>16. Apart(Stores, R) /\ \A x : (\E w \in Stores : x \in Elems(R[w])) <=> (\E w \in Stores : x \in Elems(Q[w])) \/ x \in N
  BY <1>2, <1>15, Round, Zenon
<1>17. \A r \in Req : Made(r)' <=> \E w \in Stores : r \in Elems(R[w])
  <2>1. \A r \in Req : Made(r)' <=> Made(r)
    BY <1>7 DEF Made
  <2>2. \A r \in Req : Made(r) <=> \E w \in Stores : r \in Elems(Q[w])
    BY <1>1 DEF Kept
  <2>3. QED
    BY <1>14, <1>16, <2>1, <2>2
<1>18. QED
  BY <1>1, <1>16, <1>17 DEF Kept

\* In the beginning nothing has been made, and all queues are empty.
LEMMA KeptInit ==
  ASSUME MemConfigAssumption, MemRequestAssumption, Init
  PROVE  Kept /\ Routed /\ Fresh
<1>1. PICK Q : Q = Queues
  OBVIOUS
<1>2. View(Q)
  BY <1>1, Views
<1>3. Elems(<<>>) = {} /\ Distinct(<<>>) /\ Reqs(<<>>) = <<>>
  BY ElemsEmpty DEF Elems, Distinct, Reqs
<1>4. /\ \A c \in Core : made[c] = 0 /\ outbox[c] = <<>> /\ received[c] = <<>>
      /\ \A s, d \in Node : Reqs(inBuf[s][d]) = <<>>
      /\ \A d \in Node : outBuf[d] = <<>>
      /\ \A m \in Channel : fromXbar[m] = <<>> /\ toMem[m] = <<>> /\ Reqs(dram[m]) = <<>> /\ toXbar[m] = <<>>
      /\ replied = {} /\ young = {}
  BY <1>3 DEF Init
<1>5. \A w \in Stores : Q[w] = <<>>
  BY <1>2, <1>4, StoreNames DEF View, KindOf
<1>6. \A w \in Stores : Distinct(Q[w]) /\ \A x : x \notin Elems(Q[w])
  BY <1>3, <1>5
<1>7. \A r \in Req : ~Made(r)
  <2>1. \A r \in Req : made[CoreOf[r]] = 0
    BY <1>4, PlanFacts
  <2>2. QED
    BY <2>1 DEF Made
<1>8. Kept
  BY <1>1, <1>6, <1>7 DEF Kept, Apart
<1>9. Routed
  BY <1>3, <1>4 DEF Routed
<1>10. QED
  BY <1>4, <1>8, <1>9 DEF Fresh

\* Steps that touch no queue
LEMMA Untouched ==
  ASSUME Kept, Routed, Fresh,
         UNCHANGED <<made, outbox, received, inBuf, outBuf, fromXbar, toMem, dram, toXbar, replied, young>>
  PROVE  Kept' /\ Routed' /\ Fresh'
<1>1. \A w : Content(w)' = Content(w)
  BY DEF Content, Reqs
<1>2. Queues' = Queues
  BY <1>1 DEF Queues
<1>3. \A r : Made(r)' <=> Made(r)
  BY DEF Made
<1>4. \A r : Dest(r)' = Dest(r)
  BY DEF Dest
<1>5. Kept'
  BY <1>2, <1>3 DEF Kept
<1>6. Fresh'
  BY <1>3 DEF Fresh, Reqs
<1>7. \A s, d \in Node : Reqs(inBuf[s][d])' = Reqs(inBuf[s][d])
  BY DEF Reqs
<1>8. \A m \in Channel : Reqs(dram[m])' = Reqs(dram[m])
  BY DEF Reqs
<1>9. Routed'
  BY <1>3, <1>4, <1>7, <1>8 DEF Routed
<1>10. QED
  BY <1>5, <1>6, <1>9

\* Where a response of a channel is, and a message under way is not
Separate ==
  /\ \A m \in Channel : \A x \in Elems(toXbar[m]) :
       /\ \A c \in Core : x \notin Elems(outbox[c]) /\ x \notin Elems(received[c])
       /\ \A s, d \in Node : x \notin Elems(Reqs(inBuf[s][d]))
       /\ \A d \in Node : x \notin Elems(outBuf[d])
       /\ \A k \in Channel : x \notin Elems(fromXbar[k]) /\ x \notin Elems(toMem[k]) /\ x \notin Elems(Reqs(dram[k]))
  /\ \A s, d \in Node : \A x \in Elems(Reqs(inBuf[s][d])) :
       /\ \A c \in Core : x \notin Elems(outbox[c])
       /\ \A k \in Channel : x \notin Elems(toMem[k]) /\ x \notin Elems(Reqs(dram[k]))
\* That follows from every request being in one queue, before and after a step.
LEMMA AreSeparate == (Kept => Separate) /\ (Kept' => Separate')
<1>1. ASSUME NEW Q, Apart(Stores, Q)
      PROVE  /\ \A m \in Channel : \A x \in Elems(Q[ToXbarOf(m)]) :
                  /\ \A c \in Core : x \notin Elems(Q[OutboxOf(c)]) /\ x \notin Elems(Q[ReceivedOf(c)])
                  /\ \A s, d \in Node : x \notin Elems(Q[Link(s, d)])
                  /\ \A d \in Node : x \notin Elems(Q[OutBufOf(d)])
                  /\ \A k \in Channel : /\ x \notin Elems(Q[FromXbarOf(k)]) /\ x \notin Elems(Q[ToMemOf(k)])
                                        /\ x \notin Elems(Q[DramOf(k)])
             /\ \A s, d \in Node : \A x \in Elems(Q[Link(s, d)]) :
                  /\ \A c \in Core : x \notin Elems(Q[OutboxOf(c)])
                  /\ \A k \in Channel : x \notin Elems(Q[ToMemOf(k)]) /\ x \notin Elems(Q[DramOf(k)])
  <2>1. \A v, w \in Stores : v[1] # w[1] => \A x : ~(x \in Elems(Q[v]) /\ x \in Elems(Q[w]))
    BY <1>1 DEF Apart
  <2>2. ASSUME NEW m \in Channel, NEW x \in Elems(Q[ToXbarOf(m)])
        PROVE  /\ \A c \in Core : x \notin Elems(Q[OutboxOf(c)]) /\ x \notin Elems(Q[ReceivedOf(c)])
               /\ \A s, d \in Node : x \notin Elems(Q[Link(s, d)])
               /\ \A d \in Node : x \notin Elems(Q[OutBufOf(d)])
               /\ \A k \in Channel : /\ x \notin Elems(Q[FromXbarOf(k)]) /\ x \notin Elems(Q[ToMemOf(k)])
                                     /\ x \notin Elems(Q[DramOf(k)])
    <3>1. \A w \in Stores : w[1] # "toXbar" => x \notin Elems(Q[w])
      BY <2>1, AreStores, KindNames
    <3>2. QED
      BY <3>1, AreStores, KindNames
  <2>3. ASSUME NEW s \in Node, NEW d \in Node, NEW x \in Elems(Q[Link(s, d)])
        PROVE  /\ \A c \in Core : x \notin Elems(Q[OutboxOf(c)])
               /\ \A k \in Channel : x \notin Elems(Q[ToMemOf(k)]) /\ x \notin Elems(Q[DramOf(k)])
    <3>1. \A w \in Stores : w[1] # "link" => x \notin Elems(Q[w])
      BY <2>1, AreStores, KindNames
    <3>2. QED
      BY <3>1, AreStores, KindNames
  <2>4. QED
    BY <2>2, <2>3
<1>2. ASSUME Kept PROVE Separate
  <2>1. PICK Q : Q = Queues
    OBVIOUS
  <2>2. View(Q) /\ Apart(Stores, Q)
    BY <1>2, <2>1, Views DEF Kept
  <2>3. \A m \in Channel : \A x \in Elems(toXbar[m]) :
          /\ \A c \in Core : x \notin Elems(outbox[c]) /\ x \notin Elems(received[c])
          /\ \A s, d \in Node : x \notin Elems(Reqs(inBuf[s][d]))
          /\ \A d \in Node : x \notin Elems(outBuf[d])
          /\ \A k \in Channel : /\ x \notin Elems(fromXbar[k]) /\ x \notin Elems(toMem[k])
                                /\ x \notin Elems(Reqs(dram[k]))
    <3> SUFFICES ASSUME NEW m \in Channel, NEW x \in Elems(toXbar[m])
                 PROVE  /\ \A c \in Core : x \notin Elems(outbox[c]) /\ x \notin Elems(received[c])
                        /\ \A s, d \in Node : x \notin Elems(Reqs(inBuf[s][d]))
                        /\ \A d \in Node : x \notin Elems(outBuf[d])
                        /\ \A k \in Channel : /\ x \notin Elems(fromXbar[k]) /\ x \notin Elems(toMem[k])
                                              /\ x \notin Elems(Reqs(dram[k]))
      OBVIOUS
    <3>1. x \in Elems(Q[ToXbarOf(m)])
      BY <2>2 DEF View
    <3>2. /\ \A c \in Core : x \notin Elems(Q[OutboxOf(c)]) /\ x \notin Elems(Q[ReceivedOf(c)])
          /\ \A s, d \in Node : x \notin Elems(Q[Link(s, d)])
          /\ \A d \in Node : x \notin Elems(Q[OutBufOf(d)])
          /\ \A k \in Channel : /\ x \notin Elems(Q[FromXbarOf(k)]) /\ x \notin Elems(Q[ToMemOf(k)])
                                /\ x \notin Elems(Q[DramOf(k)])
      BY <1>1, <2>2, <3>1
    <3>3. QED
      BY <2>2, <3>2 DEF View
  <2>4. \A s, d \in Node : \A x \in Elems(Reqs(inBuf[s][d])) :
          /\ \A c \in Core : x \notin Elems(outbox[c])
          /\ \A k \in Channel : x \notin Elems(toMem[k]) /\ x \notin Elems(Reqs(dram[k]))
    <3> SUFFICES ASSUME NEW s \in Node, NEW d \in Node, NEW x \in Elems(Reqs(inBuf[s][d]))
                 PROVE  /\ \A c \in Core : x \notin Elems(outbox[c])
                        /\ \A k \in Channel : x \notin Elems(toMem[k]) /\ x \notin Elems(Reqs(dram[k]))
      OBVIOUS
    <3>1. x \in Elems(Q[Link(s, d)])
      BY <2>2 DEF View
    <3>2. /\ \A c \in Core : x \notin Elems(Q[OutboxOf(c)])
          /\ \A k \in Channel : x \notin Elems(Q[ToMemOf(k)]) /\ x \notin Elems(Q[DramOf(k)])
      BY <1>1, <2>2, <3>1
    <3>3. QED
      BY <2>2, <3>2 DEF View
  <2>5. QED
    BY <2>3, <2>4 DEF Separate
<1>3. ASSUME Kept' PROVE Separate'
  <2>1. PICK Q : Q = Queues'
    OBVIOUS
  <2>2. View(Q)' /\ Apart(Stores, Q)
    BY <1>3, <2>1, Views DEF Kept
  <2>3. \A m \in Channel : \A x \in Elems(toXbar'[m]) :
          /\ \A c \in Core : x \notin Elems(outbox'[c]) /\ x \notin Elems(received'[c])
          /\ \A s, d \in Node : x \notin Elems(Reqs(inBuf'[s][d]))
          /\ \A d \in Node : x \notin Elems(outBuf'[d])
          /\ \A k \in Channel : /\ x \notin Elems(fromXbar'[k]) /\ x \notin Elems(toMem'[k])
                                /\ x \notin Elems(Reqs(dram'[k]))
    <3> SUFFICES ASSUME NEW m \in Channel, NEW x \in Elems(toXbar'[m])
                 PROVE  /\ \A c \in Core : x \notin Elems(outbox'[c]) /\ x \notin Elems(received'[c])
                        /\ \A s, d \in Node : x \notin Elems(Reqs(inBuf'[s][d]))
                        /\ \A d \in Node : x \notin Elems(outBuf'[d])
                        /\ \A k \in Channel : /\ x \notin Elems(fromXbar'[k]) /\ x \notin Elems(toMem'[k])
                                              /\ x \notin Elems(Reqs(dram'[k]))
      OBVIOUS
    <3>1. x \in Elems(Q[ToXbarOf(m)])
      BY <2>2 DEF View
    <3>2. /\ \A c \in Core : x \notin Elems(Q[OutboxOf(c)]) /\ x \notin Elems(Q[ReceivedOf(c)])
          /\ \A s, d \in Node : x \notin Elems(Q[Link(s, d)])
          /\ \A d \in Node : x \notin Elems(Q[OutBufOf(d)])
          /\ \A k \in Channel : /\ x \notin Elems(Q[FromXbarOf(k)]) /\ x \notin Elems(Q[ToMemOf(k)])
                                /\ x \notin Elems(Q[DramOf(k)])
      BY <1>1, <2>2, <3>1
    <3>3. QED
      BY <2>2, <3>2 DEF View
  <2>4. \A s, d \in Node : \A x \in Elems(Reqs(inBuf'[s][d])) :
          /\ \A c \in Core : x \notin Elems(outbox'[c])
          /\ \A k \in Channel : x \notin Elems(toMem'[k]) /\ x \notin Elems(Reqs(dram'[k]))
    <3> SUFFICES ASSUME NEW s \in Node, NEW d \in Node, NEW x \in Elems(Reqs(inBuf'[s][d]))
                 PROVE  /\ \A c \in Core : x \notin Elems(outbox'[c])
                        /\ \A k \in Channel : x \notin Elems(toMem'[k]) /\ x \notin Elems(Reqs(dram'[k]))
      OBVIOUS
    <3>1. x \in Elems(Q[Link(s, d)])
      BY <2>2 DEF View
    <3>2. /\ \A c \in Core : x \notin Elems(Q[OutboxOf(c)])
          /\ \A k \in Channel : x \notin Elems(Q[ToMemOf(k)]) /\ x \notin Elems(Q[DramOf(k)])
      BY <1>1, <2>2, <3>1
    <3>3. QED
      BY <2>2, <3>2 DEF View
  <2>5. QED
    BY <2>3, <2>4 DEF Separate, Reqs
<1>4. QED
  BY <1>2, <1>3

\* What a queue holds after it has been moved
LEMMA LessElems ==
  ASSUME NEW q \in Seq(Req)
  PROVE  /\ \A x \in Elems(Popped(q)) : x \in Elems(q)
         /\ \A x \in Elems(FirstOf(q)) : x \in Elems(q)
         /\ q # <<>> => (\A x \in Elems(Tail(q)) : x \in Elems(q)) /\ q[1] \in Elems(q)
         /\ \A k \in Nat : \A x \in Elems(SubSeq(q, k + 1, Len(q))) : x \in Elems(q)
<1>1. q # <<>> => (\A x \in Elems(Tail(q)) : x \in Elems(q)) /\ q[1] \in Elems(q)
  BY ElemsTail
<1>2. \A x \in Elems(Popped(q)) : x \in Elems(q)
  BY <1>1, FirstFacts
<1>3. \A x \in Elems(FirstOf(q)) : x \in Elems(q)
  BY <1>1, FirstFacts
<1>4. ASSUME NEW k \in Nat PROVE \A x \in Elems(SubSeq(q, k + 1, Len(q))) : x \in Elems(q)
  <2>1. Len(q) \in Nat /\ \A i \in k + 1..Len(q) : q[i] \in Req
    BY ElementOfSeq, LenProperties
  <2>2. PICK s : s = SubSeq(q, k + 1, Len(q))
    OBVIOUS
  <2>3. /\ Len(s) = IF k + 1 <= Len(q) THEN Len(q) - k ELSE 0
        /\ \A i \in 1..Len(s) : s[i] = q[k + i] /\ k + i \in 1..Len(q)
    BY <2>1, <2>2, SubSeqProperties
  <2>4. \A x \in Elems(s) : x \in Elems(q)
    BY <2>3 DEF Elems
  <2>5. QED
    BY <2>2, <2>4
<1>5. QED
  BY <1>1, <1>2, <1>3, <1>4

\* What a core makes is its own, the caches pass on requests only, and none is young any more.
LEMMA RoutedCoreCycle ==
  ASSUME MemConfigAssumption, MemRequestAssumption, TypeInv, Kept, Routed, CoreCycle
  PROVE  Routed' /\ Fresh'
<1>0. /\ TypeOK /\ Ports \in Nat \ {0}
      /\ \A c \in Core : made[c] \in Nat /\ made[c] <= Len(Plan[c])
  BY DEF MemConfigAssumption, TypeInv, TypeOK
<1>1. PICK n \in [Core -> 0..Ports] :
        /\ \A c \in Core : made[c] + n[c] <= Len(Plan[c])
        /\ made' = [c \in Core |-> made[c] + n[c]]
        /\ outbox' = [c \in Core |-> outbox[c] \o SubSeq(Plan[c], made[c] + 1, made[c] + n[c])]
  BY DEF CoreCycle
<1>2. \A r \in Req : Made(r) => Made(r)'
  <2> TAKE r \in Req
  <2>1. PICK c \in Core : c = CoreOf[r]
    BY PlanFacts
  <2>2. made'[c] = made[c] + n[c] /\ n[c] \in Nat
    BY <1>1
  <2>3. \A i \in 1..made[c] : i \in 1..(made[c] + n[c])
    BY <1>0, <2>2
  <2>4. QED
    BY <2>1, <2>2, <2>3 DEF Made
<1>3. UNCHANGED <<replied, received, inBuf, outBuf, dram, toXbar>> /\ young' = {}
  BY DEF CoreCycle, icntVars, dramVars
<1>4. \A c \in Core : \A r \in Elems(outbox'[c]) : CoreOf[r] = c /\ r \notin replied
  <2> TAKE c \in Core
  <2>1. n[c] \in Nat /\ made[c] \in Nat /\ made[c] + n[c] <= Len(Plan[c]) /\ Len(Plan[c]) \in Nat
    BY <1>0, <1>1, PlanFacts
  <2>2. PICK new \in Seq(Req) : /\ new = SubSeq(Plan[c], made[c] + 1, made[c] + n[c])
                                /\ \A x : x \in Elems(new) <=> \E i \in made[c] + 1..made[c] + n[c] : Plan[c][i] = x
    <3>1. /\ SubSeq(Plan[c], made[c] + 1, made[c] + n[c]) \in Seq(Req)
          /\ Distinct(SubSeq(Plan[c], made[c] + 1, made[c] + n[c]))
          /\ \A x : x \in Elems(SubSeq(Plan[c], made[c] + 1, made[c] + n[c])) <=>
                      \E i \in made[c] + 1..made[c] + n[c] : Plan[c][i] = x
      BY <2>1, MadeNext, ZenonT(30)
    <3>2. QED
      BY <3>1, Zenon
  <2>3. PICK q \in Seq(Req) : q = outbox[c]
    BY <1>0, QueueTypes
  <2>4. outbox'[c] = q \o new
    BY <1>1, <2>2, <2>3, Zenon
  <2>5. Elems(q \o new) = Elems(q) \cup Elems(new)
    BY ElemsConcat
  <2>6. \A r \in Elems(new) : CoreOf[r] = c /\ r \notin replied
    <3> TAKE r \in Elems(new)
    <3>1. PICK i \in made[c] + 1..made[c] + n[c] : Plan[c][i] = r
      BY <2>2
    <3>2. i \in 1..Len(Plan[c]) /\ ~(i <= made[c])
      <4>1. PICK a \in Nat, b \in Nat, l \in Nat : a = made[c] /\ b = n[c] /\ l = Len(Plan[c])
        BY <2>1
      <4>2. a + b <= l /\ i \in a + 1..a + b
        BY <2>1, <4>1
      <4>3. i \in 1..l /\ ~(i <= a)
        BY <4>2
      <4>4. QED
        BY <4>1, <4>3
    <3>3. CoreOf[r] = c /\ ~Made(r)
      BY <1>0, <3>1, <3>2, PlanFacts, MadeFacts
    <3>4. QED
      BY <3>3 DEF Routed
  <2>7. \A r \in Elems(q) : CoreOf[r] = c /\ r \notin replied
    BY <2>3 DEF Routed
  <2>8. \A r \in Elems(outbox'[c]) : r \in Elems(q) \/ r \in Elems(new)
    BY <2>4, <2>5, Zenon
  <2>9. QED
    BY <2>6, <2>7, <2>8
<1>5. \A m \in Channel : /\ \A r \in Elems(toMem'[m]) : r \notin replied
                         /\ \A r \in Elems(fromXbar'[m]) : r \notin replied
  <2> TAKE m \in Channel
  <2>1. PICK q \in Seq(Req), p \in Seq(Req) : q = fromXbar[m] /\ p = toMem[m]
    BY <1>0, QueueTypes
  <2>2. (\A r \in Elems(q) : r \notin replied) /\ (\A r \in Elems(p) : r \notin replied)
    BY <2>1 DEF Routed
  <2>3. CASE q = <<>>
    <3>1. toMem'[m] = p /\ fromXbar'[m] = q
      BY <2>1, <2>3 DEF CoreCycle
    <3>2. QED
      BY <2>2, <3>1
  <2>4. CASE q # <<>>
    <3>1. toMem'[m] = Append(p, q[1]) /\ fromXbar'[m] = Tail(q) /\ q[1] \in Req
      <4>1. Head(q) = q[1] /\ q[1] \in Req
        BY <2>4, HeadTailProperties
      <4>2. QED
        BY <2>1, <2>4, <4>1 DEF CoreCycle
    <3>2. Elems(Append(p, q[1])) = Elems(p) \cup {q[1]}
      BY <3>1, ElemsAppend
    <3>3. (\A x \in Elems(Tail(q)) : x \in Elems(q)) /\ q[1] \in Elems(q)
      BY <2>4, LessElems
    <3>4. QED
      BY <2>2, <3>1, <3>2, <3>3
  <2>5. QED
    BY <2>3, <2>4
<1>6. Fresh'
  BY <1>3 DEF Fresh
<1>7. \A r \in Req : Dest(r)' = Dest(r)
  BY <1>3 DEF Dest
<1>8. \A r \in replied : Made(r)'
  BY <1>0, <1>2 DEF Routed, TypeOK
<1>9. \A s, d \in Node : \A r \in Elems(Reqs(inBuf'[s][d])) : Dest(r)' = d
  <2>1. \A r : Dest(r)' = Dest(r)
    BY <1>3 DEF Dest
  <2>2. QED
    BY <1>3, <2>1 DEF Routed
<1>10. \A d \in Node : \A r \in Elems(outBuf'[d]) : Dest(r)' = d
  <2>1. \A r : Dest(r)' = Dest(r)
    BY <1>3 DEF Dest
  <2>2. QED
    BY <1>3, <2>1 DEF Routed
<1>11. /\ \A c \in Core : \A r \in Elems(received'[c]) : CoreOf[r] = c /\ r \in replied'
       /\ \A m \in Channel : \A r \in Elems(Reqs(dram'[m])) : r \notin replied'
       /\ \A m \in Channel : \A r \in Elems(toXbar'[m]) : r \in replied'
  BY <1>3 DEF Routed
<1>12. Routed'
  <2>1. \A s, d \in Node : Reqs(inBuf[s][d])' = Reqs(inBuf'[s][d])
    BY DEF Reqs
  <2>2. \A m \in Channel : Reqs(dram[m])' = Reqs(dram'[m])
    BY DEF Reqs
  <2>3. QED
    BY <1>3, <1>4, <1>5, <1>8, <1>9, <1>10, <1>11, <2>1, <2>2 DEF Routed
<1>13. QED
  BY <1>6, <1>12

\* What the DRAM hands back becomes a response, and was nowhere but in the DRAM.
LEMMA RoutedDramCycle ==
  ASSUME MemConfigAssumption, MemRequestAssumption, TypeInv, Kept, Routed, Fresh, DramCycle, Kept'
  PROVE  Routed' /\ Fresh'
<1>0. TypeOK
  BY DEF TypeInv
<1>1. /\ UNCHANGED <<made, outbox, inBuf, outBuf, fromXbar, received, young>>
      /\ \A m \in Channel : /\ toMem'[m] = IF Admit(m) THEN Tail(toMem[m]) ELSE toMem[m]
                            /\ dram'[m] = Leaving(m)
                            /\ toXbar'[m] = IF Arrived(m) THEN Append(toXbar[m], Head(Inside(m)).req) ELSE toXbar[m]
      /\ \A x : x \in replied' <=> x \in replied \/ \E m \in Channel : Arrived(m) /\ x = Head(Inside(m)).req
  BY DEF DramCycle, clockVars, sendVars, icntVars
<1>2. ASSUME NEW m \in Channel
      PROVE  /\ \A x \in Elems(toMem'[m]) : x \in Elems(toMem[m])
             /\ \A x \in Elems(Reqs(dram'[m])) : x \in Elems(Reqs(dram[m])) \/ x \in Elems(toMem[m])
             /\ Arrived(m) => /\ Head(Inside(m)).req \in Elems(Reqs(dram[m])) \/ Head(Inside(m)).req \in Elems(toMem[m])
                              /\ Head(Inside(m)).req \in Elems(toXbar'[m])
             /\ \A x \in Elems(toXbar'[m]) : x \in Elems(toXbar[m]) \/ (Arrived(m) /\ x = Head(Inside(m)).req)
  <2>1. /\ Inside(m) \in Seq(Cell) /\ Leaving(m) \in Seq(Cell)
        /\ Arrived(m) => Inside(m) # <<>> /\ Leaving(m) = Tail(Inside(m)) /\ Head(Inside(m)).req \in Req
        /\ ~Arrived(m) => Leaving(m) = Inside(m)
        /\ Reqs(Inside(m)) = IF Admit(m) THEN Append(Reqs(dram[m]), Head(toMem[m])) ELSE Reqs(dram[m])
        /\ Admit(m) => toMem[m] # <<>> /\ Head(toMem[m]) = toMem[m][1] /\ Head(toMem[m]) \in Req
    BY <1>0, DramTypes
  <2>2. PICK q \in Seq(Message), t \in Seq(Req), u \in Seq(Message), z \in Seq(Req) :
          q = Inside(m) /\ t = toMem[m] /\ u = dram[m] /\ z = toXbar[m]
    BY <1>0, <2>1, CellsAreMessages, QueueTypes
  <2>3. Reqs(u) \in Seq(Req) /\ Reqs(q) \in Seq(Req)
    BY ReqsType
  <2>4. \A x \in Elems(Reqs(q)) : x \in Elems(Reqs(u)) \/ x \in Elems(t)
    <3>1. CASE Admit(m)
      <4>1. PICK e \in Req : e = Head(toMem[m]) /\ e = t[1] /\ t # <<>>
        BY <2>1, <2>2, <3>1
      <4>2. Reqs(q) = Append(Reqs(u), e)
        BY <2>1, <2>2, <3>1, <4>1
      <4>3. Elems(Append(Reqs(u), e)) = Elems(Reqs(u)) \cup {e}
        BY <2>3, ElemsAppend
      <4>4. e \in Elems(t)
        BY <4>1, LessElems
      <4>5. QED
        BY <4>2, <4>3, <4>4
    <3>2. CASE ~Admit(m)
      BY <2>1, <2>2, <3>2
    <3>3. QED
      BY <3>1, <3>2
  <2>5. \A x \in Elems(toMem'[m]) : x \in Elems(toMem[m])
    <3>1. t # <<>> => \A x \in Elems(Tail(t)) : x \in Elems(t)
      BY LessElems
    <3>2. QED
      BY <1>1, <2>1, <2>2, <3>1
  <2>6. q # <<>> => Reqs(q) # <<>> /\ Reqs(Tail(q)) = Tail(Reqs(q)) /\ Reqs(q)[1] = Head(q).req
    BY ReqsMoves, ReqsType
  <2>7. \A x \in Elems(Reqs(Leaving(m))) : x \in Elems(Reqs(q))
    <3>1. CASE Arrived(m)
      <4>1. Reqs(Leaving(m)) = Tail(Reqs(q)) /\ Reqs(q) # <<>>
        BY <2>1, <2>2, <2>6, <3>1
      <4>2. \A x \in Elems(Tail(Reqs(q))) : x \in Elems(Reqs(q))
        BY <2>3, <4>1, LessElems
      <4>3. QED
        BY <4>1, <4>2
    <3>2. CASE ~Arrived(m)
      BY <2>1, <2>2, <3>2
    <3>3. QED
      BY <3>1, <3>2
  <2>8. ASSUME Arrived(m)
        PROVE  /\ Head(Inside(m)).req \in Elems(Reqs(dram[m])) \/ Head(Inside(m)).req \in Elems(toMem[m])
               /\ Head(Inside(m)).req \in Elems(toXbar'[m])
    <3>1. PICK e \in Req : e = Head(Inside(m)).req /\ e = Reqs(q)[1] /\ Reqs(q) # <<>>
      BY <2>1, <2>2, <2>6, <2>8
    <3>2. e \in Elems(Reqs(q))
      BY <2>3, <3>1, LessElems
    <3>3. Elems(Append(z, e)) = Elems(z) \cup {e}
      BY ElemsAppend
    <3>4. toXbar'[m] = Append(z, e)
      BY <1>1, <2>2, <2>8, <3>1, Zenon
    <3>5. QED
      BY <2>2, <2>4, <3>1, <3>2, <3>3, <3>4
  <2>9. \A x \in Elems(toXbar'[m]) : x \in Elems(toXbar[m]) \/ (Arrived(m) /\ x = Head(Inside(m)).req)
    <3>1. CASE Arrived(m)
      <4>1. PICK e \in Req : e = Head(Inside(m)).req
        BY <2>1, <3>1
      <4>2. Elems(Append(z, e)) = Elems(z) \cup {e}
        BY ElemsAppend
      <4>3. toXbar'[m] = Append(z, e)
        BY <1>1, <2>2, <3>1, <4>1, Zenon
      <4>4. QED
        BY <2>2, <3>1, <4>1, <4>2, <4>3
    <3>2. CASE ~Arrived(m)
      BY <1>1, <3>2
    <3>3. QED
      BY <3>1, <3>2
  <2>10. \A x \in Elems(Reqs(dram'[m])) : x \in Elems(Reqs(dram[m])) \/ x \in Elems(toMem[m])
    <3>1. dram'[m] = Leaving(m)
      BY <1>1
    <3>2. QED
      BY <2>2, <2>4, <2>7, <3>1
  <2>11. QED
    BY <2>5, <2>8, <2>9, <2>10
<1>3. \A x \in replied' : x \in replied \/ \E m \in Channel : x \in Elems(toXbar'[m])
  BY <1>1, <1>2
<1>4. Separate'
  BY AreSeparate
<1>5. \A s, d \in Node : Reqs(inBuf[s][d])' = Reqs(inBuf[s][d])
  BY <1>1 DEF Reqs
<1>6. \A m \in Channel : Reqs(dram[m])' = Reqs(dram'[m])
  BY DEF Reqs
<1>7. \A m \in Channel : \A x \in Elems(toXbar'[m]) :
        /\ \A c \in Core : x \notin Elems(outbox[c]) /\ x \notin Elems(received[c])
        /\ \A s, d \in Node : x \notin Elems(Reqs(inBuf[s][d]))
        /\ \A d \in Node : x \notin Elems(outBuf[d])
        /\ \A k \in Channel : x \notin Elems(fromXbar[k]) /\ x \notin Elems(toMem'[k]) /\ x \notin Elems(Reqs(dram'[k]))
  BY <1>1, <1>4, <1>5, <1>6 DEF Separate
<1>8. \A r : r \in replied => r \in replied'
  BY <1>1
<1>9. \A r : Made(r)' <=> Made(r)
  BY <1>1 DEF Made
<1>10. /\ \A c \in Core : \A r \in Elems(outbox'[c]) : CoreOf[r] = c /\ r \notin replied'
       /\ \A c \in Core : \A r \in Elems(received'[c]) : CoreOf[r] = c /\ r \in replied'
       /\ \A m \in Channel : \A r \in Elems(fromXbar'[m]) : r \notin replied'
  BY <1>1, <1>3, <1>7, <1>8 DEF Routed
<1>11. \A r : (r \in replied' <=> r \in replied) => Dest(r)' = Dest(r)
  BY DEF Dest
<1>12. \A s, d \in Node : \A r \in Elems(Reqs(inBuf[s][d])) : Dest(r)' = d
  <2> TAKE s, d \in Node
  <2> TAKE r \in Elems(Reqs(inBuf[s][d]))
  <2>1. r \in replied' <=> r \in replied
    BY <1>3, <1>7, <1>8
  <2>2. QED
    BY <1>11, <2>1 DEF Routed
<1>13. \A d \in Node : \A r \in Elems(outBuf[d]) : Dest(r)' = d
  <2> TAKE d \in Node
  <2> TAKE r \in Elems(outBuf[d])
  <2>1. r \in replied' <=> r \in replied
    BY <1>3, <1>7, <1>8
  <2>2. QED
    BY <1>11, <2>1 DEF Routed
<1>14. \A m \in Channel : \A r \in Elems(toMem'[m]) : r \notin replied'
  <2> TAKE m \in Channel
  <2> TAKE r \in Elems(toMem'[m])
  <2>1. r \in Elems(toMem[m])
    BY <1>2
  <2>2. QED
    BY <1>3, <1>7, <2>1 DEF Routed
<1>15. \A m \in Channel : \A r \in Elems(Reqs(dram'[m])) : r \notin replied'
  <2> TAKE m \in Channel
  <2> TAKE r \in Elems(Reqs(dram'[m]))
  <2>1. r \in Elems(Reqs(dram[m])) \/ r \in Elems(toMem[m])
    BY <1>2
  <2>2. r \notin replied
    BY <2>1 DEF Routed
  <2>3. QED
    BY <1>3, <1>7, <2>2
<1>16. \A m \in Channel : \A r \in Elems(toXbar'[m]) : r \in replied'
  <2> TAKE m \in Channel
  <2> TAKE r \in Elems(toXbar'[m])
  <2>1. r \in Elems(toXbar[m]) \/ (Arrived(m) /\ r = Head(Inside(m)).req)
    BY <1>2
  <2>2. QED
    BY <1>1, <2>1 DEF Routed
<1>17. \A r \in replied' : Made(r)
  <2> SUFFICES ASSUME NEW r \in replied', r \notin replied PROVE Made(r)
    BY DEF Routed
  <2>1. PICK m \in Channel : Arrived(m) /\ r = Head(Inside(m)).req
    BY <1>1
  <2>2. r \in Elems(Reqs(dram[m])) \/ r \in Elems(toMem[m])
    BY <1>2, <2>1
  <2>3. r \in Req
    BY <1>0, <2>1, DramTypes
  <2>4. PICK Q : Q = Queues
    OBVIOUS
  <2>5. View(Q)
    BY <2>4, Views
  <2>6. r \in Elems(Q[DramOf(m)]) \/ r \in Elems(Q[ToMemOf(m)])
    BY <2>2, <2>5 DEF View
  <2>7. \E w \in Stores : r \in Elems(Q[w])
    BY <2>6, AreStores
  <2>8. QED
    BY <2>3, <2>4, <2>7 DEF Kept
<1>18. Routed'
  BY <1>1, <1>5, <1>6, <1>9, <1>10, <1>12, <1>13, <1>14, <1>15, <1>16, <1>17 DEF Routed
<1>19. Fresh'
  <2>1. ASSUME NEW r \in young
        PROVE  /\ Made(r) /\ r \notin replied'
               /\ \A c \in Core : r \notin Elems(outbox[c])
               /\ \A m \in Channel : r \notin Elems(toMem'[m]) /\ r \notin Elems(Reqs(dram'[m]))
    <3>1. /\ Made(r) /\ r \notin replied
          /\ \A c \in Core : r \notin Elems(outbox[c])
          /\ \A m \in Channel : r \notin Elems(toMem[m]) /\ r \notin Elems(Reqs(dram[m]))
      BY DEF Fresh
    <3>2. QED
      BY <1>1, <1>2, <3>1
  <2>2. QED
    BY <1>1, <1>6, <1>9, <2>1 DEF Fresh
<1>20. QED
  BY <1>18, <1>19

\* What a core gets or a channel gets is for it.
LEMMA RoutedExchange ==
  ASSUME MemConfigAssumption, MemRequestAssumption, TypeInv, Kept, Routed, Fresh, Exchange, Kept'
  PROVE  Routed' /\ Fresh'
<1>0. TypeOK /\ Ports \in Nat /\ Offset \in Nat
  BY PortFacts DEF TypeInv, MemConfigAssumption
<1>1. /\ UNCHANGED <<made, toMem, dram, replied>>
      /\ \A c \in Core : /\ outbox'[c] = SubSeq(outbox[c], Ports + 1, Len(outbox[c]))
                         /\ received'[c] = received[c] \o Delivered(c)
      /\ \A s, d \in Node : inBuf'[s][d] = IF Entering(s) # <<>> /\ Dest(Head(Entering(s))) = d
                                           THEN PushTo(inBuf[s][d], Head(Entering(s))) ELSE inBuf[s][d]
      /\ \A d \in Node : outBuf'[d] = Popped(outBuf[d])
      /\ \A m \in Channel : fromXbar'[m] = fromXbar[m] \o FirstOf(outBuf[Offset + m]) /\ toXbar'[m] = Popped(toXbar[m])
      /\ young' = young \cup UNION {ToSet(Entering(p)) : p \in 0..(Offset - 1)}
  BY DEF Exchange
<1>2. \A c \in Core : \A x \in Elems(outbox'[c]) : x \in Elems(outbox[c])
  <2> TAKE c \in Core
  <2>1. PICK q \in Seq(Req) : q = outbox[c]
    BY <1>0, QueueTypes
  <2>2. \A x \in Elems(SubSeq(q, Ports + 1, Len(q))) : x \in Elems(q)
    BY <1>0, LessElems
  <2>3. QED
    BY <1>1, <2>1, <2>2, Zenon
<1>3. /\ \A d \in Node : \A x \in Elems(outBuf'[d]) : x \in Elems(outBuf[d])
      /\ \A m \in Channel : \A x \in Elems(toXbar'[m]) : x \in Elems(toXbar[m])
  <2>1. \A q \in Seq(Req) : \A x \in Elems(Popped(q)) : x \in Elems(q)
    BY LessElems
  <2>2. \A d \in Node : outBuf[d] \in Seq(Req)
    BY <1>0, QueueTypes
  <2>3. \A m \in Channel : toXbar[m] \in Seq(Req)
    BY <1>0, QueueTypes
  <2>4. QED
    BY <1>1, <2>1, <2>2, <2>3, Zenon
<1>4. \A r \in Req : r \in replied <=> Dest(r) < Offset
  <2> TAKE r \in Req
  <2>1. Dest(r) \in Node /\ (r \in replied => Dest(r) < Offset) /\ (r \notin replied => Dest(r) >= Offset)
    BY DestFacts
  <2>2. Dest(r) \in Nat
    BY <2>1, PortFacts
  <2>3. QED
    BY <1>0, <2>1, <2>2
<1>5. \A d \in Node : \A x \in Elems(outBuf[d]) : x \in Req /\ Dest(x) = d
  <2> TAKE d \in Node
  <2>1. Elems(outBuf[d]) \subseteq Req
    BY <1>0, QueueTypes, ElemsType
  <2>2. QED
    BY <2>1 DEF Routed
<1>6. \A c \in Core : \A x \in Elems(received'[c]) : CoreOf[x] = c /\ x \in replied
  <2> TAKE c \in Core
  <2>1. PICK q \in Seq(Req), e \in Seq(Req) :
          /\ q = received[c] /\ e = Delivered(c)
          /\ \A x : x \in Elems(e) <=> \E j \in 1..Ports : outBuf[PortOf(c, j)] # <<>> /\ x = outBuf[PortOf(c, j)][1]
    BY <1>0, QueueTypes, DeliveredFacts
  <2>2. Elems(q \o e) = Elems(q) \cup Elems(e)
    BY ElemsConcat
  <2>3. received'[c] = q \o e
    BY <1>1, <2>1, Zenon
  <2>4. \A x \in Elems(q) : CoreOf[x] = c /\ x \in replied
    BY <2>1 DEF Routed
  <2>5. \A x \in Elems(e) : CoreOf[x] = c /\ x \in replied
    <3> TAKE x \in Elems(e)
    <3>1. PICK j \in 1..Ports : outBuf[PortOf(c, j)] # <<>> /\ x = outBuf[PortOf(c, j)][1]
      BY <2>1
    <3>2. PortOf(c, j) \in 0..(Offset - 1) /\ PortOf(c, j) \in Node /\ CoreAt(PortOf(c, j)) = c
      BY PortFacts
    <3>3. PICK d \in Node : d = PortOf(c, j) /\ CoreAt(d) = c /\ d < Offset /\ outBuf[d] # <<>> /\ x = outBuf[d][1]
      BY <1>0, <3>1, <3>2
    <3>4. x \in Elems(outBuf[d])
      BY <1>0, <3>3, QueueTypes, LessElems
    <3>5. x \in Req /\ Dest(x) = d
      BY <1>5, <3>4
    <3>6. x \in replied
      BY <1>4, <3>3, <3>5
    <3>7. CoreAt(Dest(x)) = CoreOf[x]
      BY <3>5, <3>6, DestFacts
    <3>8. QED
      BY <3>3, <3>5, <3>6, <3>7
  <2>6. \A x \in Elems(received'[c]) : x \in Elems(q) \/ x \in Elems(e)
    BY <2>2, <2>3, Zenon
  <2>7. QED
    BY <2>4, <2>5, <2>6
<1>7. \A m \in Channel : \A x \in Elems(fromXbar'[m]) : x \notin replied
  <2> TAKE m \in Channel
  <2>1. PICK d \in Node : d = Offset + m /\ d >= Offset /\ d \in Nat
    BY PortFacts
  <2>2. PICK q \in Seq(Req), p \in Seq(Req) : q = fromXbar[m] /\ p = outBuf[d]
    BY <1>0, QueueTypes
  <2>3. FirstOf(p) \in Seq(Req) /\ \A x \in Elems(FirstOf(p)) : x \in Elems(p)
    BY FirstFacts, LessElems
  <2>4. Elems(q \o FirstOf(p)) = Elems(q) \cup Elems(FirstOf(p))
    BY <2>3, ElemsConcat
  <2>5. fromXbar'[m] = q \o FirstOf(p)
    BY <1>1, <2>1, <2>2, Zenon
  <2>6. \A x \in Elems(q) : x \notin replied
    BY <2>2 DEF Routed
  <2>7. \A x \in Elems(p) : x \notin replied
    BY <1>0, <1>4, <1>5, <2>1, <2>2
  <2>8. \A x \in Elems(fromXbar'[m]) : x \in Elems(q) \/ x \in Elems(FirstOf(p))
    BY <2>4, <2>5, Zenon
  <2>9. QED
    BY <2>3, <2>6, <2>7, <2>8
<1>8. \A s, d \in Node : /\ \A x \in Elems(Reqs(inBuf'[s][d])) : Dest(x) = d
                         /\ Entering(s) # <<>> /\ Dest(Head(Entering(s))) = d =>
                              Head(Entering(s)) \in Elems(Reqs(inBuf'[s][d]))
  <2> TAKE s, d \in Node
  <2>1. PICK q \in Seq(Message) : q = inBuf[s][d]
    BY <1>0, QueueTypes
  <2>2. \A x \in Elems(Reqs(q)) : Dest(x) = d
    BY <2>1 DEF Routed
  <2>3. CASE Entering(s) # <<>> /\ Dest(Head(Entering(s))) = d
    <3>1. PICK e \in Req : e = Head(Entering(s)) /\ Dest(e) = d
      BY <1>0, <2>3, EnteringFacts
    <3>2. Reqs(inBuf'[s][d]) = Append(Reqs(q), e)
      <4>1. Reqs(PushTo(q, e)) = Append(Reqs(q), e)
        BY PushedFacts
      <4>2. inBuf'[s][d] = PushTo(q, e)
        BY <1>1, <2>1, <2>3, <3>1
      <4>3. QED
        BY <4>1, <4>2, Zenon
    <3>3. Elems(Append(Reqs(q), e)) = Elems(Reqs(q)) \cup {e}
      BY ReqsType, ElemsAppend
    <3>4. QED
      BY <2>2, <3>1, <3>2, <3>3
  <2>4. CASE ~(Entering(s) # <<>> /\ Dest(Head(Entering(s))) = d)
    BY <1>1, <2>1, <2>2, <2>4
  <2>5. QED
    BY <2>3, <2>4
<1>9. \A r : (Made(r)' <=> Made(r)) /\ Dest(r)' = Dest(r)
  BY <1>1 DEF Made, Dest
<1>10. \A s, d \in Node : Reqs(inBuf[s][d])' = Reqs(inBuf'[s][d])
  BY DEF Reqs
<1>11. \A m \in Channel : Reqs(dram[m])' = Reqs(dram[m])
  BY <1>1 DEF Reqs
<1>12. Routed'
  <2>1. \A c \in Core : \A x \in Elems(outbox'[c]) : CoreOf[x] = c /\ x \notin replied
    BY <1>2 DEF Routed
  <2>2. \A d \in Node : \A x \in Elems(outBuf'[d]) : Dest(x) = d
    BY <1>3 DEF Routed
  <2>3. \A m \in Channel : \A x \in Elems(toXbar'[m]) : x \in replied
    BY <1>3 DEF Routed
  <2>4. /\ \A m \in Channel : \A x \in Elems(toMem[m]) : x \notin replied
        /\ \A m \in Channel : \A x \in Elems(Reqs(dram[m])) : x \notin replied
        /\ \A x \in replied : Made(x)
    BY DEF Routed
  <2>5. QED
    BY <1>1, <1>6, <1>7, <1>8, <1>9, <1>10, <1>11, <2>1, <2>2, <2>3, <2>4 DEF Routed
<1>13. Separate'
  BY AreSeparate
<1>14. \A r \in young' : \/ r \in young
                         \/ \E s \in Node : s < Offset /\ Entering(s) # <<>> /\ r = Head(Entering(s))
  <2> SUFFICES ASSUME NEW r \in young', r \notin young
               PROVE  \E s \in Node : s < Offset /\ Entering(s) # <<>> /\ r = Head(Entering(s))
    OBVIOUS
  <2>1. PICK p \in 0..(Offset - 1) : r \in ToSet(Entering(p))
    BY <1>1
  <2>2. p \in Node /\ p < Offset
    BY <1>0, PortFacts
  <2>3. Entering(p) # <<>>
    BY <2>1 DEF ToSet
  <2>4. PICK e \in Req : e = Head(Entering(p)) /\ Entering(p) = <<e>>
    BY <1>0, <2>2, <2>3, EnteringFacts
  <2>5. r = e
    BY <2>1, <2>4 DEF ToSet
  <2>6. QED
    BY <2>2, <2>3, <2>4, <2>5
<1>15. ASSUME NEW r \in young'
       PROVE  /\ Made(r) /\ r \notin replied
              /\ \A c \in Core : r \notin Elems(outbox'[c])
              /\ \A m \in Channel : r \notin Elems(toMem[m]) /\ r \notin Elems(Reqs(dram[m]))
  <2>1. CASE r \in young
    BY <1>2, <2>1 DEF Fresh
  <2>2. ASSUME NEW s \in Node, s < Offset, Entering(s) # <<>>, r = Head(Entering(s))
        PROVE  /\ Made(r) /\ r \notin replied
               /\ \A c \in Core : r \notin Elems(outbox'[c])
               /\ \A m \in Channel : r \notin Elems(toMem[m]) /\ r \notin Elems(Reqs(dram[m]))
    <3>1. r \in Req
      BY <1>0, <2>2, EnteringFacts
    <3>2. PICK d \in Node : d = Dest(r)
      BY <3>1, DestFacts
    <3>3. r \in Elems(Reqs(inBuf'[s][d]))
      BY <1>8, <2>2, <3>2
    <3>4. /\ \A c \in Core : r \notin Elems(outbox'[c])
          /\ \A m \in Channel : r \notin Elems(toMem[m]) /\ r \notin Elems(Reqs(dram[m]))
      BY <1>1, <1>10, <1>11, <1>13, <3>3 DEF Separate
    <3>5. PICK c \in Core : \E j \in 1..Len(outbox[c]) : r = outbox[c][j]
      <4>1. \A m \in Channel : s # Offset + m
        BY <1>0, <2>2, PortFacts
      <4>2. QED
        BY <1>0, <2>2, <4>1, EnterSource
    <3>6. r \in Elems(outbox[c])
      BY <3>5 DEF Elems
    <3>7. Made(r)
      <4>1. PICK Q : Q = Queues
        OBVIOUS
      <4>2. View(Q)
        BY <4>1, Views
      <4>3. r \in Elems(Q[OutboxOf(c)])
        BY <3>6, <4>2 DEF View
      <4>4. QED
        BY <3>1, <4>1, <4>3, AreStores DEF Kept
    <3>8. r \notin replied
      BY <3>6 DEF Routed
    <3>9. QED
      BY <3>4, <3>7, <3>8
  <2>3. QED
    BY <1>14, <2>1, <2>2
<1>16. Fresh'
  BY <1>1, <1>9, <1>11, <1>15 DEF Fresh
<1>17. QED
  BY <1>12, <1>16

\* A node takes what is meant for it.
LEMMA RoutedTick ==
  ASSUME MemConfigAssumption, MemRequestAssumption, TypeInv, Routed, Fresh, Tick
  PROVE  Routed' /\ Fresh'
<1>0. TypeOK
  BY DEF TypeInv
<1>1. /\ UNCHANGED <<made, outbox, received, fromXbar, toMem, dram, toXbar, replied, young>>
      /\ \A s, d \in Node : inBuf'[s][d] = Waited(LinkAfter(s, d))
      /\ \A d \in Node : outBuf'[d] = IF Chosen(d) = {} THEN outBuf[d]
                                      ELSE Append(outBuf[d], Head(inBuf[Least(Chosen(d))][d]).req)
  BY DEF Tick, clockVars, sendVars, dramVars, cacheVars, Waited, LinkAfter
<1>2. \A s, d \in Node : \A x \in Elems(Reqs(inBuf'[s][d])) : Dest(x) = d
  <2> TAKE s, d \in Node
  <2>1. PICK q \in Seq(Req) : q = Reqs(inBuf[s][d])
    BY <1>0, QueueTypes, ReqsType
  <2>2. \A x \in Elems(q) : Dest(x) = d
    BY <2>1 DEF Routed
  <2>3. Reqs(inBuf'[s][d]) = q \/ (q # <<>> /\ Reqs(inBuf'[s][d]) = Tail(q))
    <3>1. Reqs(inBuf'[s][d]) = Reqs(Waited(LinkAfter(s, d)))
      BY <1>1, Zenon
    <3>2. QED
      BY <1>0, <2>1, <3>1, LinkFacts
  <2>4. q # <<>> => \A x \in Elems(Tail(q)) : x \in Elems(q)
    BY LessElems
  <2>5. QED
    BY <2>2, <2>3, <2>4
<1>3. \A d \in Node : \A x \in Elems(outBuf'[d]) : Dest(x) = d
  <2> TAKE d \in Node
  <2>1. PICK q \in Seq(Req) : q = outBuf[d]
    BY <1>0, QueueTypes
  <2>2. \A x \in Elems(q) : Dest(x) = d
    BY <2>1 DEF Routed
  <2>3. CASE Chosen(d) = {}
    BY <1>1, <2>1, <2>2, <2>3
  <2>4. CASE Chosen(d) # {}
    <3>1. PICK s \in Node : s \in Chosen(d) /\ Least(Chosen(d)) = s
      BY <1>0, <2>4, ChosenOnce DEF Chosen
    <3>2. PICK p \in Seq(Req) : p = Reqs(inBuf[s][d]) /\ p # <<>> /\ Head(inBuf[s][d]).req = p[1] /\ p[1] \in Req
      BY <1>0, <3>1, LinkFacts, QueueTypes, ReqsType
    <3>3. p[1] \in Elems(p)
      BY <3>2, LessElems
    <3>4. Dest(p[1]) = d
      BY <3>2, <3>3 DEF Routed
    <3>5. outBuf'[d] = Append(q, p[1])
      <4>1. outBuf'[d] = Append(q, Head(inBuf[s][d]).req)
        BY <1>1, <2>1, <2>4, <3>1, Zenon
      <4>2. QED
        BY <3>2, <4>1, Zenon
    <3>6. Elems(Append(q, p[1])) = Elems(q) \cup {p[1]}
      BY <3>2, ElemsAppend
    <3>7. QED
      BY <2>2, <3>4, <3>5, <3>6
  <2>5. QED
    BY <2>3, <2>4
<1>4. \A r : (Made(r)' <=> Made(r)) /\ Dest(r)' = Dest(r)
  BY <1>1 DEF Made, Dest
<1>5. \A s, d \in Node : Reqs(inBuf[s][d])' = Reqs(inBuf'[s][d])
  BY DEF Reqs
<1>6. \A m \in Channel : Reqs(dram[m])' = Reqs(dram[m])
  BY <1>1 DEF Reqs
<1>7. Routed'
  BY <1>1, <1>2, <1>3, <1>4, <1>5, <1>6 DEF Routed
<1>8. Fresh'
  BY <1>1, <1>4, <1>6 DEF Fresh
<1>9. QED
  BY <1>7, <1>8

-------------------------------------------------------------------------------
(* The theorems *)

MemInv == TypeInv /\ Kept /\ Routed /\ Fresh

\* The invariant holds at first ...
LEMMA MemInvInit == ASSUME MemConfigAssumption, MemRequestAssumption, Init PROVE MemInv
BY TypeInit, KeptInit DEF MemInv

\* ... and every step keeps it.
LEMMA MemInvStep ==
  ASSUME MemConfigAssumption, MemRequestAssumption, MemInv, [Next]_vars
  PROVE  MemInv'
<1>0. TypeInv /\ Kept /\ Routed /\ Fresh
  BY DEF MemInv
<1>1. TypeInv'
  BY <1>0, TypeStep
<1>2. CASE UNCHANGED <<made, outbox, received, inBuf, outBuf, fromXbar, toMem, dram, toXbar, replied, young>>
  BY <1>0, <1>1, <1>2, Untouched DEF MemInv
<1>3. CASE CoreCycle
  BY <1>0, <1>1, <1>3, KeptCoreCycle, RoutedCoreCycle DEF MemInv
<1>4. CASE DramCycle
  BY <1>0, <1>1, <1>4, KeptDramCycle, RoutedDramCycle DEF MemInv
<1>5. CASE Exchange
  BY <1>0, <1>1, <1>5, KeptExchange, RoutedExchange DEF MemInv
<1>6. CASE Tick
  BY <1>0, <1>1, <1>6, KeptTick, RoutedTick DEF MemInv
<1>7. CASE Clock \/ Skip \/ UNCHANGED vars
  <2>1. UNCHANGED <<made, outbox, received, inBuf, outBuf, fromXbar, toMem, dram, toXbar, replied, young>>
    BY <1>7 DEF Clock, Skip, vars, sendVars, icntVars, dramVars, cacheVars
  <2>2. QED
    BY <1>2, <2>1
<1>8. QED
  BY <1>3, <1>4, <1>5, <1>6, <1>7 DEF Next

\* In every state the types are right, every request that has been made is in one queue, and
\* what is in a queue belongs there.
THEOREM MemInvHolds == Spec => []MemInv
<1>1. Init => MemInv
  BY MemConfig, MemRequests, MemInvInit
<1>2. MemInv /\ [Next]_vars => MemInv'
  BY MemConfig, MemRequests, MemInvStep
<1>3. QED
  BY <1>1, <1>2, PTL DEF Spec

\* A queue of the invariant holds each of its requests once.
LEMMA OnceEach ==
  ASSUME NEW q \in Seq(Req), NEW r
  PROVE  /\ Contains(q, r) <=> r \in Elems(q)
         /\ Distinct(q) /\ r \in Elems(q) => Count(q, r) = 1
<1>1. Contains(q, r) <=> r \in Elems(q)
  BY DEF Contains, Elems
<1>2. ASSUME Distinct(q), r \in Elems(q) PROVE Count(q, r) = 1
  <2>1. PICK n \in 1..Len(q) : q[n] = r
    BY <1>2 DEF Elems
  <2>2. {k \in 1..Len(q) : q[k] = r} = {n}
    BY <1>2, <2>1 DEF Distinct
  <2>3. QED
    BY <2>2, FS_Singleton DEF Count
<1>3. QED
  BY <1>1, <1>2

\* A request that has been made is at exactly one place, once, whatever hops it takes.
THEOREM RequestsKeptHolds == Spec => []RequestsKept
<1>1. MemInv => RequestsKept
  <2> SUFFICES ASSUME MemInv PROVE TypeOK /\ OnePlace
    BY DEF RequestsKept
  <2>1. TypeOK /\ Kept
    BY DEF MemInv, TypeInv
  <2>2. PICK Q : Q = Queues
    OBVIOUS
  <2>3. \A w \in Stores : Q[w] = Content(w) /\ Q[w] \in Seq(Req) /\ Distinct(Q[w])
    <3>1. \A w \in Stores : Q[w] \in Seq(Req)
      BY <2>1, <2>2, Views, ViewTypes
    <3>2. QED
      BY <2>1, <2>2, <3>1 DEF Queues, Kept, Apart
  <2>4. \A w \in Stores : \A r : /\ Contains(Content(w), r) <=> r \in Elems(Q[w])
                                 /\ r \in Elems(Q[w]) => Count(Content(w), r) = 1
    <3> TAKE w \in Stores
    <3>1. PICK q \in Seq(Req) : q = Q[w] /\ q = Content(w) /\ Distinct(q)
      BY <2>3
    <3>2. \A r : /\ Contains(q, r) <=> r \in Elems(q)
                 /\ r \in Elems(q) => Count(q, r) = 1
      BY <3>1, OnceEach
    <3>3. QED
      BY <3>1, <3>2, Zenon
  <2>5. ASSUME NEW r \in Req
        PROVE  LET places == {w \in Stores : Contains(Content(w), r)}
               IN  IF Made(r) THEN \E w \in Stores : places = {w} /\ Count(Content(w), r) = 1
                              ELSE places = {}
    <3> DEFINE places == {w \in Stores : Contains(Content(w), r)}
    <3>1. Made(r) <=> \E w \in Stores : r \in Elems(Q[w])
      BY <2>1, <2>2 DEF Kept
    <3>2. \A w : w \in places <=> w \in Stores /\ r \in Elems(Q[w])
      BY <2>4
    <3>3. CASE Made(r)
      <4>1. PICK w \in Stores : r \in Elems(Q[w])
        BY <3>1, <3>3
      <4>2. \A v \in Stores : r \in Elems(Q[v]) => v = w
        BY <2>1, <2>2, <4>1 DEF Kept, Apart
      <4>3. places = {w}
        BY <3>2, <4>1, <4>2
      <4>4. QED
        BY <2>4, <3>3, <4>1, <4>3
    <3>4. CASE ~Made(r)
      <4>1. places = {}
        BY <3>1, <3>2, <3>4
      <4>2. QED
        BY <3>4, <4>1
    <3>5. QED
      BY <3>3, <3>4
  <2>6. QED
    BY <2>1, <2>5 DEF OnePlace
<1>2. QED
  BY <1>1, MemInvHolds, PTL

-------------------------------------------------------------------------------
(* The memory system as the cores see it *)

\* Requests taken from a core and not answered are in neither of its queues.
WaitingIs ==
  \A r : r \in Waiting <=> /\ r \in Req /\ Made(r) /\ r \notin Elems(outbox[CoreOf[r]])
                           /\ \A c \in Core : r \notin Elems(received[c])
\* These hold before and after a step.
LEMMA WaitingFacts ==
  ASSUME MemRequestAssumption PROVE (TypeOK => WaitingIs) /\ (TypeOK' => WaitingIs')
<1>1. \A q \in Seq(Req) : ToSet(q) = Elems(q) /\ \A r : Contains(q, r) <=> r \in Elems(q)
  <2>1. \A q \in Seq(Req) : ToSet(q) = Elems(q)
    BY ToSetIsElems
  <2>2. QED
    BY <2>1, OnceEach
<1>2. \A r \in Req : CoreOf[r] \in Core
  BY PlanFacts
<1>3. ASSUME TypeOK PROVE WaitingIs
  <2>1. \A c \in Core : outbox[c] \in Seq(Req) /\ received[c] \in Seq(Req)
    BY <1>3 DEF TypeOK
  <2>2. \A r : r \in Answered <=> \E c \in Core : r \in Elems(received[c])
    BY <1>1, <2>1 DEF Answered
  <2>3. QED
    BY <1>1, <1>2, <2>1, <2>2 DEF Waiting, WaitingIs
<1>4. ASSUME TypeOK' PROVE WaitingIs'
  <2>1. \A c \in Core : outbox'[c] \in Seq(Req) /\ received'[c] \in Seq(Req)
    BY <1>4 DEF TypeOK
  <2>2. \A r : r \in Answered' <=> \E c \in Core : r \in Elems(received'[c])
    BY <1>1, <2>1 DEF Answered
  <2>3. QED
    BY <1>1, <1>2, <2>1, <2>2 DEF Waiting, WaitingIs
<1>5. QED
  BY <1>3, <1>4

\* What a core has received, as sets
Got == [c \in Core |-> ToSet(received[c])]

\* A cycle of the caches makes old what is young; what a core makes in it waits in its queue.
LEMMA ServiceCoreCycle ==
  ASSUME MemConfigAssumption, MemRequestAssumption, MemInv, MemInv', CoreCycle
  PROVE  Service!CacheCycle
<1>0. /\ TypeOK /\ TypeOK' /\ WaitingIs /\ WaitingIs'
      /\ \A c \in Core : made[c] \in Nat /\ made[c] <= Len(Plan[c])
  <2>1. TypeOK /\ TypeOK' /\ \A c \in Core : made[c] \in Nat /\ made[c] <= Len(Plan[c])
    BY DEF MemInv, TypeInv, TypeOK
  <2>2. QED
    BY <2>1, WaitingFacts
<1>1. PICK n \in [Core -> 0..Ports] :
        /\ \A c \in Core : made[c] + n[c] <= Len(Plan[c])
        /\ \A c \in Core : made'[c] = made[c] + n[c]
        /\ \A c \in Core : outbox'[c] = outbox[c] \o SubSeq(Plan[c], made[c] + 1, made[c] + n[c])
  BY DEF CoreCycle
<1>2. received' = received /\ young' = {}
  BY DEF CoreCycle
<1>3. \A c \in Core : n[c] \in Nat
  BY DEF MemConfigAssumption
<1>4. \A c \in Core : \A x : x \in Elems(outbox'[c]) <=>
         x \in Elems(outbox[c]) \/ \E i \in made[c] + 1..made[c] + n[c] : Plan[c][i] = x
  <2> TAKE c \in Core
  <2>1. PICK q \in Seq(Req), e \in Seq(Req) :
          /\ q = outbox[c] /\ e = SubSeq(Plan[c], made[c] + 1, made[c] + n[c])
          /\ \A x : x \in Elems(e) <=> \E i \in made[c] + 1..made[c] + n[c] : Plan[c][i] = x
    <3>1. PICK q \in Seq(Req) : q = outbox[c]
      BY <1>0 DEF TypeOK
    <3>2. made[c] \in Nat /\ n[c] \in Nat /\ made[c] + n[c] <= Len(Plan[c])
      BY <1>0, <1>1, <1>3
    <3>3. /\ SubSeq(Plan[c], made[c] + 1, made[c] + n[c]) \in Seq(Req)
          /\ \A x : x \in Elems(SubSeq(Plan[c], made[c] + 1, made[c] + n[c])) <=>
                      \E i \in made[c] + 1..made[c] + n[c] : Plan[c][i] = x
      BY <3>2, MadeNext, Zenon
    <3>4. QED
      BY <3>1, <3>3, Zenon
  <2>2. Elems(q \o e) = Elems(q) \cup Elems(e)
    BY ElemsConcat
  <2>3. outbox'[c] = q \o e
    BY <1>1, <2>1, Zenon
  <2>4. \A x : x \in Elems(outbox'[c]) <=> x \in Elems(q) \/ x \in Elems(e)
    BY <2>2, <2>3, Zenon
  <2>5. QED
    BY <2>1, <2>4, Zenon
<1>5. ASSUME NEW r \in Req PROVE r \in Waiting' <=> r \in Waiting
  <2>1. PICK c \in Core : c = CoreOf[r]
    BY PlanFacts
  <2>2. Len(Plan[c]) \in Nat /\ made[c] \in Nat /\ n[c] \in Nat /\ made[c] + n[c] <= Len(Plan[c])
    BY <1>0, <1>1, <1>3, PlanFacts
  <2>3. Made(r) <=> \E i \in 1..made[c] : Plan[c][i] = r
    BY <2>1 DEF Made
  <2>4. Made(r)' <=> \E i \in 1..made[c] + n[c] : Plan[c][i] = r
    BY <1>1, <2>1 DEF Made
  <2>5. Made(r)' <=> Made(r) \/ \E i \in made[c] + 1..made[c] + n[c] : Plan[c][i] = r
    BY <2>2, <2>3, <2>4
  <2>6. ASSUME NEW i \in made[c] + 1..made[c] + n[c], Plan[c][i] = r PROVE ~Made(r)
    <3>1. i \in 1..Len(Plan[c]) /\ ~(i <= made[c])
      BY <2>2
    <3>2. QED
      BY <2>2, <2>6, <3>1, MadeFacts
  <2>7. r \in Waiting <=> /\ Made(r) /\ r \notin Elems(outbox[c])
                          /\ \A d \in Core : r \notin Elems(received[d])
    BY <1>0, <2>1 DEF WaitingIs
  <2>8. r \in Waiting' <=> /\ Made(r)' /\ r \notin Elems(outbox'[c])
                           /\ \A d \in Core : r \notin Elems(received[d])
    BY <1>0, <1>2, <2>1 DEF WaitingIs
  <2>9. QED
    BY <1>4, <2>5, <2>6, <2>7, <2>8
<1>6. Waiting' = Waiting
  BY <1>5 DEF Waiting
<1>7. young \subseteq Waiting
  <2> SUFFICES ASSUME NEW r \in young PROVE r \in Waiting
    OBVIOUS
  <2>1. r \in Req /\ CoreOf[r] \in Core
    BY <1>0, PlanFacts DEF TypeOK
  <2>2. Made(r) /\ r \notin replied /\ \A c \in Core : r \notin Elems(outbox[c])
    BY DEF MemInv, Fresh
  <2>3. \A c \in Core : r \notin Elems(received[c])
    BY <2>2 DEF MemInv, Routed
  <2>4. QED
    BY <1>0, <2>1, <2>2, <2>3 DEF WaitingIs
<1>8. Waiting' \ young' = (Waiting \ young) \cup young
  BY <1>2, <1>6, <1>7
<1>9. Got' = Got
  BY <1>2 DEF Got
<1>10. QED
  BY <1>2, <1>8, <1>9 DEF Service!CacheCycle, Got

\* A turn of the interconnect takes requests from the cores and answers others, which were old.
LEMMA ServiceExchange ==
  ASSUME MemConfigAssumption, MemRequestAssumption, MemInv, MemInv', Exchange
  PROVE  \E taken, answered \in SUBSET Req : Service!Turn(taken, answered)
<1> DEFINE taken == UNION {ToSet(Entering(p)) : p \in 0..(Offset - 1)}
           answered == {r \in Req : \E c \in Core : r \in Elems(Delivered(c))}
<1>0. /\ TypeOK /\ TypeOK' /\ WaitingIs /\ WaitingIs' /\ Kept /\ Routed /\ Routed' /\ Fresh
      /\ Ports \in Nat /\ Offset \in Nat
  <2>1. TypeOK /\ TypeOK' /\ Kept /\ Routed /\ Routed' /\ Fresh
    BY DEF MemInv, TypeInv
  <2>2. QED
    BY <2>1, WaitingFacts, PortFacts DEF MemConfigAssumption
<1>1. /\ UNCHANGED <<made, replied>>
      /\ \A c \in Core : /\ outbox'[c] = SubSeq(outbox[c], Ports + 1, Len(outbox[c]))
                         /\ received'[c] = received[c] \o Delivered(c)
      /\ young' = young \cup taken
  BY DEF Exchange
<1>2. PICK Q : Q = Queues
  OBVIOUS
<1>3. View(Q) /\ Apart(Stores, Q) /\ \A r \in Req : \A w \in Stores : r \in Elems(Q[w]) => Made(r)
  BY <1>0, <1>2, Views DEF Kept
\* What is taken comes from the queue of its core ...
<1>4. \A r \in taken : r \in Req /\ \E c \in Core : r \in Elems(outbox[c])
  <2> SUFFICES ASSUME NEW r \in taken PROVE r \in Req /\ \E c \in Core : r \in Elems(outbox[c])
    OBVIOUS
  <2>1. PICK p \in 0..(Offset - 1) : r \in ToSet(Entering(p))
    OBVIOUS
  <2>2. p \in Node /\ p < Offset /\ Entering(p) # <<>>
    BY <1>0, <2>1, PortFacts DEF ToSet
  <2>3. PICK e \in Req : e = Head(Entering(p)) /\ Entering(p) = <<e>>
    BY <1>0, <2>2, EnteringFacts
  <2>4. r = e
    BY <2>1, <2>3 DEF ToSet
  <2>5. \A m \in Channel : p # Offset + m
    BY <1>0, <2>2, PortFacts
  <2>6. PICK c \in Core : \E j \in 1..Len(outbox[c]) : e = outbox[c][j]
    BY <1>0, <2>2, <2>3, <2>5, EnterSource
  <2>7. QED
    BY <2>4, <2>6 DEF Elems
<1>5. \A c \in Core : outbox[c] \in Seq(Req) /\ received[c] \in Seq(Req) /\ Delivered(c) \in Seq(Req)
  <2>1. \A c \in Core : outbox[c] \in Seq(Req) /\ received[c] \in Seq(Req)
    BY <1>0 DEF TypeOK
  <2>2. \A c \in Core : Delivered(c) \in Seq(Req)
    BY <1>0, DeliveredFacts
  <2>3. QED
    BY <2>1, <2>2
\* ... and the others stay in it.
<1>6. \A c \in Core : \A x : x \in Elems(outbox'[c]) => x \in Elems(outbox[c])
  <2> TAKE c \in Core
  <2>1. PICK q \in Seq(Req) : q = outbox[c]
    BY <1>5
  <2>2. \A x \in Elems(SubSeq(q, Ports + 1, Len(q))) : x \in Elems(q)
    BY <1>0, LessElems
  <2>3. QED
    BY <1>1, <2>1, <2>2, Zenon
<1>7. \A c \in Core : \A x \in Elems(outbox[c]) : x \in Elems(outbox'[c]) \/ x \in taken
  <2> TAKE c \in Core
  <2> TAKE x \in Elems(outbox[c])
  <2>1. PICK q \in Seq(Req) : q = outbox[c]
    BY <1>5
  <2>2. Distinct(q)
    BY <1>3, <2>1, AreStores DEF View, Apart
  <2>3. PICK i \in 1..Len(q) : q[i] = x
    BY <2>1 DEF Elems
  <2>4. CASE i \in 1..Ports
    <3>1. PICK p : p = PortOf(c, i) /\ p \in 0..(Offset - 1) /\ p \in Node
      BY <2>4, PortFacts
    <3>2. Entering(p) # <<>> /\ Head(Entering(p)) = x
      BY <1>0, <2>1, <2>3, <2>4, <3>1, EnterThere
    <3>3. Entering(p) = <<x>>
      BY <1>0, <3>1, <3>2, EnteringFacts
    <3>4. x \in ToSet(Entering(p))
      BY <3>3 DEF ToSet
    <3>5. QED
      BY <3>1, <3>4
  <2>5. CASE i \notin 1..Ports
    <3>1. PICK s : s = SubSeq(q, Ports + 1, Len(q))
      OBVIOUS
    <3>2. Elems(s) = Elems(q) \ {q[k] : k \in {n \in 1..Len(q) : n <= Ports}}
      <4>1. Hop(q, SubSeq(q, Ports + 1, Len(q)), {q[k] : k \in {n \in 1..Len(q) : n <= Ports}}, {})
        BY <1>0, <2>2, HopDrop
      <4>2. QED
        BY <3>1, <4>1 DEF Hop
    <3>3. x \in Elems(q)
      BY <2>1
    <3>4. x \notin {q[k] : k \in {n \in 1..Len(q) : n <= Ports}}
      BY <1>0, <2>2, <2>3, <2>5 DEF Distinct
    <3>5. x \in Elems(s)
      BY <3>2, <3>3, <3>4
    <3>6. outbox'[c] = s
      BY <1>1, <2>1, <3>1, Zenon
    <3>7. QED
      BY <3>5, <3>6
  <2>6. QED
    BY <2>4, <2>5
\* What arrives has been answered by a channel, and was under way to its core.
<1>8. \A c \in Core : \A x : x \in Elems(received'[c]) <=> x \in Elems(received[c]) \/ x \in Elems(Delivered(c))
  <2> TAKE c \in Core
  <2>1. PICK q \in Seq(Req), e \in Seq(Req) : q = received[c] /\ e = Delivered(c)
    BY <1>5
  <2>2. Elems(q \o e) = Elems(q) \cup Elems(e)
    BY ElemsConcat
  <2>3. received'[c] = q \o e
    BY <1>1, <2>1, Zenon
  <2>4. \A x : x \in Elems(received'[c]) <=> x \in Elems(q) \/ x \in Elems(e)
    BY <2>2, <2>3, Zenon
  <2>5. QED
    BY <2>1, <2>4, Zenon
<1>9. \A c \in Core : \A x \in Elems(Delivered(c)) : x \in Req /\ CoreOf[x] = c /\ x \in replied
  <2> TAKE c \in Core
  <2>1. Elems(Delivered(c)) \subseteq Req
    BY <1>5, ElemsType
  <2>2. replied' = replied
    BY <1>1
  <2>3. \A x \in Elems(received'[c]) : CoreOf[x] = c /\ x \in replied'
    BY <1>0 DEF Routed
  <2>4. QED
    BY <1>8, <2>1, <2>2, <2>3
<1>10. \A c \in Core : \A x \in Elems(Delivered(c)) : \E d \in Node : x \in Elems(outBuf[d])
  <2> TAKE c \in Core
  <2> TAKE x \in Elems(Delivered(c))
  <2>1. PICK j \in 1..Ports : outBuf[PortOf(c, j)] # <<>> /\ x = outBuf[PortOf(c, j)][1]
    BY <1>0, DeliveredFacts
  <2>2. PICK d \in Node : d = PortOf(c, j)
    BY PortFacts
  <2>3. outBuf[d] \in Seq(Req)
    BY <1>0, QueueTypes
  <2>4. QED
    BY <2>1, <2>2, <2>3, LessElems
<1>11. ASSUME NEW d \in Node, NEW x \in Elems(outBuf[d]), x \in Req
       PROVE  Made(x) /\ \A c \in Core : x \notin Elems(received[c])
  <2>1. OutBufOf(d) \in Stores /\ x \in Elems(Q[OutBufOf(d)])
    BY <1>3, AreStores DEF View
  <2>2. ASSUME NEW c \in Core, x \in Elems(received[c]) PROVE FALSE
    <3>1. ReceivedOf(c) \in Stores /\ x \in Elems(Q[ReceivedOf(c)])
      BY <1>3, <2>2, AreStores DEF View
    <3>2. ReceivedOf(c) = OutBufOf(d)
      BY <1>3, <2>1, <3>1 DEF Apart
    <3>3. QED
      BY <3>2, OtherKinds
  <2>3. QED
    BY <1>3, <1>11, <2>1, <2>2
<1>12. \A x \in answered : x \in Waiting /\ x \notin young /\ x \notin taken
  <2> SUFFICES ASSUME NEW x \in answered PROVE x \in Waiting /\ x \notin young /\ x \notin taken
    OBVIOUS
  <2>1. PICK c \in Core : x \in Elems(Delivered(c))
    OBVIOUS
  <2>2. x \in Req /\ x \in replied /\ CoreOf[x] = c
    BY <1>9, <2>1
  <2>3. Made(x) /\ \A k \in Core : x \notin Elems(received[k])
    BY <1>10, <1>11, <2>1, <2>2
  <2>4. \A k \in Core : x \notin Elems(outbox[k])
    BY <1>0, <2>2 DEF Routed
  <2>5. x \notin young
    BY <1>0, <2>2 DEF Fresh
  <2>6. x \notin taken
    BY <1>4, <2>4
  <2>7. x \in Waiting
    BY <1>0, <2>2, <2>3, <2>4 DEF WaitingIs
  <2>8. QED
    BY <2>5, <2>6, <2>7
\* What is taken has not been seen.
<1>13. \A x \in taken : /\ x \notin young /\ x \notin Waiting /\ \A c \in Core : x \notin Elems(received[c])
  <2> SUFFICES ASSUME NEW x \in taken
               PROVE  x \notin young /\ x \notin Waiting /\ \A c \in Core : x \notin Elems(received[c])
    OBVIOUS
  <2>1. PICK c \in Core : x \in Elems(outbox[c])
    BY <1>4
  <2>2. CoreOf[x] = c /\ x \notin replied
    BY <1>0, <2>1 DEF Routed
  <2>3. x \notin young
    BY <1>0, <2>1 DEF Fresh
  <2>4. \A k \in Core : x \notin Elems(received[k])
    BY <1>0, <2>2 DEF Routed
  <2>5. x \notin Waiting
    BY <1>0, <2>1, <2>2 DEF WaitingIs
  <2>6. QED
    BY <2>3, <2>4, <2>5
\* What waits and is old goes on waiting, save what is answered.
<1>14. \A x : x \in Waiting' /\ x \notin young' <=> x \in Waiting /\ x \notin young /\ x \notin answered
  <2> TAKE x
  <2>1. Made(x)' <=> Made(x)
    BY <1>1 DEF Made
  <2>2. CASE x \in Req
    <3>1. PICK c \in Core : c = CoreOf[x]
      BY <2>2, PlanFacts
    <3>2. x \in Waiting <=> Made(x) /\ x \notin Elems(outbox[c]) /\ \A d \in Core : x \notin Elems(received[d])
      BY <1>0, <2>2, <3>1 DEF WaitingIs
    <3>3. x \in Waiting' <=> Made(x) /\ x \notin Elems(outbox'[c]) /\ \A d \in Core : x \notin Elems(received'[d])
      BY <1>0, <2>1, <2>2, <3>1 DEF WaitingIs
    <3>4. x \in answered <=> \E d \in Core : x \in Elems(Delivered(d))
      BY <2>2
    <3>5. x \in young' <=> x \in young \/ x \in taken
      BY <1>1
    <3>6. x \in taken => x \notin Waiting
      BY <1>13
    <3>7. x \in Elems(outbox'[c]) => x \in Elems(outbox[c])
      BY <1>6
    <3>8. x \in Elems(outbox[c]) => x \in Elems(outbox'[c]) \/ x \in taken
      BY <1>7
    <3>9. \A d \in Core : x \in Elems(received'[d]) <=> x \in Elems(received[d]) \/ x \in Elems(Delivered(d))
      BY <1>8
    <3> HIDE DEF taken, answered
    <3>10. QED
      BY <3>2, <3>3, <3>4, <3>5, <3>6, <3>7, <3>8, <3>9
  <2>3. CASE x \notin Req
    BY <1>0, <2>3 DEF WaitingIs
  <2>4. QED
    BY <2>2, <2>3
\* Each core gets its own responses.
<1>15. \A c \in Core : ToSet(received'[c]) = ToSet(received[c]) \cup {r \in answered : CoreOf[r] = c}
  <2> TAKE c \in Core
  <2>1. ToSet(received[c]) = Elems(received[c])
    BY <1>5, ToSetIsElems
  <2>2. received'[c] \in Seq(Req)
    BY <1>0 DEF TypeOK
  <2>3. ToSet(received'[c]) = Elems(received'[c])
    BY <2>2, ToSetIsElems
  <2>4. \A x : x \in Elems(Delivered(c)) <=> x \in answered /\ CoreOf[x] = c
    BY <1>9
  <2> HIDE DEF answered
  <2>5. \A x : x \in ToSet(received'[c]) <=> x \in ToSet(received[c]) \/ (x \in answered /\ CoreOf[x] = c)
    BY <1>8, <2>1, <2>3, <2>4
  <2>6. QED
    BY <2>5
<1>16. taken \in SUBSET Req /\ answered \in SUBSET Req
  BY <1>4
<1> HIDE DEF taken, answered
<1>17. \A r \in taken : r \notin young \cup (Waiting \ young) \cup UNION {Got[c] : c \in Core}
  <2> TAKE r \in taken
  <2>1. \A c \in Core : Got[c] = Elems(received[c])
    BY <1>5, ToSetIsElems DEF Got
  <2>2. \A c \in Core : r \notin Got[c]
    BY <1>13, <2>1
  <2>3. QED
    BY <1>13, <2>2
<1>18. Waiting' \ young' = (Waiting \ young) \ answered
  BY <1>14
<1>19. Got' = [c \in Core |-> Got[c] \cup {r \in answered : CoreOf[r] = c}]
  BY <1>15 DEF Got
<1>20. answered \subseteq Waiting \ young
  BY <1>12
<1>21. Service!Turn(taken, answered)
  BY <1>1, <1>17, <1>18, <1>19, <1>20 DEF Service!Turn, Service!Unseen, Got
<1>22. QED
  BY <1>16, <1>21

\* Steps that only move requests on the way
LEMMA ServiceQuiet ==
  ASSUME UNCHANGED <<made, outbox, received, young>>
  PROVE  UNCHANGED <<young, Waiting \ young, Got>>
<1>1. \A r : Made(r)' <=> Made(r)
  BY DEF Made
<1>2. Answered' = Answered
  BY DEF Answered
<1>3. \A r : r \in Waiting' <=> r \in Waiting
  BY <1>1, <1>2 DEF Waiting
<1>4. (Waiting \ young)' = Waiting \ young
  BY <1>3
<1>5. Got' = Got
  BY DEF Got
<1>6. QED
  BY <1>4, <1>5

\* Every step is a step of the service or none.
LEMMA ServiceStep ==
  ASSUME MemConfigAssumption, MemRequestAssumption, MemInv, MemInv', [Next]_vars
  PROVE  [Service!Next]_<<young, Waiting \ young, Got>>
<1>1. CASE CoreCycle
  BY <1>1, ServiceCoreCycle DEF Service!Next
<1>2. CASE Exchange
  BY <1>2, ServiceExchange DEF Service!Next
<1>3. CASE UNCHANGED <<made, outbox, received, young>>
  BY <1>3, ServiceQuiet
<1>4. CASE Clock \/ Skip \/ DramCycle \/ Tick \/ UNCHANGED vars
  <2>1. UNCHANGED <<made, outbox, received, young>>
    BY <1>4 DEF Clock, Skip, DramCycle, Tick, vars, sendVars
  <2>2. QED
    BY <1>3, <2>1
<1>5. QED
  BY <1>1, <1>2, <1>4 DEF Next

\* At first nothing has been taken or answered.
LEMMA ServiceInit == ASSUME MemRequestAssumption, Init PROVE Service!Init
<1>1. young = {} /\ \A c \in Core : made[c] = 0 /\ received[c] = <<>>
  BY DEF Init
<1>2. \A r \in Req : ~Made(r)
  BY <1>1, PlanFacts DEF Made
<1>3. Waiting = {}
  BY <1>2 DEF Waiting
<1>4. Got = [c \in Core |-> {}]
  BY <1>1 DEF Got, ToSet
<1>5. QED
  BY <1>1, <1>3, <1>4 DEF Service!Init, Got

\* The memory system does for the cores what they rely on: a response comes to the core that
\* made the request, once, and only after the caches have had a cycle since it was taken.
THEOREM MemImplementsService == Spec => ServiceSpec
<1>1. Init => Service!Init
  BY MemRequests, ServiceInit
<1>2. MemInv /\ MemInv' /\ [Next]_vars => [Service!Next]_<<young, Waiting \ young, Got>>
  BY MemConfig, MemRequests, ServiceStep
<1>3. QED
  BY <1>1, <1>2, MemInvHolds, PTL DEF Spec, ServiceSpec, Service!Spec, Service!vars, Got

-------------------------------------------------------------------------------
(* Transfers *)

\* What a line is: DramReqSize is a number, all that the proofs need of it.
LEMMA LineFacts ==
  ASSUME AddressAssumption, NEW a \in Nat
  PROVE  /\ DramReqSize \in Nat \ {0} /\ a \div DramReqSize \in Nat
         /\ Line(a) = DramReqSize * (a \div DramReqSize) /\ Line(a) \in Nat
         /\ Line(a) <= a /\ a < Line(a) + DramReqSize
<1>1. PICK D \in Nat \ {0} : D = DramReqSize
  BY DEF AddressAssumption
<1>2. PICK q \in Nat, r \in Nat : q = a \div D /\ r = a % D /\ r < D /\ a = D * q + r
  BY Divided
<1>3. Line(a) = a - r
  BY <1>1, <1>2 DEF Line
<1>4. PICK m \in Nat : m = D * q
  BY <1>1, <1>2, Multiples
<1>5. QED
  BY <1>1, <1>2, <1>3, <1>4

\* The elements of a transfer have addresses.
LEMMA AddressFacts ==
  ASSUME NEW t \in Transfer, NEW e \in Elements(t)
  PROVE  /\ e[1] \in Nat /\ e[1] < t.rows /\ e[2] \in Nat /\ e[2] < t.columns
         /\ ElementOffset(t, e) \in Nat /\ Address(t, ElementOffset(t, e)) \in Nat
<1>1. /\ t.base \in Nat /\ t.rows \in Nat \ {0} /\ t.columns \in Nat \ {0} /\ t.rowStride \in Nat
      /\ t.columnStride \in Nat /\ t.bits \in Nat \ {0}
  BY DEF Transfer
<1>2. e[1] \in Nat /\ e[1] < t.rows /\ e[2] \in Nat /\ e[2] < t.columns
  BY <1>1 DEF Elements
<1>3. e[1] * t.rowStride \in Nat /\ e[2] * t.columnStride \in Nat
  BY <1>1, <1>2, Multiples
<1>4. PICK o \in Nat : o = ElementOffset(t, e)
  BY <1>3 DEF ElementOffset
<1>5. o * t.bits \in Nat
  BY <1>1, <1>4, Multiples
<1>6. (t.base + o * t.bits + 7) \div 8 \in Nat
  BY <1>1, <1>5
<1>7. QED
  BY <1>2, <1>4, <1>6 DEF Address

\* The addresses are finitely many numbers, so they stand in a row.
LEMMA AddressesFinite ==
  ASSUME AddressAssumption, NEW t \in Transfer
  PROVE  /\ DramAddresses(t) \in SUBSET Nat /\ IsFiniteSet(DramAddresses(t))
         /\ RequestsOf(t) = Ranked(DramAddresses(t))
<1>1. DramAddresses(t) \in SUBSET Nat
  <2>1. \A e \in Elements(t) : Line(Address(t, ElementOffset(t, e))) \in Nat
    BY AddressFacts, LineFacts
  <2>2. QED
    BY <2>1 DEF DramAddresses
<1>2. IsFiniteSet(Elements(t))
  <2>1. t.rows \in Nat /\ t.columns \in Nat
    BY DEF Transfer
  <2>2. PICK m \in Int, n \in Int : m = t.rows - 1 /\ n = t.columns - 1
    BY <2>1
  <2>3. IsFiniteSet(0..m) /\ IsFiniteSet(0..n)
    BY FS_Interval
  <2>4. IsFiniteSet((0..m) \X (0..n))
    BY <2>3, FS_Product
  <2>5. QED
    BY <2>2, <2>4 DEF Elements
<1>3. IsFiniteSet(DramAddresses(t))
  <2>1. PICK f : f = [e \in Elements(t) |-> Line(Address(t, ElementOffset(t, e)))]
    OBVIOUS
  <2>2. f \in Surjection(Elements(t), DramAddresses(t))
    BY <2>1 DEF Surjection, DramAddresses
  <2>3. QED
    BY <1>2, <2>2, FS_Surjection
<1>4. RequestsOf(t) = Ranked(DramAddresses(t))
  BY DEF RequestsOf, Ranked
<1>5. QED
  BY <1>1, <1>3, <1>4

\* Elements of w bytes at multiples of w, in lines of a multiple of w: none reaches into the next line.
LEMMA InOneLine ==
  ASSUME AddressAssumption, NEW w \in Nat \ {0}, NEW a \in Nat, a % w = 0, DramReqSize % w = 0
  PROVE  a + w <= Line(a) + DramReqSize
<1>1. PICK D \in Nat \ {0} : D = DramReqSize
  BY DEF AddressAssumption
<1>2. PICK n \in Nat : D = w * n
  <2>1. D = w * (D \div w) + (D % w) /\ D \div w \in Nat /\ D % w = 0
    BY <1>1, Divided
  <2>2. w * (D \div w) \in Nat
    BY <2>1, Multiples
  <2>3. D = w * (D \div w)
    BY <2>1, <2>2
  <2>4. QED
    BY <2>1, <2>3
<1>3. PICK k \in Nat : a = w * k
  <2>1. a = w * (a \div w) + (a % w) /\ a \div w \in Nat
    BY Divided
  <2>2. w * (a \div w) \in Nat
    BY <2>1, Multiples
  <2>3. a = w * (a \div w)
    BY <2>1, <2>2
  <2>4. QED
    BY <2>1, <2>3
<1>4. PICK q \in Nat, l \in Nat : l = Line(a) /\ l = D * q /\ l <= a /\ a < l + D
  BY <1>1, LineFacts
<1>5. l + D = w * (n * q + n) /\ n * q + n \in Nat
  <2>1. PICK m \in Nat : m = n * q
    BY Multiples
  <2>2. D * q = w * m
    BY <1>2, <2>1
  <2>3. w * (m + n) = w * m + w * n
    BY <2>1, Multiples
  <2>4. QED
    BY <1>2, <1>4, <2>1, <2>2, <2>3
<1>6. w * k + w <= w * (n * q + n)
  BY <1>3, <1>4, <1>5, Multiples
<1>7. QED
  BY <1>1, <1>3, <1>4, <1>5, <1>6

\* Element o of a tensor of w bytes each, which starts at the y-th multiple of eight elements: moved down by seven
\* eighths of the base it is element y + o from zero.
LEMMA Displaced ==
  ASSUME NEW t \in Transfer, NEW e \in Elements(t), NEW w \in Nat \ {0}, NEW y \in Nat,
         t.bits = 8 * w, t.base = t.bits * y
  PROVE  ElementByte(t, e) - Displacement(t) = w * (y + ElementOffset(t, e))
<1>1. PICK o \in Nat : o = ElementOffset(t, e)
  BY AddressFacts
<1>2. PICK v \in Nat, x \in Nat : v = w * y /\ x = w * o
  BY Multiples
<1>3. w * (y + o) = v + x
  BY <1>1, <1>2, Multiples
<1>4. t.base = 8 * v
  <2>1. (8 * w) * y = 8 * (w * y)
    OBVIOUS
  <2>2. QED
    BY <1>2, <2>1
<1>5. o * t.bits = 8 * x
  <2>1. o * (8 * w) = 8 * (w * o)
    OBVIOUS
  <2>2. QED
    BY <1>2, <2>1
<1>6. ElementByte(t, e) = 8 * v + x
  BY <1>1, <1>2, <1>4, <1>5 DEF ElementByte
<1>7. Displacement(t) = 8 * v - v
  BY <1>2, <1>4 DEF Displacement
<1>8. QED
  BY <1>1, <1>2, <1>3, <1>6, <1>7

\* Every byte of an aligned transfer, moved down with its base, is in one of its lines.
LEMMA AllCovered ==
  ASSUME AddressAssumption, NEW t \in Transfer, Aligned(t)
  PROVE  Covered(t, DramAddresses(t), Displacement(t))
<1>1. PICK b \in Nat \ {0}, z \in Nat : b = t.bits /\ z = t.base /\ b % 8 = 0 /\ z % b = 0 /\ DramReqSize % (b \div 8) = 0
  BY DEF Transfer, Aligned
<1>2. PICK w \in Nat \ {0} : w = b \div 8 /\ b = 8 * w
  BY <1>1
<1>3. Ceiling(t.bits, 8) = w
  BY <1>1, <1>2 DEF Ceiling
<1>4. PICK y \in Nat : z = b * y
  <2>1. z = b * (z \div b) + (z % b) /\ z \div b \in Nat
    BY <1>1, Divided
  <2>2. b * (z \div b) \in Nat
    BY <1>1, <2>1, Multiples
  <2>3. z = b * (z \div b)
    BY <1>1, <2>1, <2>2
  <2>4. QED
    BY <2>1, <2>3
<1>5. ASSUME NEW e \in Elements(t)
      PROVE  \E a \in DramAddresses(t) : LET first == ElementByte(t, e) - Displacement(t)
                                         IN a <= first /\ first + Ceiling(t.bits, 8) <= a + DramReqSize
  <2>1. PICK o \in Nat, f \in Nat : o = ElementOffset(t, e) /\ f = Address(t, o)
    BY AddressFacts
  <2>2. f = w * (y + o)
    <3>1. PICK u \in Nat : u = w * (y + o)
      BY Multiples
    <3>2. z + o * b = 8 * u
      <4>1. PICK v \in Nat, x \in Nat : v = w * y /\ x = w * o
        BY Multiples
      <4>2. u = v + x
        BY <3>1, <4>1, Multiples
      <4>3. b * y = 8 * v
        <5>1. (8 * w) * y = 8 * (w * y)
          OBVIOUS
        <5>2. QED
          BY <1>2, <4>1, <5>1
      <4>5. o * b = 8 * x
        <5>1. o * (8 * w) = 8 * (w * o)
          OBVIOUS
        <5>2. QED
          BY <1>2, <4>1, <5>1
      <4>4. QED
        BY <1>4, <4>2, <4>3, <4>5
    <3>3. f = (z + o * b + 7) \div 8
      BY <1>1, <2>1 DEF Address
    <3>4. (8 * u + 7) \div 8 = u
      BY <3>1
    <3>5. PICK p \in Nat : p = o * b
      BY <1>1, <2>1, Multiples
    <3>6. f = (8 * u + 7) \div 8
      BY <3>2, <3>3, <3>5
    <3>7. QED
      BY <3>1, <3>4, <3>6
  <2>3. f % w = 0
    <3>1. PICK k \in Nat : k = y + o
      OBVIOUS
    <3>a. f \div w \in Nat /\ f % w \in Nat /\ f % w < w /\ f = w * (f \div w) + (f % w)
      BY Divided
    <3>2. PICK q \in Nat, r \in Nat : q = f \div w /\ r = f % w /\ r < w /\ f = w * q + r
      BY <3>a
    <3>3. f = w * k
      BY <2>2, <3>1
    <3>4. w * q < w * k + w /\ w * k < w * q + w
      <4>1. PICK m \in Nat, n \in Nat : m = w * q /\ n = w * k
        BY <3>1, <3>2, Multiples
      <4>2. QED
        BY <3>2, <3>3, <4>1
    <3>5. q <= k /\ k <= q
      BY <3>1, <3>2, <3>4, Multiples
    <3>6. q = k
      BY <3>1, <3>2, <3>5
    <3>7. QED
      BY <3>2, <3>3, <3>6
  <2>4. f + w <= Line(f) + DramReqSize /\ Line(f) <= f
    BY <1>1, <1>2, <2>3, InOneLine, LineFacts
  <2>5. Line(f) \in DramAddresses(t)
    BY <2>1 DEF DramAddresses
  <2>6. ElementByte(t, e) - Displacement(t) = f
    <3>1. t.bits = 8 * w /\ t.base = t.bits * y
      BY <1>1, <1>2, <1>4
    <3>2. ElementByte(t, e) - Displacement(t) = w * (y + ElementOffset(t, e))
      BY <1>5, <3>1, Displaced
    <3>3. QED
      BY <2>1, <2>2, <3>2
  <2>7. QED
    BY <1>3, <2>1, <2>4, <2>5, <2>6
<1>6. QED
  BY <1>5 DEF Covered

\* A row of neighbouring elements starts in some line, and takes as many more as its bytes need.
LEMMA RowLines ==
  ASSUME AddressAssumption, NEW t \in Transfer, t.columnStride = 1, NEW i \in 0..(t.rows - 1)
  PROVE  \E q \in Nat, c \in Nat :
           /\ c = Ceiling(t.columns * t.bits, 8 * DramReqSize)
           /\ \A e \in Elements(t) : e[1] = i =>
                \E k \in 0..c : Line(Address(t, ElementOffset(t, e))) = DramReqSize * (q + k)
<1>1. PICK D \in Nat \ {0}, b \in Nat \ {0}, n \in Nat \ {0}, z \in Nat, s \in Nat :
        D = DramReqSize /\ b = t.bits /\ n = t.columns /\ z = t.base /\ s = t.rowStride
  BY DEF AddressAssumption, Transfer
<1>2. PICK P \in Nat \ {0}, size \in Nat \ {0}, c \in Nat : P = 8 * D /\ size = n * b /\ c = (size + P - 1) \div P
  <2>1. 8 * D \in Nat \ {0}
    OBVIOUS
  <2>2. n * b \in Nat \ {0}
    <3>1. b * 0 < b * n
      <4>1. b * 1 <= b * n
        BY Multiples
      <4>2. QED
        BY <4>1, Multiples
    <3>2. QED
      BY <3>1, Multiples
  <2>3. PICK P \in Nat \ {0}, size \in Nat \ {0} : P = 8 * D /\ size = n * b
    BY <2>1, <2>2
  <2>4. (size + P - 1) \div P \in Nat
    <3>1. size + P - 1 \in Nat
      OBVIOUS
    <3>2. QED
      BY <3>1, Divided
  <2>5. QED
    BY <2>3, <2>4
<1>3. c = Ceiling(t.columns * t.bits, 8 * DramReqSize)
  BY <1>1, <1>2 DEF Ceiling
<1>4. PICK m \in Nat : m = P * c /\ size <= m
  <2>1. PICK x \in Nat : x = size + P - 1
    OBVIOUS
  <2>2. c = x \div P /\ x = P * (x \div P) + (x % P) /\ x % P \in Nat /\ x % P < P
    BY <1>2, <2>1, Divided
  <2>3. PICK m \in Nat : m = P * c
    BY Multiples
  <2>4. QED
    BY <2>1, <2>2, <2>3
\* y + 7 is the position of the row in bits, a its address, q its first line.
<1>5. PICK y \in Nat : y = z + (i * s) * b
  <2>1. i \in Nat
    BY DEF Transfer
  <2>2. (i * s) * b \in Nat
    BY <2>1, Multiples
  <2>3. QED
    BY <2>2
<1>6. PICK a \in Nat, q \in Nat, h \in Nat :
        a = (y + 7) \div 8 /\ y + 7 <= 8 * a + 7 /\ h = D * q /\ a < h + D /\ h <= a
  <2>1. PICK a \in Nat : a = (y + 7) \div 8 /\ y + 7 <= 8 * a + 7
    OBVIOUS
  <2>2. a \div D \in Nat /\ a = D * (a \div D) + (a % D) /\ a % D \in Nat /\ a % D < D
    BY Divided
  <2>3. PICK q \in Nat : q = a \div D
    BY <2>2
  <2>4. PICK h \in Nat : h = D * q
    BY Multiples
  <2>5. QED
    BY <2>1, <2>2, <2>3, <2>4
<1>7. ASSUME NEW e \in Elements(t), e[1] = i
      PROVE  \E k \in 0..c : Line(Address(t, ElementOffset(t, e))) = D * (q + k)
  <2>1. PICK j \in Nat : j = e[2] /\ j < n
    BY <1>1, AddressFacts
  <2>2. PICK u \in Nat : u = j * b /\ u + b <= size
    <3>1. b * j + b <= b * n
      <4>1. j + 1 <= n
        BY <2>1
      <4>2. b * (j + 1) <= b * n /\ b * (j + 1) = b * j + b
        BY <4>1, Multiples
      <4>3. QED
        BY <4>2
    <3>2. b * j = j * b /\ b * n = n * b /\ j * b \in Nat
      BY Multiples
    <3>3. QED
      BY <1>2, <3>1, <3>2
  <2>3. PICK f \in Nat : f = Address(t, ElementOffset(t, e)) /\ f = (y + u + 7) \div 8
    <3>1. ElementOffset(t, e) = i * s + j
      BY <1>1, <1>7, <2>1 DEF ElementOffset
    <3>2. PICK o \in Nat : o = i * s
      BY Multiples DEF Transfer
    <3>3. (o + j) * b = o * b + j * b
      BY Multiples
    <3>4. Address(t, ElementOffset(t, e)) = (z + (o + j) * b + 7) \div 8
      BY <1>1, <3>1, <3>2 DEF Address
    <3>5. PICK v \in Nat, w \in Nat : v = o * b /\ w = (o + j) * b
      BY Multiples
    <3>6. z + w = y + u
      BY <1>5, <2>2, <3>2, <3>3, <3>5
    <3>7. QED
      BY <3>4, <3>5, <3>6
  <2>4. 8 * f <= y + u + 7 /\ y + u + 7 <= 8 * f + 7
    BY <2>3
  <2>5. PICK r \in Nat, g \in Nat : g = Line(f) /\ g = D * r /\ g <= f /\ f < g + D
    BY <1>1, LineFacts
  <2>6. q <= r
    <3>1. h < g + D
      BY <1>6, <2>4, <2>5
    <3>2. QED
      BY <1>6, <2>5, <3>1, Multiples
  <2>7. r <= q + c
    <3>1. 8 * g < 8 * h + 8 * D + m
      BY <1>4, <1>6, <2>2, <2>4, <2>5
    <3>2. P * r = 8 * g
      <4>1. (8 * D) * r = 8 * (D * r)
        OBVIOUS
      <4>2. QED
        BY <1>2, <2>5, <4>1
    <3>3. P * (q + c) = 8 * h + m
      <4>1. (8 * D) * q = 8 * (D * q)
        OBVIOUS
      <4>2. P * (q + c) = P * q + P * c
        BY Multiples
      <4>3. QED
        BY <1>2, <1>4, <1>6, <4>1, <4>2
    <3>4. P * r < P * (q + c) + P
      BY <1>2, <3>1, <3>2, <3>3
    <3>5. q + c \in Nat
      OBVIOUS
    <3>6. QED
      BY <3>4, <3>5, Multiples
  <2>8. PICK k \in 0..c : r = q + k
    BY <2>6, <2>7
  <2>9. QED
    BY <2>3, <2>5, <2>8
<1>8. \A e \in Elements(t) : e[1] = i =>
        \E k \in 0..c : Line(Address(t, ElementOffset(t, e))) = DramReqSize * (q + k)
  BY <1>1, <1>7
<1>9. QED
  BY <1>3, <1>8

\* A transfer of neighbouring elements has no more lines than its rows need.
LEMMA FewRequests ==
  ASSUME AddressAssumption, NEW t \in Transfer, t.columnStride = 1
  PROVE  Cardinality(DramAddresses(t)) <= MostRequests(t)
<1>1. PICK D \in Nat \ {0}, n \in Nat \ {0}, m \in Int : D = DramReqSize /\ n = t.rows /\ m = n - 1
  BY DEF AddressAssumption, Transfer
<1>2. PICK c : c = Ceiling(t.columns * t.bits, 8 * DramReqSize)
  OBVIOUS
<1> DEFINE Starts(i, q) == \A e \in Elements(t) : e[1] = i =>
                             \E k \in 0..c : Line(Address(t, ElementOffset(t, e))) = D * (q + k)
           Rows == 0..m
<1>3. c \in Nat /\ \A i \in Rows : \E q \in Nat : Starts(i, q)
  <2>1. 0 \in Rows
    BY <1>1
  <2>2. ASSUME NEW i \in Rows PROVE c \in Nat /\ \E q \in Nat : Starts(i, q)
    <3>1. i \in 0..(t.rows - 1)
      BY <1>1
    <3>2. PICK q \in Nat, d \in Nat :
            /\ d = Ceiling(t.columns * t.bits, 8 * DramReqSize)
            /\ \A e \in Elements(t) : e[1] = i =>
                 \E k \in 0..d : Line(Address(t, ElementOffset(t, e))) = DramReqSize * (q + k)
      BY <3>1, RowLines
    <3>3. d = c
      BY <1>2, <3>2
    <3>4. QED
      BY <1>1, <3>2, <3>3
  <2>3. QED
    BY <2>1, <2>2
<1> HIDE DEF Starts
<1>4. PICK f \in [Rows -> Nat] : \A i \in Rows : Starts(i, f[i])
  <2>1. PICK f : f = [i \in Rows |-> CHOOSE q \in Nat : Starts(i, q)]
    OBVIOUS
  <2>2. \A i \in Rows : f[i] \in Nat /\ Starts(i, f[i])
    BY <1>3, <2>1
  <2>3. f \in [Rows -> Nat]
    BY <2>1, <2>2
  <2>4. QED
    BY <2>2, <2>3
<1> DEFINE Cells == Rows \X (0..c)
           g == [p \in Cells |-> D * (f[p[1]] + p[2])]
           Image == {g[p] : p \in Cells}
<1>5. IsFiniteSet(Cells) /\ Cardinality(Cells) = n * (c + 1)
  <2>1. IsFiniteSet(Rows) /\ Cardinality(Rows) = n
    <3>1. IsFiniteSet(0..m) /\ Cardinality(0..m) = IF 0 > m THEN 0 ELSE m - 0 + 1
      BY FS_Interval
    <3>2. QED
      BY <1>1, <3>1
  <2>2. IsFiniteSet(0..c) /\ Cardinality(0..c) = c + 1
    <3>1. IsFiniteSet(0..c) /\ Cardinality(0..c) = IF 0 > c THEN 0 ELSE c - 0 + 1
      BY <1>3, FS_Interval
    <3>2. QED
      BY <1>3, <3>1
  <2> HIDE DEF Rows
  <2>3. QED
    BY <2>1, <2>2, FS_Product
<1>6. IsFiniteSet(Image) /\ Cardinality(Image) <= n * (c + 1)
  <2> HIDE DEF Cells
  <2>1. g \in Surjection(Cells, Image)
    BY DEF Surjection
  <2> HIDE DEF g, Image
  <2>2. IsFiniteSet(Image) /\ Cardinality(Image) <= Cardinality(Cells)
    BY <1>5, <2>1, FS_Surjection
  <2>3. QED
    BY <1>5, <2>2
<1>7. DramAddresses(t) \in SUBSET Image
  <2>1. ASSUME NEW e \in Elements(t) PROVE Line(Address(t, ElementOffset(t, e))) \in Image
    <3>1. PICK i \in Rows : i = e[1]
      BY <1>1, AddressFacts
    <3>2. PICK k \in 0..c : Line(Address(t, ElementOffset(t, e))) = D * (f[i] + k)
      BY <1>4, <3>1 DEF Starts
    <3>3. <<i, k>> \in Cells /\ g[<<i, k>>] = D * (f[i] + k)
      OBVIOUS
    <3>4. g[<<i, k>>] \in Image
      BY <3>3
    <3>5. QED
      BY <3>2, <3>3, <3>4
  <2>2. QED
    BY <2>1 DEF DramAddresses
<1> HIDE DEF Image
<1>8. Cardinality(DramAddresses(t)) <= Cardinality(Image)
  BY <1>6, <1>7, FS_Subset
<1>9. MostRequests(t) = n * (c + 1)
  BY <1>1, <1>2 DEF MostRequests
<1>10. PICK x \in Nat, y \in Nat, u \in Nat : x = Cardinality(DramAddresses(t)) /\ y = Cardinality(Image) /\ u = n * (c + 1)
  <2>1. IsFiniteSet(DramAddresses(t))
    BY AddressesFinite
  <2>2. n * (c + 1) \in Nat
    BY <1>3, Multiples
  <2>3. QED
    BY <1>6, <2>1, <2>2, FS_CardinalityType
<1>11. QED
  BY <1>6, <1>8, <1>9, <1>10

\* The plan of a core has a request for each line of its transfer.
LEMMA FetchFacts ==
  ASSUME AddressAssumption, TransferAssumption, NEW c \in Core
  PROVE  /\ Transfers[c] \in Transfer
         /\ Len(Plan[c]) = Cardinality(DramAddresses(Transfers[c]))
         /\ \A a \in DramAddresses(Transfers[c]) : \E r \in Elems(Plan[c]) : r[2] = a
<1>1. PICK t \in Transfer : t = Transfers[c]
  BY DEF TransferAssumption
<1>2. PICK q \in Seq(DramAddresses(t)) :
        q = RequestsOf(t) /\ Len(q) = Cardinality(DramAddresses(t)) /\ Elems(q) = DramAddresses(t)
  <2>1. DramAddresses(t) \in SUBSET Nat /\ IsFiniteSet(DramAddresses(t)) /\ RequestsOf(t) = Ranked(DramAddresses(t))
    BY AddressesFinite
  <2>2. QED
    BY <2>1, RankedFacts
<1>3. PICK n \in Nat : n = Len(q) /\ DOMAIN q = 1..n
  BY LenProperties
<1>4. Plan[c] = [i \in 1..n |-> <<c, q[i]>>]
  BY <1>1, <1>2, <1>3 DEF TransferAssumption, Fetches
<1>5. PICK p : p = Plan[c] /\ DOMAIN p = 1..n /\ p = [i \in 1..n |-> p[i]] /\ \A i \in 1..n : p[i][2] = q[i]
  BY <1>4
<1>6. Len(p) = n
  BY <1>5
<1>7. ASSUME NEW a \in DramAddresses(t) PROVE \E r \in Elems(p) : r[2] = a
  <2>1. PICK i \in 1..n : q[i] = a
    BY <1>2, <1>3 DEF Elems
  <2>2. p[i] \in Elems(p)
    BY <1>6 DEF Elems
  <2>3. QED
    BY <1>5, <2>1, <2>2
<1>8. QED
  BY <1>1, <1>2, <1>3, <1>5, <1>6, <1>7

\* As many different answers as the plan has requests are the answers to all of them.
LEMMA AllReceived ==
  ASSUME MemRequestAssumption, MemInv, NEW c \in Core, Len(received[c]) = Len(Plan[c])
  PROVE  ToSet(received[c]) = Elems(Plan[c])
<1>1. PICK q \in Seq(Req), p \in Seq(Req) : q = received[c] /\ p = Plan[c] /\ Len(q) = Len(p)
  BY DEF MemInv, TypeInv, TypeOK, MemRequestAssumption
<1>2. Distinct(q)
  <2>1. ReceivedOf(c) \in Stores /\ Content(ReceivedOf(c)) = q
    BY <1>1, AreStores, Contents DEF ContentIs
  <2>2. Queues[ReceivedOf(c)] = q
    BY <2>1 DEF Queues
  <2>3. Apart(Stores, Queues)
    BY DEF MemInv, Kept
  <2>4. QED
    BY <2>1, <2>2, <2>3 DEF Apart
<1>3. Elems(q) \in SUBSET Elems(p)
  <2>1. ASSUME NEW r \in Elems(q) PROVE r \in Elems(p)
    <3>1. r \in Req
      BY <1>1, ElemsType
    <3>2. CoreOf[r] = c
      BY <1>1 DEF MemInv, Routed
    <3>3. PICK n \in 1..Len(p) : p[n] = r
      BY <1>1, <3>1, <3>2, PlanFacts
    <3>4. QED
      BY <3>3 DEF Elems
  <2>2. QED
    BY <2>1
<1>4. IsFiniteSet(Elems(q)) /\ Cardinality(Elems(q)) = Len(q)
  BY <1>2, ElemsCount
<1>5. IsFiniteSet(Elems(p)) /\ Cardinality(Elems(p)) <= Len(p) /\ Cardinality(Elems(p)) \in Nat
  BY ElemsFinite
<1>6. Cardinality(Elems(q)) <= Cardinality(Elems(p))
  BY <1>3, <1>5, FS_Subset
<1>7. Cardinality(Elems(q)) = Cardinality(Elems(p))
  <2>1. PICK m \in Nat, n \in Nat : m = Cardinality(Elems(p)) /\ n = Len(q)
    BY <1>5, LenProperties
  <2>2. QED
    BY <1>1, <1>4, <1>5, <1>6, <2>1
<1>8. Elems(q) = Elems(p)
  BY <1>3, <1>5, <1>7, FS_Subset
<1>9. QED
  BY <1>1, <1>8, ToSetIsElems

\* Instruction::get_dram_address, DMA::get_memory_access and the memory system together, for any transfers, any
\* number of cores, ports and channels and all periods and latencies: a core asks for no line twice and for none
\* that its rows do not need, and when it has as many answers as requests, they hold every byte of an aligned
\* transfer, each moved down by the same seven eighths of its base.
THEOREM TransfersWholeHolds == Spec => []TransfersWhole
<1>1. ASSUME AddressAssumption, MemRequestAssumption, TransferAssumption, MemInv PROVE TransfersWhole
  <2> SUFFICES ASSUME NEW c \in Core
              PROVE  /\ Transfers[c].columnStride = 1 => made[c] <= MostRequests(Transfers[c])
                     /\ Len(received[c]) = Len(Plan[c]) /\ Aligned(Transfers[c])
                          => Covered(Transfers[c], LinesOf(ToSet(received[c])), Displacement(Transfers[c]))
    BY Zenon DEF TransfersWhole
  <2>1. PICK t \in Transfer : t = Transfers[c]
    BY <1>1, FetchFacts
  <2>2. /\ Len(Plan[c]) = Cardinality(DramAddresses(t))
        /\ \A a \in DramAddresses(t) : \E r \in Elems(Plan[c]) : r[2] = a
    BY <1>1, <2>1, FetchFacts
  <2>3. ASSUME t.columnStride = 1 PROVE made[c] <= MostRequests(t)
    <3>1. made[c] \in Nat /\ made[c] <= Cardinality(DramAddresses(t))
      BY <1>1, <2>2 DEF MemInv, TypeInv, TypeOK
    <3>2. Cardinality(DramAddresses(t)) <= MostRequests(t)
      BY <1>1, <2>3, FewRequests
    <3>3. Cardinality(DramAddresses(t)) \in Nat /\ MostRequests(t) \in Int
      <4>1. Cardinality(DramAddresses(t)) \in Nat
        BY <1>1, AddressesFinite, FS_CardinalityType
      <4>2. PICK D \in Nat \ {0}, n \in Nat, m \in Nat, b \in Nat : D = DramReqSize /\ n = t.rows /\ m = t.columns /\ b = t.bits
        BY <1>1 DEF AddressAssumption, Transfer
      <4>3. m * b \in Nat /\ 8 * D \in Nat \ {0}
        BY Multiples
      <4>4. PICK x \in Nat, P \in Nat \ {0} : x = m * b + P - 1 /\ P = 8 * D
        BY <4>3
      <4>5. x \div P \in Nat
        BY Divided
      <4>6. n * ((x \div P) + 1) \in Nat
        <5>1. (x \div P) + 1 \in Nat
          BY <4>5
        <5>2. QED
          BY <5>1, Multiples
      <4>7. MostRequests(t) = n * ((x \div P) + 1)
        BY <4>2, <4>4 DEF MostRequests, Ceiling
      <4>8. QED
        BY <4>1, <4>6, <4>7
    <3>4. QED
      BY <3>1, <3>2, <3>3
  <2>4. ASSUME Len(received[c]) = Len(Plan[c]), Aligned(t) PROVE Covered(t, LinesOf(ToSet(received[c])), Displacement(t))
    <3>1. DramAddresses(t) \subseteq LinesOf(ToSet(received[c]))
      BY <1>1, <2>2, <2>4, AllReceived DEF LinesOf
    <3>2. Covered(t, DramAddresses(t), Displacement(t))
      BY <1>1, <2>4, AllCovered
    <3>3. QED
      BY <3>1, <3>2 DEF Covered
  <2>5. QED
    BY <2>1, <2>3, <2>4
<1>2. MemInv => TransfersWhole
  BY <1>1, AddressParameters, MemRequests, TransfersPlanned
<1>3. QED
  BY <1>2, MemInvHolds, PTL
===============================================================================
