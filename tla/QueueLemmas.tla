------------------------------ MODULE QueueLemmas ------------------------------
(***************************************************************************)
(* What the operations on the queues of the simulator do to the set of     *)
(* their entries and to the absence of duplicates: std::deque, std::queue  *)
(* and std::vector are sequences in the models, and every proof about a    *)
(* component that moves things between queues rests on these lemmas.  At   *)
(* the end, what several modules need about numbers.                       *)
(***************************************************************************)
EXTENDS Integers, Sequences, FiniteSets, SequenceTheorems, FiniteSetTheorems, WellFoundedInduction, TLAPS

Elems(q) == {q[n] : n \in 1..Len(q)}
Distinct(q) == \A m, n \in 1..Len(q) : q[m] = q[n] => m = n

\* The entries of a queue are of the type of the queue.
LEMMA ElemsType ==
  ASSUME NEW S, NEW q \in Seq(S)
  PROVE  Elems(q) \subseteq S
BY ElementOfSeq DEF Elems

\* An empty queue has no entry; one that is not empty has its first.
LEMMA ElemsEmpty ==
  ASSUME NEW S, NEW q \in Seq(S)
  PROVE  /\ Elems(<<>>) = {} /\ Distinct(<<>>)
         /\ q = <<>> <=> Elems(q) = {}
         /\ q # <<>> => q[1] \in Elems(q)
<1>1. Elems(<<>>) = {} /\ Distinct(<<>>)
  BY DEF Elems, Distinct
<1>2. q # <<>> => 1 \in 1..Len(q)
  BY EmptySeq, LenProperties
<1>3. q # <<>> => q[1] \in Elems(q)
  BY <1>2 DEF Elems
<1>4. QED
  BY <1>1, <1>3

\* push_back
LEMMA ElemsAppend ==
  ASSUME NEW S, NEW q \in Seq(S), NEW e \in S
  PROVE  /\ Elems(Append(q, e)) = Elems(q) \cup {e}
         /\ Distinct(q) /\ e \notin Elems(q) => Distinct(Append(q, e))
<1>1. /\ Len(q) \in Nat /\ Len(Append(q, e)) = Len(q) + 1
      /\ \A i \in 1..Len(q) : Append(q, e)[i] = q[i]
      /\ Append(q, e)[Len(q) + 1] = e
  BY AppendProperties, LenProperties
<1>2. 1..(Len(q) + 1) = 1..Len(q) \cup {Len(q) + 1}
  BY <1>1
<1>3. Elems(Append(q, e)) = Elems(q) \cup {e}
  BY <1>1, <1>2 DEF Elems
<1>4. ASSUME Distinct(q), e \notin Elems(q) PROVE Distinct(Append(q, e))
  BY <1>1, <1>2, <1>4 DEF Elems, Distinct
<1>5. QED
  BY <1>3, <1>4

\* pop_front
LEMMA ElemsTail ==
  ASSUME NEW S, NEW q \in Seq(S), q # <<>>
  PROVE  /\ Elems(q) = Elems(Tail(q)) \cup {q[1]}
         /\ Distinct(q) => Distinct(Tail(q)) /\ q[1] \notin Elems(Tail(q))
<1>1. /\ Len(q) \in Nat \ {0} /\ Len(Tail(q)) = Len(q) - 1
      /\ \A i \in 1..Len(Tail(q)) : Tail(q)[i] = q[i + 1]
  BY HeadTailProperties, EmptySeq, LenProperties
<1>2. ASSUME NEW x \in Elems(q) PROVE x \in Elems(Tail(q)) \cup {q[1]}
  <2>1. PICK n \in 1..Len(q) : x = q[n]
    BY DEF Elems
  <2>2. CASE n = 1
    BY <2>1, <2>2
  <2>3. CASE n # 1
    <3>1. n - 1 \in 1..Len(Tail(q)) /\ Tail(q)[n - 1] = q[n]
      BY <1>1, <2>3
    <3>2. QED
      BY <2>1, <3>1 DEF Elems
  <2>4. QED
    BY <2>2, <2>3
<1>3. Elems(Tail(q)) \cup {q[1]} \subseteq Elems(q)
  <2>1. \A i \in 1..Len(Tail(q)) : i + 1 \in 1..Len(q)
    BY <1>1
  <2>2. 1 \in 1..Len(q)
    BY <1>1
  <2>3. QED
    BY <1>1, <2>1, <2>2 DEF Elems
<1>4. ASSUME Distinct(q) PROVE Distinct(Tail(q)) /\ q[1] \notin Elems(Tail(q))
  BY <1>1, <1>4 DEF Distinct, Elems
<1>5. QED
  BY <1>2, <1>3, <1>4

\* Appending one queue to another
LEMMA ElemsConcat ==
  ASSUME NEW S, NEW q \in Seq(S), NEW r \in Seq(S)
  PROVE  /\ Elems(q \o r) = Elems(q) \cup Elems(r)
         /\ Distinct(q) /\ Distinct(r) /\ Elems(q) \cap Elems(r) = {} => Distinct(q \o r)
<1>1. /\ Len(q) \in Nat /\ Len(r) \in Nat /\ Len(q \o r) = Len(q) + Len(r)
      /\ \A i \in 1..Len(q) + Len(r) : (q \o r)[i] = IF i <= Len(q) THEN q[i] ELSE r[i - Len(q)]
  BY ConcatProperties, LenProperties
<1>2. Elems(q \o r) \subseteq Elems(q) \cup Elems(r)
  <2> SUFFICES ASSUME NEW n \in 1..Len(q \o r) PROVE (q \o r)[n] \in Elems(q) \cup Elems(r)
    BY DEF Elems
  <2>1. CASE n <= Len(q)
    BY <1>1, <2>1 DEF Elems
  <2>2. CASE n > Len(q)
    <3>1. n - Len(q) \in 1..Len(r) /\ (q \o r)[n] = r[n - Len(q)]
      BY <1>1, <2>2
    <3>2. QED
      BY <3>1 DEF Elems
  <2>3. QED
    BY <1>1, <2>1, <2>2
<1>3. Elems(q) \subseteq Elems(q \o r)
  <2>1. \A n \in 1..Len(q) : n \in 1..Len(q \o r) /\ (q \o r)[n] = q[n]
    BY <1>1
  <2>2. QED
    BY <2>1 DEF Elems
<1>4. Elems(r) \subseteq Elems(q \o r)
  <2>1. \A n \in 1..Len(r) : n + Len(q) \in 1..Len(q \o r) /\ (q \o r)[n + Len(q)] = r[n]
    BY <1>1
  <2>2. QED
    BY <2>1 DEF Elems
<1>5. ASSUME Distinct(q), Distinct(r), Elems(q) \cap Elems(r) = {} PROVE Distinct(q \o r)
  <2> SUFFICES ASSUME NEW m \in 1..Len(q \o r), NEW n \in 1..Len(q \o r), (q \o r)[m] = (q \o r)[n]
               PROVE  m = n
    BY DEF Distinct
  <2>1. CASE m <= Len(q) /\ n <= Len(q)
    BY <1>1, <1>5, <2>1 DEF Distinct
  <2>2. CASE m > Len(q) /\ n > Len(q)
    <3>1. m - Len(q) \in 1..Len(r) /\ n - Len(q) \in 1..Len(r) /\ r[m - Len(q)] = r[n - Len(q)]
      BY <1>1, <2>2
    <3>2. m - Len(q) = n - Len(q)
      BY <1>5, <3>1 DEF Distinct
    <3>3. QED
      BY <1>1, <3>2
  <2>3. CASE m <= Len(q) /\ n > Len(q)
    <3>1. q[m] \in Elems(q) /\ r[n - Len(q)] \in Elems(r) /\ q[m] = r[n - Len(q)]
      BY <1>1, <2>3 DEF Elems
    <3>2. QED
      BY <1>5, <3>1
  <2>4. CASE m > Len(q) /\ n <= Len(q)
    <3>1. n \in 1..Len(q) /\ m - Len(q) \in 1..Len(r) /\ q[n] = r[m - Len(q)]
      BY <1>1, <2>4
    <3>2. q[n] \in Elems(q) /\ r[m - Len(q)] \in Elems(r)
      BY <3>1 DEF Elems
    <3>3. QED
      BY <1>5, <3>1, <3>2
  <2>5. QED
    BY <1>1, <2>1, <2>2, <2>3, <2>4
<1>6. QED
  BY <1>2, <1>3, <1>4, <1>5

\* erase of one entry
Erased(q, n) == SubSeq(q, 1, n - 1) \o SubSeq(q, n + 1, Len(q))

\* Erasing an entry of a queue without duplicates removes just that entry.
LEMMA ElemsErased ==
  ASSUME NEW S, NEW q \in Seq(S), NEW n \in 1..Len(q)
  PROVE  /\ Erased(q, n) \in Seq(S) /\ Len(Erased(q, n)) = Len(q) - 1
         /\ \A i \in 1..Len(q) - 1 : Erased(q, n)[i] = IF i < n THEN q[i] ELSE q[i + 1]
         /\ Distinct(q) => Distinct(Erased(q, n)) /\ Elems(Erased(q, n)) = Elems(q) \ {q[n]}
<1>0. Len(q) \in Nat
  OBVIOUS
<1> DEFINE a == SubSeq(q, 1, n - 1)
           b == SubSeq(q, n + 1, Len(q))
<1>1. /\ a \in Seq(S) /\ Len(a) = n - 1 /\ \A i \in 1..n - 1 : a[i] = q[i]
      /\ b \in Seq(S) /\ Len(b) = Len(q) - n /\ \A i \in 1..Len(q) - n : b[i] = q[n + i]
  BY <1>0
<1> HIDE DEF a, b
<1>2. /\ Erased(q, n) \in Seq(S) /\ Len(Erased(q, n)) = Len(q) - 1
      /\ \A i \in 1..Len(q) - 1 : Erased(q, n)[i] = IF i < n THEN q[i] ELSE q[i + 1]
  <2>1. Erased(q, n) = a \o b
    BY DEF a, b, Erased
  <2>2. /\ a \o b \in Seq(S) /\ Len(a \o b) = Len(a) + Len(b)
        /\ \A i \in 1..Len(a) + Len(b) : (a \o b)[i] = IF i <= Len(a) THEN a[i] ELSE b[i - Len(a)]
    BY <1>1, ConcatProperties
  <2>3. ASSUME NEW i \in 1..Len(q) - 1 PROVE (a \o b)[i] = IF i < n THEN q[i] ELSE q[i + 1]
    <3>1. CASE i < n
      BY <1>0, <1>1, <2>2, <3>1
    <3>2. CASE i >= n
      <4>1. i \in 1..Len(a) + Len(b) /\ ~(i <= Len(a)) /\ i - Len(a) \in 1..Len(q) - n
        BY <1>0, <1>1, <3>2
      <4>2. (a \o b)[i] = b[i - Len(a)] /\ b[i - Len(a)] = q[n + (i - Len(a))]
        BY <1>1, <2>2, <4>1
      <4>3. n + (i - Len(a)) = i + 1
        BY <1>0, <1>1
      <4>4. QED
        BY <1>0, <3>2, <4>2, <4>3
    <3>3. i < n \/ i >= n
      BY <1>0
    <3>4. QED
      BY <3>1, <3>2, <3>3
  <2>4. Len(a) + Len(b) = Len(q) - 1
    BY <1>0, <1>1
  <2>5. QED
    BY <2>1, <2>2, <2>3, <2>4
<1>3. ASSUME Distinct(q) PROVE Distinct(Erased(q, n)) /\ Elems(Erased(q, n)) = Elems(q) \ {q[n]}
  <2>1. Distinct(Erased(q, n))
    BY <1>0, <1>2, <1>3 DEF Distinct
  <2>2. Elems(Erased(q, n)) \subseteq Elems(q) \ {q[n]}
    <3> SUFFICES ASSUME NEW i \in 1..Len(q) - 1 PROVE Erased(q, n)[i] \in Elems(q) \ {q[n]}
      BY <1>2 DEF Elems
    <3>1. CASE i < n
      BY <1>0, <1>2, <1>3, <3>1 DEF Distinct, Elems
    <3>2. CASE i >= n
      BY <1>0, <1>2, <1>3, <3>2 DEF Distinct, Elems
    <3>3. QED
      BY <1>0, <3>1, <3>2
  <2>3. Elems(q) \ {q[n]} \subseteq Elems(Erased(q, n))
    <3> SUFFICES ASSUME NEW i \in 1..Len(q), q[i] # q[n] PROVE q[i] \in Elems(Erased(q, n))
      BY DEF Elems
    <3>1. CASE i < n
      <4>1. i \in 1..Len(q) - 1 /\ Erased(q, n)[i] = q[i]
        BY <1>0, <1>2, <3>1
      <4>2. QED
        BY <1>2, <4>1 DEF Elems
    <3>2. CASE i > n
      <4>1. i - 1 \in 1..Len(q) - 1 /\ ~(i - 1 < n) /\ (i - 1) + 1 = i
        BY <1>0, <3>2
      <4>2. Erased(q, n)[i - 1] = q[i]
        BY <1>2, <4>1
      <4>3. QED
        BY <1>2, <4>1, <4>2 DEF Elems
    <3>3. QED
      BY <1>0, <3>1, <3>2
  <2>4. QED
    BY <2>1, <2>2, <2>3
<1>4. QED
  BY <1>2, <1>3

\* The entries of a queue are finitely many, at most as many as its length.
LEMMA ElemsFinite ==
  ASSUME NEW S, NEW q \in Seq(S)
  PROVE  IsFiniteSet(Elems(q)) /\ Cardinality(Elems(q)) \in Nat /\ Cardinality(Elems(q)) <= Len(q)
<1>1. Len(q) \in Nat /\ IsFiniteSet(1..Len(q)) /\ Cardinality(1..Len(q)) = Len(q)
  <2>1. Len(q) \in Nat
    OBVIOUS
  <2>2. PICK n \in Nat : n = Len(q)
    BY <2>1
  <2>3. IsFiniteSet(1..n) /\ Cardinality(1..n) = IF 1 > n THEN 0 ELSE n - 1 + 1
    BY FS_Interval
  <2>4. Cardinality(1..n) = n
    BY <2>3
  <2>5. QED
    BY <2>2, <2>3, <2>4, Zenon
<1>2. q \in Surjection(1..Len(q), Elems(q))
  BY LenProperties DEF Elems, Surjection
<1>3. IsFiniteSet(Elems(q)) /\ Cardinality(Elems(q)) <= Len(q)
  BY <1>1, <1>2, FS_Surjection
<1>4. QED
  BY <1>3, FS_CardinalityType

\* Without duplicates, exactly as many.
LEMMA ElemsCount ==
  ASSUME NEW S, NEW q \in Seq(S), Distinct(q)
  PROVE  IsFiniteSet(Elems(q)) /\ Cardinality(Elems(q)) = Len(q)
<1>1. Len(q) \in Nat /\ IsFiniteSet(1..Len(q)) /\ Cardinality(1..Len(q)) = Len(q)
  <2>1. Len(q) \in Nat
    OBVIOUS
  <2>2. PICK n \in Nat : n = Len(q)
    BY <2>1
  <2>3. IsFiniteSet(1..n) /\ Cardinality(1..n) = IF 1 > n THEN 0 ELSE n - 1 + 1
    BY FS_Interval
  <2>4. Cardinality(1..n) = n
    BY <2>3
  <2>5. QED
    BY <2>2, <2>3, <2>4, Zenon
<1>2. q \in Surjection(1..Len(q), Elems(q)) /\ q \in Injection(1..Len(q), Elems(q))
  BY LenProperties DEF Elems, Surjection, Injection, IsInjective, Distinct
<1>3. QED
  BY <1>1, <1>2, FS_Surjection

-------------------------------------------------------------------------------
\* std::set: the elements of a finite set of numbers in their order
Ranked(S) == [i \in 1..Cardinality(S) |-> CHOOSE a \in S : Cardinality({b \in S : b < a}) = i - 1]

\* Each element is in the row of a set once, and nothing else is.
LEMMA RankedFacts ==
  ASSUME NEW S \in SUBSET Nat, IsFiniteSet(S)
  PROVE  /\ Ranked(S) \in Seq(S) /\ Len(Ranked(S)) = Cardinality(S)
         /\ Distinct(Ranked(S)) /\ Elems(Ranked(S)) = S
<1> DEFINE Below(d) == {e \in S : e < d}
           rank == [d \in S |-> Cardinality(Below(d)) + 1]
<1>1. PICK N \in Nat : N = Cardinality(S)
  BY FS_CardinalityType
<1>2. ASSUME NEW d \in S PROVE IsFiniteSet(Below(d)) /\ Cardinality(Below(d)) \in Nat /\ Cardinality(Below(d)) < N
  <2>1. Below(d) \in SUBSET S /\ Below(d) # S
    <3>1. d \notin Below(d)
      OBVIOUS
    <3>2. QED
      BY <3>1
  <2> HIDE DEF Below
  <2>2. IsFiniteSet(Below(d)) /\ Cardinality(Below(d)) <= Cardinality(S) /\ Cardinality(S) # Cardinality(Below(d))
    BY <2>1, FS_Subset
  <2>3. PICK m \in Nat : m = Cardinality(Below(d))
    BY <2>2, FS_CardinalityType
  <2>4. QED
    BY <1>1, <2>2, <2>3
<1>3. ASSUME NEW d \in S, NEW e \in S, d < e PROVE Cardinality(Below(d)) < Cardinality(Below(e))
  <2>1. Below(d) \in SUBSET Below(e) /\ Below(d) # Below(e)
    <3>1. d \in Below(e) /\ d \notin Below(d)
      BY <1>3
    <3>2. \A x \in S : x < d => x < e
      <4>1. \A x, y, z \in Nat : x < y /\ y < z => x < z
        OBVIOUS
      <4>2. QED
        BY <1>3, <4>1
    <3>4. Below(d) \subseteq Below(e)
      BY <3>2
    <3>3. QED
      BY <3>1, <3>4
  <2>2. IsFiniteSet(Below(e))
    BY <1>2
  <2> HIDE DEF Below
  <2>3. Cardinality(Below(d)) <= Cardinality(Below(e)) /\ Cardinality(Below(d)) # Cardinality(Below(e))
    BY <2>1, <2>2, FS_Subset
  <2>4. PICK m \in Nat, n \in Nat : m = Cardinality(Below(d)) /\ n = Cardinality(Below(e))
    BY <1>2
  <2>5. QED
    BY <2>3, <2>4
<1>4. /\ \A d \in S : rank[d] = Cardinality(Below(d)) + 1
      /\ \A d, e \in S : rank[d] = rank[e] => d = e
      /\ rank \in [S -> 1..N]
  <2> HIDE DEF Below
  <2>1. \A d \in S : rank[d] = Cardinality(Below(d)) + 1 /\ rank[d] \in 1..N
    BY <1>2
  <2>2. ASSUME NEW d \in S, NEW e \in S, rank[d] = rank[e] PROVE d = e
    <3>1. Cardinality(Below(d)) = Cardinality(Below(e))
      BY <1>2, <2>2, <2>1
    <3>2. PICK n \in Nat : n = Cardinality(Below(e))
      BY <1>2
    <3>3. ~(d < e) /\ ~(e < d)
      BY <1>3, <3>1, <3>2
    <3>4. QED
      BY <3>3
  <2>3. QED
    BY <2>1, <2>2
<1>5. \A i \in 1..N : \E d \in S : rank[d] = i
  <2> HIDE DEF Below, rank
  <2>1. rank \in Injection(S, 1..N)
    BY <1>4 DEF Injection, IsInjective
  <2>2. IsFiniteSet(1..N) /\ Cardinality(1..N) = N
    <3>1. Cardinality(1..N) = (IF 1 > N THEN 0 ELSE N - 1 + 1) /\ IsFiniteSet(1..N)
      BY FS_Interval
    <3>2. QED
      BY <3>1
  <2>3. rank \in Surjection(S, 1..N)
    BY <1>1, <2>1, <2>2, FS_Injection
  <2>4. QED
    BY <2>3 DEF Surjection
<1>6. Ranked(S) = [i \in 1..N |-> CHOOSE a \in S : Cardinality(Below(a)) = i - 1]
  BY <1>1 DEF Ranked
<1>7. ASSUME NEW i \in 1..N
      PROVE  Ranked(S)[i] \in S /\ rank[Ranked(S)[i]] = i
  <2> HIDE DEF Below
  <2>1. PICK d \in S : rank[d] = i
    BY <1>5
  <2>2. Cardinality(Below(d)) = i - 1
    BY <1>2, <1>4, <2>1
  <2>3. PICK e : e = CHOOSE a \in S : Cardinality(Below(a)) = i - 1
    OBVIOUS
  <2>4. e \in S /\ Cardinality(Below(e)) = i - 1
    BY <2>2, <2>3
  <2>5. Ranked(S)[i] = e
    BY <1>6, <2>3
  <2>6. rank[e] = i
    BY <1>4, <2>4
  <2>7. QED
    BY <2>4, <2>5, <2>6
<1>8. PICK b : b = Ranked(S) /\ DOMAIN b = 1..N /\ b = [i \in 1..N |-> b[i]]
  BY <1>6
<1> HIDE DEF Below, rank
<1>9. b \in Seq(S) /\ Len(b) = N
  <2>1. b \in [1..N -> S]
    BY <1>7, <1>8
  <2>2. QED
    BY <1>8, <2>1
<1>10. Distinct(b)
  BY <1>7, <1>8, <1>9 DEF Distinct
<1>11. Elems(b) = S
  <2>1. ASSUME NEW d \in S PROVE \E i \in 1..N : b[i] = d
    <3>1. rank[d] \in 1..N
      BY <1>4
    <3>2. b[rank[d]] \in S /\ rank[b[rank[d]]] = rank[d]
      BY <1>7, <1>8, <3>1
    <3>3. QED
      BY <1>4, <3>1, <3>2
  <2>2. \A i \in 1..N : b[i] \in S
    BY <1>7, <1>8
  <2>3. \A x : x \in Elems(b) <=> \E i \in 1..N : b[i] = x
    BY <1>9 DEF Elems
  <2>4. QED
    BY <2>1, <2>2, <2>3
<1>12. QED
  BY <1>1, <1>8, <1>9, <1>10, <1>11

-------------------------------------------------------------------------------
(* Numbers *)

\* A set of natural numbers has a least one.
LEMMA LeastNumber ==
  ASSUME NEW T \in SUBSET Nat, T # {}
  PROVE  \E n \in T : \A m \in T : n <= m
<1>1. PICK n \in T : \A m \in T : ~(<<m, n>> \in OpToRel(<, Nat))
  BY NatLessThanWellFounded, WFMin
<1>2. \A m \in T : ~(m < n)
  BY <1>1 DEF OpToRel
<1>3. QED
  BY <1>2

\* Division with a remainder
LEMMA Divided ==
  ASSUME NEW x \in Nat, NEW d \in Nat \ {0}
  PROVE  /\ x \div d \in Nat /\ x % d \in Nat /\ x % d < d
         /\ x = d * (x \div d) + (x % d)
<1>1. x % d \in Nat
  OBVIOUS
<1>2. x % d < d
  OBVIOUS
<1>3. x = d * (x \div d) + (x % d)
  OBVIOUS
<1>4. x \div d \in Nat
  OBVIOUS
<1>5. QED
  BY <1>1, <1>2, <1>3, <1>4

\* Multiplication keeps the order and can be undone.
LEMMA Multiples ==
  /\ \A p \in Nat, a, b \in Nat : p * a \in Nat /\ (a <= b => p * a <= p * b) /\ p * a = a * p
  /\ \A p \in Nat \ {0}, a, b \in Nat : p * a < p * b + p => a <= b
  /\ \A p \in Nat \ {0}, a, b \in Nat : p * a < p * b => a + 1 <= b /\ p * a + p <= p * b
  /\ \A p, a, b \in Nat : p * (a + b) = p * a + p * b /\ p * (a + 1) = p * a + p
<1>1. \A p \in Nat, a, b \in Nat : p * a \in Nat /\ (a <= b => p * a <= p * b) /\ p * a = a * p
  OBVIOUS
<1>2. \A p, a, b \in Nat : p * (a + b) = p * a + p * b /\ p * (a + 1) = p * a + p
  OBVIOUS
<1>3. ASSUME NEW p \in Nat \ {0}, NEW a \in Nat, NEW b \in Nat, p * a < p * b + p PROVE a <= b
  <2>1. SUFFICES ASSUME b + 1 <= a PROVE FALSE
    OBVIOUS
  <2>2. p * (b + 1) <= p * a /\ p * (b + 1) = p * b + p /\ p * a \in Nat /\ p * b \in Nat
    BY <1>1, <1>2, <2>1
  <2>3. QED
    BY <1>3, <2>2
<1>4. ASSUME NEW p \in Nat \ {0}, NEW a \in Nat, NEW b \in Nat, p * a < p * b PROVE a + 1 <= b /\ p * a + p <= p * b
  <2>1. a + 1 <= b
    <3>1. SUFFICES ASSUME b <= a PROVE FALSE
      OBVIOUS
    <3>2. p * b <= p * a /\ p * a \in Nat /\ p * b \in Nat
      BY <1>1, <3>1
    <3>3. QED
      BY <1>4, <3>2
  <2>2. p * (a + 1) <= p * b /\ p * (a + 1) = p * a + p
    BY <1>1, <1>2, <2>1
  <2>3. QED
    BY <2>1, <2>2
<1>5. QED
  BY <1>1, <1>2, <1>3, <1>4
===============================================================================
