----------------------------- MODULE AllToAllProofs -----------------------------
(***************************************************************************)
(* Proofs about module AllToAll, for every torus, every number of experts  *)
(* and tokens, every capacity and every choice of the routers.             *)
(***************************************************************************)
EXTENDS AllToAll, QueueLemmas

-------------------------------------------------------------------------------
(* Sums over a set *)

\* Of a set of finite sets one is smallest.
LEMMA SmallestSet ==
  ASSUME NEW C, C # {}, \A T \in C : IsFiniteSet(T)
  PROVE  \E T \in C : \A U \in C : Cardinality(T) <= Cardinality(U)
<1> DEFINE sizes == {Cardinality(T) : T \in C}
<1>1. sizes \in SUBSET Nat /\ sizes # {}
  BY FS_CardinalityType
<1>2. PICK n \in sizes : \A m \in sizes : n <= m
  BY <1>1, LeastNumber
<1>3. QED
  BY <1>2

\* The partial sums that the sum of the values of F is made of
Chosen(T) == CHOOSE x \in T : TRUE
Sums(g, F, S) ==
  g = [T \in SUBSET S |-> IF T = {} THEN 0 ELSE F[Chosen(T)] + g[T \ {Chosen(T)}]]

\* A set without its chosen element is smaller.
LEMMA Smaller ==
  ASSUME NEW S, IsFiniteSet(S), NEW T \in SUBSET S, T # {}
  PROVE  /\ Chosen(T) \in T /\ T \ {Chosen(T)} \in SUBSET S /\ IsFiniteSet(T)
         /\ Cardinality(T) \in Nat /\ Cardinality(T \ {Chosen(T)}) \in Nat
         /\ Cardinality(T \ {Chosen(T)}) < Cardinality(T)
<1>1. Chosen(T) \in T
  BY DEF Chosen
<1>2. IsFiniteSet(T) /\ Cardinality(T) \in Nat
  BY FS_Subset, FS_CardinalityType
<1>3. PICK U : U = T \ {Chosen(T)} /\ Cardinality(U) = Cardinality(T) - 1 /\ IsFiniteSet(U)
  BY <1>1, <1>2, FS_RemoveElement
<1>4. Cardinality(U) \in Nat
  BY <1>3, FS_CardinalityType
<1>5. QED
  BY <1>1, <1>2, <1>3, <1>4

\* There are such partial sums for the sets of each size ...
PartSums(g, F, S, n) ==
  \A T \in SUBSET S : Cardinality(T) <= n =>
    g[T] = IF T = {} THEN 0 ELSE F[Chosen(T)] + g[T \ {Chosen(T)}]
LEMMA PartSumsExist ==
  ASSUME NEW S, IsFiniteSet(S), NEW F
  PROVE  \A n \in Nat : \E g : PartSums(g, F, S, n)
<1> DEFINE Bad == {n \in Nat : ~\E g : PartSums(g, F, S, n)}
<1>1. SUFFICES ASSUME Bad # {} PROVE FALSE
  OBVIOUS
<1>2. Bad \in SUBSET Nat /\ \A n : n \in Bad <=> n \in Nat /\ ~\E g : PartSums(g, F, S, n)
  OBVIOUS
<1> HIDE DEF Bad
<1>3. PICK n \in Bad : \A m \in Bad : n <= m
  BY <1>1, <1>2, LeastNumber
<1>4. PICK old : n = 0 \/ PartSums(old, F, S, n - 1)
  <2>1. CASE n = 0
    BY <2>1
  <2>2. CASE n # 0
    <3>1. n - 1 \in Nat /\ n - 1 \notin Bad
      BY <1>2, <1>3, <2>2
    <3>2. QED
      BY <1>2, <3>1
  <2>3. QED
    BY <2>1, <2>2
<1> DEFINE less(T) == IF T = {} THEN 0 ELSE F[Chosen(T)] + old[T \ {Chosen(T)}]
           g == [T \in SUBSET S |-> IF Cardinality(T) < n THEN old[T] ELSE less(T)]
<1>5. ASSUME NEW T \in SUBSET S, Cardinality(T) <= n
      PROVE  g[T] = IF T = {} THEN 0 ELSE F[Chosen(T)] + g[T \ {Chosen(T)}]
  <2>1. n \in Nat /\ Cardinality(T) \in Nat
    BY <1>2, FS_Subset, FS_CardinalityType
  <2>2. g[T] = less(T)
    <3>1. CASE Cardinality(T) < n
      <4>1. Cardinality(T) <= n - 1 /\ n # 0
        BY <2>1, <3>1
      <4>2. old[T] = less(T)
        BY <1>4, <4>1 DEF PartSums
      <4>3. QED
        BY <3>1, <4>2
    <3>2. CASE ~(Cardinality(T) < n)
      BY <3>2
    <3>3. QED
      BY <3>1, <3>2
  <2>3. CASE T = {}
    BY <2>2, <2>3
  <2>4. CASE T # {}
    <3>1. T \ {Chosen(T)} \in SUBSET S /\ Cardinality(T \ {Chosen(T)}) < n
      BY <1>5, <2>1, <2>4, Smaller
    <3>2. g[T \ {Chosen(T)}] = old[T \ {Chosen(T)}]
      BY <3>1
    <3> HIDE DEF g
    <3>3. QED
      BY <2>2, <2>4, <3>2
  <2>5. QED
    BY <2>3, <2>4
<1>6. PartSums(g, F, S, n)
  <2> HIDE DEF g
  <2>1. QED
    BY <1>5 DEF PartSums
<1>7. QED
  BY <1>2, <1>3, <1>6

\* ... so there are all of them.
LEMMA SumsExist ==
  ASSUME NEW S, IsFiniteSet(S), NEW F
  PROVE  \E g : Sums(g, F, S)
<1>1. PICK part : PartSums(part, F, S, Cardinality(S))
  BY PartSumsExist, FS_CardinalityType
<1> DEFINE f == [T \in SUBSET S |-> part[T]]
<1>2. ASSUME NEW T \in SUBSET S
      PROVE  f[T] = IF T = {} THEN 0 ELSE F[Chosen(T)] + f[T \ {Chosen(T)}]
  <2>1. Cardinality(T) <= Cardinality(S)
    BY FS_Subset
  <2>2. part[T] = IF T = {} THEN 0 ELSE F[Chosen(T)] + part[T \ {Chosen(T)}]
    BY <1>1, <2>1 DEF PartSums
  <2>3. T \ {Chosen(T)} \in SUBSET S
    OBVIOUS
  <2>4. f[T] = part[T] /\ f[T \ {Chosen(T)}] = part[T \ {Chosen(T)}]
    BY <2>3
  <2> HIDE DEF f
  <2>5. QED
    BY <2>2, <2>4
<1>3. [T \in SUBSET S |-> f[T]] = [T \in SUBSET S |-> IF T = {} THEN 0 ELSE F[Chosen(T)] + f[T \ {Chosen(T)}]]
  BY <1>2, Zenon
<1>4. f = [T \in SUBSET S |-> f[T]]
  OBVIOUS
<1> HIDE DEF f
<1>5. Sums(f, F, S)
  BY <1>3, <1>4 DEF Sums
<1>6. QED
  BY <1>5

\* What holds of the empty set and is handed on from smaller sets holds of all: no set is a smallest exception.
LEMMA NoException ==
  ASSUME NEW S, IsFiniteSet(S), NEW C \in SUBSET SUBSET S, {} \notin C,
         \A T \in C : T # {} => \E U \in C : U \subseteq T /\ U # T
  PROVE  C = {}
<1>1. SUFFICES ASSUME C # {} PROVE FALSE
  OBVIOUS
<1>2. \A T \in C : IsFiniteSet(T)
  BY FS_Subset
<1>3. PICK T \in C : \A U \in C : Cardinality(T) <= Cardinality(U)
  BY <1>1, <1>2, SmallestSet
<1>4. PICK U \in C : U \subseteq T /\ U # T
  BY <1>3
<1>5. IsFiniteSet(T) /\ IsFiniteSet(U)
  BY <1>2
<1>6. /\ Cardinality(U) \in Nat /\ Cardinality(T) \in Nat /\ Cardinality(U) <= Cardinality(T)
      /\ Cardinality(U) = Cardinality(T) => U = T
  BY <1>4, <1>5, FS_Subset, FS_CardinalityType
<1>7. Cardinality(T) <= Cardinality(U)
  BY <1>3
<1>8. QED
  BY <1>4, <1>6, <1>7

\* Whatever order the terms are taken in: a sum is one term, any, and the sum of the others.
LEMMA SumsFacts ==
  ASSUME NEW S, IsFiniteSet(S), NEW F, \A x \in S : F[x] \in Nat, NEW g, Sums(g, F, S)
  PROVE  /\ g[{}] = 0
         /\ \A T \in SUBSET S : g[T] \in Nat
         /\ \A T \in SUBSET S : \A x \in T : g[T] = F[x] + g[T \ {x}]
<1>1. \A T \in SUBSET S : g[T] = IF T = {} THEN 0 ELSE F[Chosen(T)] + g[T \ {Chosen(T)}]
  BY DEF Sums
<1>2. g[{}] = 0
  <2>1. {} \in SUBSET S
    OBVIOUS
  <2>2. QED
    BY <1>1, <2>1, Zenon
<1>3. \A T \in SUBSET S : T # {} => Chosen(T) \in T /\ Chosen(T) \in S /\ T \ {Chosen(T)} \in SUBSET S
  BY DEF Chosen
<1>4. \A T \in SUBSET S : g[T] \in Nat
  <2> DEFINE C == {T \in SUBSET S : g[T] \notin Nat}
  <2>1. {} \notin C
    BY <1>2
  <2>2. ASSUME NEW T \in C, T # {} PROVE \E U \in C : U \subseteq T /\ U # T
    <3>1. F[Chosen(T)] \in Nat /\ T \ {Chosen(T)} \in SUBSET S /\ Chosen(T) \in T
      BY <1>3, <2>2
    <3>2. g[T] = F[Chosen(T)] + g[T \ {Chosen(T)}]
      BY <1>1, <2>2
    <3>3. T \ {Chosen(T)} \in C
      BY <3>1, <3>2
    <3>4. QED
      BY <3>1, <3>3
  <2>3. C \in SUBSET SUBSET S
    OBVIOUS
  <2>4. C = {}
    <3> HIDE DEF C
    <3>1. QED
      BY <2>1, <2>2, <2>3, NoException
  <2>5. QED
    BY <2>4
<1>5. \A T \in SUBSET S : \A x \in T : g[T] = F[x] + g[T \ {x}]
  <2> DEFINE C == {T \in SUBSET S : \E x \in T : g[T] # F[x] + g[T \ {x}]}
  <2>1. {} \notin C
    OBVIOUS
  <2>2. ASSUME NEW T \in C, T # {}, \A U \in C : ~(U \subseteq T /\ U # T) PROVE FALSE
    <3>1. PICK x \in T : g[T] # F[x] + g[T \ {x}]
      OBVIOUS
    <3>2. T \in SUBSET S
      OBVIOUS
    <3>3. PICK c : c = Chosen(T) /\ c \in T
      BY <1>3, <2>2, <3>2
    <3>4. g[T] = F[c] + g[T \ {c}]
      BY <1>1, <2>2, <3>2, <3>3
    <3>5. x # c
      BY <3>1, <3>4
    <3>6. \A U \in SUBSET S : U \subseteq T /\ U # T => \A y \in U : g[U] = F[y] + g[U \ {y}]
      BY <2>2
    <3>7. PICK U, V, W : U = T \ {c} /\ V = T \ {x} /\ W = T \ {c, x}
      OBVIOUS
    <3>8. /\ U \in SUBSET S /\ V \in SUBSET S /\ W \in SUBSET S
          /\ U \subseteq T /\ U # T /\ V \subseteq T /\ V # T /\ x \in U /\ c \in V
          /\ U \ {x} = W /\ V \ {c} = W
      BY <3>2, <3>3, <3>5, <3>7
    <3> HIDE DEF C
    <3>9. g[U] = F[x] + g[W] /\ g[V] = F[c] + g[W]
      BY <3>6, <3>8
    <3>10. g[W] \in Nat /\ F[x] \in Nat /\ F[c] \in Nat
      BY <1>4, <3>2, <3>3, <3>8
    <3>11. QED
      BY <3>1, <3>4, <3>7, <3>9, <3>10
  <2>3. C \in SUBSET SUBSET S
    OBVIOUS
  <2>4. C = {}
    <3> HIDE DEF C
    <3>1. QED
      BY <2>1, <2>2, <2>3, NoException
  <2>5. ASSUME NEW T \in SUBSET S, NEW x \in T PROVE g[T] = F[x] + g[T \ {x}]
    <3>1. T \notin C
      <4> HIDE DEF C
      <4>1. QED
        BY <2>4
    <3>2. QED
      BY <3>1
  <2>6. QED
    BY <2>5, Zenon
<1>6. QED
  BY <1>2, <1>4, <1>5

SplitSum(g, F, T, x) == g[T] = F[x] + g[T \ {x}]
\* A sum without one of its terms
LEMMA SumsSplit ==
  ASSUME NEW S, IsFiniteSet(S), NEW F, \A y \in S : F[y] \in Nat, NEW g, Sums(g, F, S),
         NEW T \in SUBSET S, NEW x \in T
  PROVE  SplitSum(g, F, T, x)
BY SumsFacts DEF SplitSum

\* Sums of the same terms are the same.
LEMMA SumsAgree ==
  ASSUME NEW S, IsFiniteSet(S), NEW R, IsFiniteSet(R), S \subseteq R,
         NEW F, NEW G, \A x \in S : F[x] = G[x], NEW g, Sums(g, F, S), NEW h, Sums(h, G, R)
  PROVE  \A T \in SUBSET S : g[T] = h[T]
<1>1. /\ \A T \in SUBSET S : g[T] = IF T = {} THEN 0 ELSE F[Chosen(T)] + g[T \ {Chosen(T)}]
      /\ \A T \in SUBSET R : h[T] = IF T = {} THEN 0 ELSE G[Chosen(T)] + h[T \ {Chosen(T)}]
  BY DEF Sums
<1> DEFINE C == {T \in SUBSET S : g[T] # h[T]}
<1>2. {} \notin C
  <2>1. {} \in SUBSET S /\ {} \in SUBSET R
    OBVIOUS
  <2>2. g[{}] = 0 /\ h[{}] = 0
    BY <1>1, <2>1, Zenon
  <2>3. QED
    BY <2>2
<1>3. ASSUME NEW T \in C, T # {} PROVE \E U \in C : U \subseteq T /\ U # T
  <2>1. T \in SUBSET S /\ T \in SUBSET R
    OBVIOUS
  <2>2. PICK c : c = Chosen(T) /\ c \in T /\ c \in S
    BY <1>3, <2>1 DEF Chosen
  <2>3. g[T] = F[c] + g[T \ {c}] /\ h[T] = G[c] + h[T \ {c}] /\ F[c] = G[c]
    BY <1>1, <1>3, <2>1, <2>2
  <2>4. T \ {c} \in C
    BY <2>1, <2>3
  <2>5. QED
    BY <2>2, <2>4
<1>4. C \in SUBSET SUBSET S
  OBVIOUS
<1>5. C = {}
  <2> HIDE DEF C
  <2>1. QED
    BY <1>2, <1>3, <1>4, NoException
<1>6. QED
  BY <1>5

\* The sum of the counts of an expert
LEMMA SumIs ==
  ASSUME NEW S, IsFiniteSet(S), NEW K, NEW e
  PROVE  \E g : Sums(g, [s \in S |-> K[s][e]], S) /\ Total(K, e, S) = g[S]
<1> DEFINE F == [s \in S |-> K[s][e]]
<1>1. PICK f : Sums(f, F, S)
  BY SumsExist
<1>2. ASSUME NEW g
      PROVE  Sums(g, F, S) <=> g = [T \in SUBSET S |-> IF T = {} THEN 0 ELSE K[Chosen(T)][e] + g[T \ {Chosen(T)}]]
  <2>1. \A T \in SUBSET S : (IF T = {} THEN 0 ELSE F[Chosen(T)] + g[T \ {Chosen(T)}])
                            = (IF T = {} THEN 0 ELSE K[Chosen(T)][e] + g[T \ {Chosen(T)}])
    <3>1. \A T \in SUBSET S : T # {} => F[Chosen(T)] = K[Chosen(T)][e]
      BY DEF Chosen
    <3> HIDE DEF F
    <3>2. QED
      BY <3>1
  <2> HIDE DEF F
  <2>2. [T \in SUBSET S |-> IF T = {} THEN 0 ELSE F[Chosen(T)] + g[T \ {Chosen(T)}]]
          = [T \in SUBSET S |-> IF T = {} THEN 0 ELSE K[Chosen(T)][e] + g[T \ {Chosen(T)}]]
    BY <2>1, Zenon
  <2>3. QED
    BY <2>2 DEF Sums
<1>3. \E g : /\ g = [T \in SUBSET S |-> IF T = {} THEN 0 ELSE K[Chosen(T)][e] + g[T \ {Chosen(T)}]]
            /\ Total(K, e, S) = g[S]
  <2> HIDE DEF F
  <2>1. f = [T \in SUBSET S |-> IF T = {} THEN 0 ELSE K[Chosen(T)][e] + f[T \ {Chosen(T)}]]
    BY <1>1, <1>2
  <2>2. QED
    BY <2>1 DEF Total, MapThenSumSet, MapThenFoldSet, Chosen
<1>4. QED
  <2> HIDE DEF F
  <2>1. \E g : Sums(g, F, S) /\ Total(K, e, S) = g[S]
    BY <1>2, <1>3, Zenon
  <2>2. QED
    BY <2>1 DEF F

\* A sum of natural numbers is one; it grows by one with one of its terms.
LEMMA SumFacts ==
  ASSUME NEW S, IsFiniteSet(S), NEW e, NEW K, NEW J,
         \A s \in S : K[s][e] \in Nat /\ J[s][e] \in Nat
  PROVE  /\ Total(K, e, S) \in Nat
         /\ (\A s \in S : J[s][e] = K[s][e]) =>
              Total(J, e, S) = Total(K, e, S)
         /\ \A r \in S : (\A s \in S : J[s][e] = IF s = r THEN K[s][e] + 1 ELSE K[s][e]) =>
              Total(J, e, S) = Total(K, e, S) + 1
         /\ (\A s \in S : K[s][e] = 0) => Total(K, e, S) = 0
<1>1. PICK g : Sums(g, [s \in S |-> K[s][e]], S) /\ Total(K, e, S) = g[S]
  BY SumIs
<1>2. PICK h : Sums(h, [s \in S |-> J[s][e]], S) /\ Total(J, e, S) = h[S]
  BY SumIs
<1>3. /\ \A T \in SUBSET S : g[T] = IF T = {} THEN 0 ELSE K[Chosen(T)][e] + g[T \ {Chosen(T)}]
      /\ \A T \in SUBSET S : h[T] = IF T = {} THEN 0 ELSE J[Chosen(T)][e] + h[T \ {Chosen(T)}]
  <2>1. \A T \in SUBSET S : T # {} => /\ [s \in S |-> K[s][e]][Chosen(T)] = K[Chosen(T)][e]
                                      /\ [s \in S |-> J[s][e]][Chosen(T)] = J[Chosen(T)][e]
    BY DEF Chosen
  <2>2. PICK F, G : F = [s \in S |-> K[s][e]] /\ G = [s \in S |-> J[s][e]]
    OBVIOUS
  <2>3. /\ \A T \in SUBSET S : g[T] = IF T = {} THEN 0 ELSE F[Chosen(T)] + g[T \ {Chosen(T)}]
        /\ \A T \in SUBSET S : h[T] = IF T = {} THEN 0 ELSE G[Chosen(T)] + h[T \ {Chosen(T)}]
    BY <1>1, <1>2, <2>2 DEF Sums
  <2>4. \A T \in SUBSET S : T # {} => F[Chosen(T)] = K[Chosen(T)][e] /\ G[Chosen(T)] = J[Chosen(T)][e]
    BY <2>1, <2>2, Zenon
  <2>5. QED
    BY <2>3, <2>4, Zenon
<1>e. g[{}] = 0 /\ h[{}] = 0
  <2>1. {} \in SUBSET S
    OBVIOUS
  <2>2. QED
    BY <1>3, <2>1, Zenon
\* What holds of the empty set and is handed on from smaller sets holds of all.
<1>4. ASSUME NEW C \in SUBSET SUBSET S, {} \notin C,
             \A T \in C : T # {} => T \ {Chosen(T)} \in C
      PROVE  C = {}
  <2>1. SUFFICES ASSUME C # {} PROVE FALSE
    OBVIOUS
  <2>2. \A T \in C : IsFiniteSet(T)
    BY FS_Subset
  <2>3. PICK T \in C : \A U \in C : Cardinality(T) <= Cardinality(U)
    BY <2>1, <2>2, SmallestSet
  <2>4. T \in SUBSET S /\ T # {}
    BY <1>4
  <2>5. /\ Cardinality(T) \in Nat /\ Cardinality(T \ {Chosen(T)}) \in Nat
        /\ Cardinality(T \ {Chosen(T)}) < Cardinality(T)
    BY <2>4, Smaller
  <2>6. Cardinality(T) <= Cardinality(T \ {Chosen(T)})
    BY <1>4, <2>3, <2>4
  <2>7. QED
    BY <2>5, <2>6
<1>5. \A T \in SUBSET S : T # {} => Chosen(T) \in T /\ Chosen(T) \in S /\ T \ {Chosen(T)} \in SUBSET S
  BY DEF Chosen
<1>6. \A T \in SUBSET S : g[T] \in Nat /\ h[T] \in Nat
  <2> DEFINE C == {T \in SUBSET S : ~(g[T] \in Nat /\ h[T] \in Nat)}
  <2>1. {} \notin C
    BY <1>e
  <2>2. ASSUME NEW T \in C, T # {} PROVE T \ {Chosen(T)} \in C
    <3>1. K[Chosen(T)][e] \in Nat /\ J[Chosen(T)][e] \in Nat /\ T \ {Chosen(T)} \in SUBSET S
      BY <1>5, <2>2
    <3>2. /\ g[T] = K[Chosen(T)][e] + g[T \ {Chosen(T)}]
          /\ h[T] = J[Chosen(T)][e] + h[T \ {Chosen(T)}]
      BY <1>3, <2>2
    <3>3. QED
      BY <3>1, <3>2
  <2>3. C = {}
    <3> HIDE DEF C
    <3>1. C \in SUBSET SUBSET S
      BY DEF C
    <3>2. QED
      BY <1>4, <2>1, <2>2, <3>1
  <2>4. QED
    BY <2>3
<1>7. ASSUME \A s \in S : J[s][e] = K[s][e] PROVE h[S] = g[S]
  <2> DEFINE C == {T \in SUBSET S : h[T] # g[T]}
  <2>1. {} \notin C
    BY <1>e
  <2>2. ASSUME NEW T \in C, T # {} PROVE T \ {Chosen(T)} \in C
    <3>1. K[Chosen(T)][e] = J[Chosen(T)][e] /\ T \ {Chosen(T)} \in SUBSET S
      BY <1>5, <1>7, <2>2
    <3>2. /\ g[T] = K[Chosen(T)][e] + g[T \ {Chosen(T)}]
          /\ h[T] = J[Chosen(T)][e] + h[T \ {Chosen(T)}]
      BY <1>3, <2>2
    <3>3. QED
      BY <3>1, <3>2
  <2>3. C = {}
    <3> HIDE DEF C
    <3>1. C \in SUBSET SUBSET S
      BY DEF C
    <3>2. QED
      BY <1>4, <2>1, <2>2, <3>1
  <2>4. QED
    BY <2>3
<1>8. ASSUME NEW r \in S, \A s \in S : J[s][e] = IF s = r THEN K[s][e] + 1 ELSE K[s][e]
      PROVE  h[S] = g[S] + 1
  <2> DEFINE C == {T \in SUBSET S : h[T] # IF r \in T THEN g[T] + 1 ELSE g[T]}
  <2>1. {} \notin C
    BY <1>e
  <2>2. ASSUME NEW T \in C, T # {} PROVE T \ {Chosen(T)} \in C
    <3>1. PICK c \in S : c = Chosen(T) /\ c \in T /\ T \ {c} \in SUBSET S
      BY <1>5, <2>2
    <3>2. J[c][e] = (IF c = r THEN K[c][e] + 1 ELSE K[c][e]) /\ K[c][e] \in Nat
      BY <1>8
    <3>3. /\ g[T] = K[c][e] + g[T \ {c}] /\ h[T] = J[c][e] + h[T \ {c}]
          /\ g[T \ {c}] \in Nat /\ h[T \ {c}] \in Nat
      BY <1>3, <1>6, <2>2, <3>1
    <3>4. h[T] # IF r \in T THEN g[T] + 1 ELSE g[T]
      OBVIOUS
    <3>5. h[T \ {c}] # IF r \in T \ {c} THEN g[T \ {c}] + 1 ELSE g[T \ {c}]
      <4>1. CASE c = r
        BY <3>1, <3>2, <3>3, <3>4, <4>1
      <4>2. CASE c # r
        <5>1. r \in T \ {c} <=> r \in T
          BY <4>2
        <5>2. QED
          BY <3>2, <3>3, <3>4, <4>2, <5>1
      <4>3. QED
        BY <4>1, <4>2
    <3>6. QED
      BY <3>1, <3>5
  <2>3. C = {}
    <3> HIDE DEF C
    <3>1. C \in SUBSET SUBSET S
      BY DEF C
    <3>2. QED
      BY <1>4, <2>1, <2>2, <3>1
  <2>4. S \notin C /\ S \in SUBSET S
    BY <2>3
  <2>5. QED
    BY <2>4
<1>9. ASSUME \A s \in S : K[s][e] = 0 PROVE g[S] = 0
  <2> DEFINE C == {T \in SUBSET S : g[T] # 0}
  <2>1. {} \notin C
    BY <1>e
  <2>2. ASSUME NEW T \in C, T # {} PROVE T \ {Chosen(T)} \in C
    <3>1. K[Chosen(T)][e] = 0 /\ T \ {Chosen(T)} \in SUBSET S
      BY <1>5, <1>9, <2>2
    <3>2. g[T] = K[Chosen(T)][e] + g[T \ {Chosen(T)}] /\ g[T \ {Chosen(T)}] \in Nat
      BY <1>3, <1>6, <2>2
    <3>3. QED
      BY <3>1, <3>2
  <2>3. C = {}
    <3> HIDE DEF C
    <3>1. C \in SUBSET SUBSET S
      BY DEF C
    <3>2. QED
      BY <1>4, <2>1, <2>2, <3>1
  <2>4. QED
    BY <2>3
<1>10. QED
  BY <1>1, <1>2, <1>6, <1>7, <1>8, <1>9

-------------------------------------------------------------------------------
(* Expert capacity *)

LEMMA MinOfTwo ==
  ASSUME NEW a \in Nat, NEW b \in Nat
  PROVE  Min({a, b}) = IF a <= b THEN a ELSE b
<1>1. PICK m \in {a, b} : \A y \in {a, b} : m <= y
  OBVIOUS
<1>2. Min({a, b}) \in {a, b} /\ \A y \in {a, b} : Min({a, b}) <= y
  BY <1>1 DEF Min
<1>3. QED
  BY <1>2

\* The counts of tokens have their types, and the capacity has been kept so far.
RouteInv ==
  /\ at \in Nat
  /\ raw \in [Node -> [Expert -> Nat]] /\ kept \in [Node -> [Expert -> Nat]]
  /\ CapacityHeld

\* What has been kept for an expert is a number; one token more is one more.
LEMMA KeptFacts ==
  ASSUME AllToAllAssumption, kept \in [Node -> [Expert -> Nat]], NEW e \in Expert
  PROVE  /\ KeptBy(e) \in Nat
         /\ kept' = kept => KeptBy(e)' = KeptBy(e)
         /\ (\A s \in Node : kept[s][e] = 0) => KeptBy(e) = 0
         /\ \A r \in Node, x \in Expert : kept' = [kept EXCEPT ![r][x] = @ + 1] =>
              KeptBy(e)' = IF e = x THEN KeptBy(e) + 1 ELSE KeptBy(e)
<1>1. IsFiniteSet(Node) /\ \A s \in Node : kept[s][e] \in Nat
  <2>1. IsFiniteSet(Node)
    BY FS_Interval DEF Node, Nodes
  <2>2. QED
    BY <2>1
<1>2. KeptBy(e) = Total(kept, e, Node) /\ KeptBy(e)' = Total(kept', e, Node)
  BY DEF KeptBy
<1>3. Total(kept, e, Node) \in Nat /\ ((\A s \in Node : kept[s][e] = 0) => Total(kept, e, Node) = 0)
  BY <1>1, SumFacts
<1>4. ASSUME NEW r \in Node, NEW x \in Expert, kept' = [kept EXCEPT ![r][x] = @ + 1]
      PROVE  Total(kept', e, Node) = IF e = x THEN Total(kept, e, Node) + 1 ELSE Total(kept, e, Node)
  <2>1. \A s \in Node : kept'[s][e] = IF s = r /\ e = x THEN kept[s][e] + 1 ELSE kept[s][e]
    BY <1>4
  <2>2. \A s \in Node : kept'[s][e] \in Nat
    BY <1>1, <2>1
  <2>3. CASE e = x
    <3>1. \A s \in Node : kept'[s][e] = IF s = r THEN kept[s][e] + 1 ELSE kept[s][e]
      BY <2>1, <2>3
    <3>2. PICK K, J : K = kept /\ J = kept'
      OBVIOUS
    <3>3. \A s \in Node : K[s][e] \in Nat /\ J[s][e] \in Nat
      BY <1>1, <2>2, <3>2
    <3>4. \A s \in Node : J[s][e] = IF s = r THEN K[s][e] + 1 ELSE K[s][e]
      BY <3>1, <3>2
    <3>5. Total(J, e, Node) = Total(K, e, Node) + 1
      BY <1>1, <3>3, <3>4, SumFacts
    <3>6. QED
      BY <2>3, <3>2, <3>5
  <2>4. CASE e # x
    <3>1. \A s \in Node : kept'[s][e] = kept[s][e]
      BY <2>1, <2>4
    <3>2. QED
      BY <1>1, <2>2, <2>4, <3>1, SumFacts
  <2>5. QED
    BY <2>3, <2>4
<1>5. kept' = kept => Total(kept', e, Node) = Total(kept, e, Node)
  OBVIOUS
<1>6. QED
  BY <1>2, <1>3, <1>4, <1>5

\* One token for one expert, kept if the expert has room
LEMMA CountFacts ==
  ASSUME AllToAllAssumption, RouteInv, NEW s, NEW x \in Routes[s], NEW room \in BOOLEAN, Count(s, x, room)
  PROVE  /\ at' \in Nat /\ kind' = kind
         /\ raw' \in [Node -> [Expert -> Nat]] /\ kept' \in [Node -> [Expert -> Nat]]
         /\ s \notin Node => raw' = raw /\ kept' = kept
         /\ s \in Node => x \in Expert
         /\ \A n \in Node, e \in Expert :
              /\ raw'[n][e] = IF n = s /\ e = x THEN raw[n][e] + 1 ELSE raw[n][e]
              /\ kept'[n][e] = IF n = s /\ e = x /\ room THEN kept[n][e] + 1 ELSE kept[n][e]
<1>1. s \in Node => x \in Expert
  BY DEF AllToAllAssumption
<1>2. /\ at \in Nat /\ raw \in [Node -> [Expert -> Nat]] /\ kept \in [Node -> [Expert -> Nat]]
      /\ at' = at + 1 /\ kind' = kind /\ raw' = [raw EXCEPT ![s][x] = @ + 1]
      /\ kept' = IF room THEN [kept EXCEPT ![s][x] = @ + 1] ELSE kept
  BY DEF RouteInv, Count
<1>3. CASE s \notin Node
  <2>1. raw' = raw /\ kept' = kept
    BY <1>2, <1>3
  <2>2. \A n \in Node, e \in Expert : n # s /\ raw'[n][e] = raw[n][e] /\ kept'[n][e] = kept[n][e]
    BY <1>3, <2>1
  <2>3. ASSUME NEW n \in Node, NEW e \in Expert
        PROVE  /\ raw'[n][e] = IF n = s /\ e = x THEN raw[n][e] + 1 ELSE raw[n][e]
               /\ kept'[n][e] = IF n = s /\ e = x /\ room THEN kept[n][e] + 1 ELSE kept[n][e]
    BY <2>2
  <2>4. /\ at' \in Nat /\ kind' = kind
        /\ raw' \in [Node -> [Expert -> Nat]] /\ kept' \in [Node -> [Expert -> Nat]]
    <3>1. at' \in Nat /\ kind' = kind
      BY <1>2
    <3>2. QED
      BY <1>2, <2>1, <3>1, Zenon
  <2>5. QED
    BY <1>3, <2>1, <2>3, <2>4
<1>4. CASE s \in Node
  <2>1. raw[s] \in [Expert -> Nat] /\ kept[s] \in [Expert -> Nat] /\ x \in Expert
    BY <1>1, <1>2, <1>4
  <2>2. raw' = [raw EXCEPT ![s] = [raw[s] EXCEPT ![x] = raw[s][x] + 1]]
    BY <1>2
  <2>3. raw' \in [Node -> [Expert -> Nat]] /\ \A n \in Node, e \in Expert :
          raw'[n][e] = IF n = s /\ e = x THEN raw[n][e] + 1 ELSE raw[n][e]
    BY <1>2, <1>4, <2>1, <2>2
  <2>4. kept' \in [Node -> [Expert -> Nat]] /\ \A n \in Node, e \in Expert :
          kept'[n][e] = IF n = s /\ e = x /\ room THEN kept[n][e] + 1 ELSE kept[n][e]
    <3>1. CASE room
      <4>1. kept' = [kept EXCEPT ![s] = [kept[s] EXCEPT ![x] = kept[s][x] + 1]]
        BY <1>2, <3>1
      <4>2. QED
        BY <1>2, <1>4, <2>1, <3>1, <4>1
    <3>2. CASE ~room
      BY <1>2, <3>2
    <3>3. QED
      BY <3>1, <3>2
  <2>5. QED
    BY <1>1, <1>2, <1>4, <2>3, <2>4
<1>5. QED
  BY <1>3, <1>4

\* apply_capacity of "routed": while an expert has room it has dropped nothing.
LEMMA RoutedCount ==
  ASSUME AllToAllAssumption, RouteInv, kind = "routed", RouteUnderCapacity
  PROVE  RouteInv'
<1>1. PICK s, x : s = at % Nodes /\ x \in Routes[s] /\ Count(s, x, KeptBy(x) < Capacity)
  BY DEF RouteUnderCapacity
<1>2. s \in Node /\ x \in Expert
  <2>1. at \in Nat /\ Nodes \in Nat \ {0}
    BY DEF RouteInv, AllToAllAssumption
  <2>2. s \in Node
    BY <1>1, <2>1, SMTT(30) DEF Node, Nodes
  <2>3. QED
    BY <1>1, <2>2 DEF AllToAllAssumption
<1>3. PICK room : room = IF KeptBy(x) < Capacity THEN TRUE ELSE FALSE
  OBVIOUS
<1>4. room \in BOOLEAN /\ Count(s, x, room)
  BY <1>1, <1>3 DEF Count
<1>5. /\ at' \in Nat /\ kind' = kind
      /\ raw' \in [Node -> [Expert -> Nat]] /\ kept' \in [Node -> [Expert -> Nat]]
      /\ \A n \in Node, e \in Expert :
           /\ raw'[n][e] = IF n = s /\ e = x THEN raw[n][e] + 1 ELSE raw[n][e]
           /\ kept'[n][e] = IF n = s /\ e = x /\ room THEN kept[n][e] + 1 ELSE kept[n][e]
  BY <1>1, <1>2, <1>4, CountFacts
<1>6. kept' = IF room THEN [kept EXCEPT ![s][x] = @ + 1] ELSE kept
  BY <1>4 DEF Count
<1>7. ASSUME NEW e \in Expert
      PROVE  /\ KeptBy(e)' <= Capacity
             /\ (\E n \in Node : kept'[n][e] < raw'[n][e]) => KeptBy(e)' = Capacity
  <2>1. PICK old, new : old = KeptBy(e) /\ new = KeptBy(e)'
    OBVIOUS
  <2>2. /\ old \in Nat /\ old <= Capacity
        /\ (\E n \in Node : kept[n][e] < raw[n][e]) => old = Capacity
    BY <2>1, KeptFacts DEF RouteInv, CapacityHeld
  <2>3. new = IF e = x /\ room THEN old + 1 ELSE old
    <3>1. CASE room
      BY <1>2, <1>6, <2>1, <3>1, KeptFacts DEF RouteInv
    <3>2. CASE ~room
      BY <1>6, <2>1, <3>2, KeptFacts DEF RouteInv
    <3>3. QED
      BY <3>1, <3>2
  <2>4. e = x => (room <=> old < Capacity)
    <3>1. room <=> KeptBy(x) < Capacity
      BY <1>3
    <3>2. QED
      BY <2>1, <3>1
  <2>5. Capacity \in Nat
    BY DEF AllToAllAssumption
  <2>6. \A n \in Node : raw[n][e] \in Nat /\ kept[n][e] \in Nat
    BY DEF RouteInv
  <2>7. CASE e = x /\ room
    <3>1. ASSUME NEW n \in Node, kept'[n][e] < raw'[n][e] PROVE kept[n][e] < raw[n][e]
      <4>1. /\ raw'[n][e] = IF n = s THEN raw[n][e] + 1 ELSE raw[n][e]
            /\ kept'[n][e] = IF n = s THEN kept[n][e] + 1 ELSE kept[n][e]
        BY <1>5, <2>7
      <4>2. QED
        BY <2>6, <3>1, <4>1
    <3>2. old < Capacity /\ new = old + 1
      BY <2>3, <2>4, <2>7
    <3>3. ~ \E n \in Node : kept'[n][e] < raw'[n][e]
      BY <2>2, <2>5, <3>1, <3>2
    <3>4. QED
      BY <2>1, <2>2, <2>5, <3>2, <3>3
  <2>8. CASE e = x /\ ~room
    BY <2>1, <2>2, <2>3, <2>4, <2>5, <2>8
  <2>9. CASE e # x
    <3>1. \A n \in Node : raw'[n][e] = raw[n][e] /\ kept'[n][e] = kept[n][e]
      BY <1>5, <2>9
    <3>2. QED
      BY <2>1, <2>2, <2>3, <2>9, <3>1
  <2>10. QED
    BY <2>7, <2>8, <2>9
<1>8. CapacityHeld'
  BY <1>5, <1>7 DEF CapacityHeld
<1>9. QED
  BY <1>5, <1>8 DEF RouteInv

\* keep_by_capacity and the tiles count for each source of its own.
LEMMA OwnCount ==
  ASSUME AllToAllAssumption, RouteInv, kind # "routed", RoutePerSource \/ RouteTile
  PROVE  RouteInv'
<1>1. PICK s, x, room :
        /\ x \in Routes[s] /\ room \in BOOLEAN /\ Count(s, x, room)
        /\ room <=> raw[s][x] < Capacity \/ (kind = "tiles" /\ Capacity = 0)
  <2>1. CASE RoutePerSource
    <3>1. PICK s, x : x \in Routes[s] /\ Count(s, x, raw[s][x] < Capacity) /\ kind = "checkpoint"
      BY <2>1 DEF RoutePerSource
    <3>2. PICK room : room = IF raw[s][x] < Capacity THEN TRUE ELSE FALSE
      OBVIOUS
    <3>3. room \in BOOLEAN /\ Count(s, x, room) /\ (room <=> raw[s][x] < Capacity)
      BY <3>1, <3>2 DEF Count
    <3>4. QED
      BY <3>1, <3>3
  <2>2. CASE RouteTile
    <3>1. PICK s, x : x \in Routes[s] /\ Count(s, x, Capacity = 0 \/ raw[s][x] < Capacity) /\ kind = "tiles"
      BY <2>2 DEF RouteTile
    <3>2. PICK room : room = IF Capacity = 0 \/ raw[s][x] < Capacity THEN TRUE ELSE FALSE
      OBVIOUS
    <3>3. room \in BOOLEAN /\ Count(s, x, room) /\ (room <=> Capacity = 0 \/ raw[s][x] < Capacity)
      BY <3>1, <3>2 DEF Count
    <3>4. QED
      BY <3>1, <3>3
  <2>3. QED
    BY <2>1, <2>2
<1>2. /\ at' \in Nat /\ kind' = kind
      /\ raw' \in [Node -> [Expert -> Nat]] /\ kept' \in [Node -> [Expert -> Nat]]
      /\ s \notin Node => raw' = raw /\ kept' = kept
      /\ s \in Node => x \in Expert
      /\ \A n \in Node, e \in Expert :
           /\ raw'[n][e] = IF n = s /\ e = x THEN raw[n][e] + 1 ELSE raw[n][e]
           /\ kept'[n][e] = IF n = s /\ e = x /\ room THEN kept[n][e] + 1 ELSE kept[n][e]
  BY <1>1, CountFacts
<1>3. ASSUME NEW e \in Expert, NEW n \in Node
      PROVE  kept'[n][e] = IF kind' = "tiles" /\ Capacity = 0 THEN raw'[n][e] ELSE Min({raw'[n][e], Capacity})
  <2>1. PICK r, k : r = raw[n][e] /\ k = kept[n][e]
    OBVIOUS
  <2>2. r \in Nat /\ k \in Nat /\ Capacity \in Nat
    BY <2>1 DEF RouteInv, AllToAllAssumption
  <2>3. k = IF kind = "tiles" /\ Capacity = 0 THEN r ELSE Min({r, Capacity})
    BY <2>1 DEF RouteInv, CapacityHeld
  <2>4. /\ Min({r, Capacity}) = IF r <= Capacity THEN r ELSE Capacity
        /\ Min({r + 1, Capacity}) = IF r + 1 <= Capacity THEN r + 1 ELSE Capacity
    BY <2>2, MinOfTwo
  <2>5. CASE n = s /\ e = x
    <3>1. raw'[n][e] = r + 1 /\ kept'[n][e] = IF room THEN k + 1 ELSE k
      BY <1>2, <2>1, <2>5
    <3>2. room <=> r < Capacity \/ (kind = "tiles" /\ Capacity = 0)
      BY <1>1, <2>1, <2>5
    <3>3. (IF room THEN k + 1 ELSE k) =
            IF kind = "tiles" /\ Capacity = 0 THEN r + 1 ELSE IF r + 1 <= Capacity THEN r + 1 ELSE Capacity
      BY <2>2, <2>3, <2>4, <3>2
    <3>4. QED
      BY <1>2, <2>4, <3>1, <3>3
  <2>6. CASE ~(n = s /\ e = x)
    BY <1>2, <2>1, <2>3, <2>6
  <2>7. QED
    BY <2>5, <2>6
<1>4. CapacityHeld'
  BY <1>2, <1>3 DEF CapacityHeld
<1>5. QED
  BY <1>2, <1>4 DEF RouteInv

\* Nothing after the routing counts tokens.
LEMMA OthersKeep ==
  ASSUME AllToAllAssumption, RouteInv,
         \/ Check \/ Routed \/ EmitPair \/ Emitted \/ LayerRow \/ LayerDone \/ BuildBench \/ RunPopNet
         \/ UNCHANGED vars
  PROVE  RouteInv'
<1>1. at' \in Nat
  <2>1. at \in Nat
    BY DEF RouteInv
  <2>2. at' \in {at, at + 1, at + 2, 0, 1}
    <3>1. CASE Check \/ Routed \/ LayerDone \/ UNCHANGED vars
      BY <3>1 DEF Check, Routed, LayerDone, vars
    <3>2. CASE EmitPair
      <4>1. at' = at + 1
        BY <3>2, Zenon DEF EmitPair
      <4>2. QED
        BY <4>1
    <3>3. CASE Emitted
      <4>1. at' = 1
        BY <3>3, Zenon DEF Emitted
      <4>2. QED
        BY <4>1
    <3>4. CASE LayerRow
      <4>1. at' = at + 2
        BY <3>4, Zenon DEF LayerRow
      <4>2. QED
        BY <4>1
    <3>5. CASE BuildBench \/ RunPopNet
      <4>1. at' = at
        BY <3>5, Zenon DEF BuildBench, RunPopNet
      <4>2. QED
        BY <4>1
    <3>6. QED
      BY <3>1, <3>2, <3>3, <3>4, <3>5
  <2>3. QED
    BY <2>1, <2>2
<1>2. raw' = raw /\ kept' = kept /\ kind' = kind
  <2>1. CASE Check \/ Routed \/ LayerDone \/ BuildBench \/ RunPopNet \/ UNCHANGED vars
    BY <2>1 DEF Check, Routed, LayerDone, BuildBench, RunPopNet, vars, trace
  <2>2. CASE EmitPair
    BY <2>2 DEF EmitPair
  <2>3. CASE Emitted \/ LayerRow
    BY <2>3 DEF Emitted, LayerRow
  <2>4. QED
    BY <2>1, <2>2, <2>3
<1>3. \A e \in Expert : KeptBy(e)' = KeptBy(e)
  BY <1>2 DEF KeptBy
<1>4. QED
  BY <1>1, <1>2, <1>3 DEF RouteInv, CapacityHeld

\* Nothing has been routed at first.
LEMMA RouteInvInit ==
  ASSUME AllToAllAssumption, Init
  PROVE  RouteInv
<1>1. /\ at = 0 /\ raw = [n \in Node |-> [e \in Expert |-> 0]] /\ kept = raw
  BY DEF Init
<1>2. /\ raw \in [Node -> [Expert -> Nat]] /\ kept \in [Node -> [Expert -> Nat]] /\ at \in Nat
      /\ \A n \in Node, e \in Expert : raw[n][e] = 0 /\ kept[n][e] = 0
  BY <1>1
<1>3. Capacity \in Nat
  BY DEF AllToAllAssumption
<1>4. Min({0, Capacity}) = 0
  BY <1>3, MinOfTwo
<1>5. ASSUME NEW e \in Expert PROVE KeptBy(e) = 0
  BY <1>2, KeptFacts
<1>6. CapacityHeld
  <2>1. ASSUME NEW e \in Expert PROVE KeptBy(e) <= Capacity
    BY <1>3, <1>5
  <2>2. ASSUME NEW e \in Expert, NEW n \in Node
        PROVE  /\ ~(kept[n][e] < raw[n][e])
               /\ kept[n][e] = IF kind = "tiles" /\ Capacity = 0 THEN raw[n][e] ELSE Min({raw[n][e], Capacity})
    <3>1. raw[n][e] = 0 /\ kept[n][e] = 0
      BY <1>2
    <3>2. PICK x, y : x = raw[n][e] /\ y = kept[n][e]
      OBVIOUS
    <3>3. ~(y < x) /\ Min({x, Capacity}) = 0
      BY <1>4, <3>1, <3>2
    <3>4. y = IF kind = "tiles" /\ Capacity = 0 THEN x ELSE Min({x, Capacity})
      BY <3>1, <3>2, <3>3
    <3>5. QED
      BY <3>2, <3>3, <3>4, Zenon
  <2>3. QED
    BY <2>1, <2>2 DEF CapacityHeld
<1>7. QED
  BY <1>2, <1>6 DEF RouteInv

\* No step lets an expert take too much.
LEMMA RouteStep ==
  ASSUME AllToAllAssumption, RouteInv, [Next]_vars
  PROVE  RouteInv'
<1>1. CASE RouteUnderCapacity
  <2>1. kind = "routed"
    BY <1>1 DEF RouteUnderCapacity
  <2>2. QED
    BY <1>1, <2>1, RoutedCount
<1>2. CASE RoutePerSource \/ RouteTile
  <2>1. kind # "routed"
    BY <1>2 DEF RoutePerSource, RouteTile
  <2>2. QED
    BY <1>2, <2>1, OwnCount
<1>3. CASE \/ Check \/ Routed \/ EmitPair \/ Emitted \/ LayerRow \/ LayerDone \/ BuildBench \/ RunPopNet
           \/ UNCHANGED vars
  BY <1>3, OthersKeep
<1>4. QED
  BY <1>1, <1>2, <1>3 DEF Next

\* apply_capacity, keep_by_capacity and run_switch_tile_routes.py, for every router, every number of sources,
\* experts and tokens and every capacity: an expert never takes more than its capacity, and a token is
\* dropped only when there is no room for it.
THEOREM CapacityNeverExceeded == Spec => []CapacityHeld
<1>1. Init => RouteInv
  BY AllToAllAssumption, RouteInvInit
<1>2. RouteInv /\ [Next]_vars => RouteInv'
  BY AllToAllAssumption, RouteStep
<1>3. RouteInv => CapacityHeld
  BY DEF RouteInv
<1>4. QED
  BY <1>1, <1>2, <1>3, PTL DEF Spec

-------------------------------------------------------------------------------
(* Times of hops *)

\* What the constants are
LEMMA Numbers ==
  ASSUME AllToAllAssumption
  PROVE  /\ Ary \in Nat \ {0} /\ Dims \in Nat \ {0} /\ Experts \in Nat \ {0} /\ FlitSize \in Nat \ {0}
         /\ TokenBytes \in Nat \ {0} /\ Nodes \in Nat \ {0}
         /\ Capacity \in Nat /\ InjectGap \in Nat /\ ChunkGap \in Nat /\ HopDelay \in Nat /\ Slack \in Nat
         /\ Node = 0 .. Nodes - 1 /\ IsFiniteSet(Node) /\ Cardinality(Node) = Nodes
         /\ IsFiniteSet(Dim) /\ IsFiniteSet(Expert) /\ Cardinality(Expert) = Experts
<1>1. /\ Ary \in Nat \ {0} /\ Dims \in Nat \ {0} /\ Experts \in Nat \ {0} /\ FlitSize \in Nat \ {0}
      /\ TokenBytes \in Nat \ {0} /\ Nodes \in Nat \ {0}
      /\ Capacity \in Nat /\ InjectGap \in Nat /\ ChunkGap \in Nat /\ HopDelay \in Nat /\ Slack \in Nat
  BY AllToAllAssumption
<1>2. Node = 0 .. Nodes - 1
  BY DEF Node, Nodes
<1>3. ASSUME NEW n \in Nat \ {0} PROVE IsFiniteSet(0 .. n - 1) /\ Cardinality(0 .. n - 1) = n
  <2>1. PICK m \in Int : m = n - 1 /\ ~(0 > m) /\ m - 0 + 1 = n
    OBVIOUS
  <2>2. 0 \in Int
    OBVIOUS
  <2>3. IsFiniteSet(0 .. m) /\ Cardinality(0 .. m) = IF 0 > m THEN 0 ELSE m - 0 + 1
    BY <2>2, FS_Interval
  <2>4. QED
    BY <2>1, <2>3
<1>4. IsFiniteSet(Node) /\ Cardinality(Node) = Nodes
  BY <1>1, <1>2, <1>3
<1>5. IsFiniteSet(Dim)
  BY <1>1, <1>3 DEF Dim
<1>6. IsFiniteSet(Expert) /\ Cardinality(Expert) = Experts
  BY <1>1, <1>3 DEF Expert
<1>7. QED
  BY <1>1, <1>2, <1>4, <1>5, <1>6

\* topology.py: a node has a coordinate in every dimension.
Coord == [Dim -> 0 .. Ary - 1]
LEMMA Coordinates ==
  ASSUME AllToAllAssumption, TimesAssumption, NEW n \in Nat
  PROVE  NodeToCoord(n) \in Coord
<1>1. Ary \in Nat \ {0} /\ Dims \in Nat \ {0}
  BY Numbers
<1>2. ASSUME NEW d \in Dim PROVE (n \div Ary^(Dims - 1 - d)) % Ary \in 0 .. Ary - 1
  <2>1. Dims - 1 - d \in Dim
    BY <1>1 DEF Dim
  <2>2. Ary^(Dims - 1 - d) \in Nat \ {0}
    BY <2>1 DEF TimesAssumption
  <2>3. PICK P \in Nat \ {0} : P = Ary^(Dims - 1 - d)
    BY <2>2
  <2>4. PICK x \in Nat : x = n \div P
    BY Divided
  <2>5. x % Ary \in Nat /\ x % Ary < Ary
    BY <1>1, <2>4, Divided
  <2>6. x % Ary \in 0 .. Ary - 1
    BY <1>1, <2>5
  <2>7. QED
    BY <2>3, <2>4, <2>6
<1>3. QED
  BY <1>2 DEF NodeToCoord, Coord

\* The way around a ring is a number of hops ...
LEMMA HopsAreNumbers ==
  ASSUME AllToAllAssumption, NEW a \in 0 .. Ary - 1, NEW b \in 0 .. Ary - 1
  PROVE  HopsInDim(a, b) \in Nat
<1>1. Ary \in Nat \ {0}
  BY Numbers
<1>2. PICK x \in Nat, y \in Nat : x = (IF a < b THEN b - a ELSE a - b) /\ y = Ary - x
  <2>1. (IF a < b THEN b - a ELSE a - b) \in Nat /\ Ary - (IF a < b THEN b - a ELSE a - b) \in Nat
    BY <1>1
  <2>2. QED
    BY <2>1
<1>3. Min({x, y}) \in Nat
  BY MinOfTwo
<1>4. HopsInDim(a, b) = Min({x, y})
  BY <1>2 DEF HopsInDim
<1>5. QED
  BY <1>3, <1>4

\* ... and so is the distance of two nodes.
LEMMA DistanceIsNumber ==
  ASSUME AllToAllAssumption, NEW src \in Coord, NEW dst \in Coord
  PROVE  Distance(src, dst) \in Nat
<1> DEFINE F == [d \in Dim |-> HopsInDim(src[d], dst[d])]
           Body(g) == [T \in SUBSET Dim |->
                         IF T = {} THEN 0 ELSE HopsInDim(src[Chosen(T)], dst[Chosen(T)]) + g[T \ {Chosen(T)}]]
<1>1. IsFiniteSet(Dim)
  BY Numbers
<1>2. \A d \in Dim : F[d] = HopsInDim(src[d], dst[d])
  OBVIOUS
<1>3. \A d \in Dim : F[d] \in Nat
  BY HopsAreNumbers DEF Coord
<1>4. ASSUME NEW g PROVE Sums(g, F, Dim) <=> g = Body(g)
  <2> HIDE DEF F
  <2>1. \A T \in SUBSET Dim : T # {} => F[Chosen(T)] = HopsInDim(src[Chosen(T)], dst[Chosen(T)])
    BY <1>2 DEF Chosen
  <2>2. \A T \in SUBSET Dim : (IF T = {} THEN 0 ELSE F[Chosen(T)] + g[T \ {Chosen(T)}])
          = IF T = {} THEN 0 ELSE HopsInDim(src[Chosen(T)], dst[Chosen(T)]) + g[T \ {Chosen(T)}]
    BY <2>1
  <2>3. [T \in SUBSET Dim |-> IF T = {} THEN 0 ELSE F[Chosen(T)] + g[T \ {Chosen(T)}]] = Body(g)
    BY <2>2, Zenon
  <2> HIDE DEF Body
  <2>4. QED
    BY <2>3 DEF Sums
<1> HIDE DEF F
<1>5. PICK f : Sums(f, F, Dim)
  BY <1>1, SumsExist
<1>6. f = Body(f)
  <2> HIDE DEF Body
  <2>1. QED
    BY <1>4, <1>5
<1>7. Distance(src, dst) = (CHOOSE g : g = Body(g))[Dim]
  BY DEF Distance, MapThenSumSet, MapThenFoldSet, Chosen
<1> HIDE DEF Body
<1>8. PICK g : g = CHOOSE h : h = Body(h)
  OBVIOUS
<1>9. Sums(g, F, Dim) /\ Distance(src, dst) = g[Dim]
  <2>1. g = Body(g)
    BY <1>6, <1>8
  <2>2. QED
    BY <1>4, <1>7, <1>8, <2>1
<1>10. g[Dim] \in Nat
  <2>1. \A T \in SUBSET Dim : g[T] \in Nat
    BY <1>1, <1>3, <1>9, SumsFacts
  <2>2. QED
    BY <2>1
<1>11. QED
  BY <1>9, <1>10

\* timing.py: every estimate is a number of cycles.
LEMMA EstimateIsNumber ==
  ASSUME AllToAllAssumption, NEW hops \in Nat, NEW flits \in Nat
  PROVE  Estimate(hops, flits) \in Nat
<1>1. PICK h \in Nat, s \in Nat : h = HopDelay /\ s = 100 + Slack
  BY Numbers
<1>2. hops * h \in Nat /\ flits * 100 \in Nat
  BY Multiples
<1>3. PICK x \in Nat : x = hops * h + flits * 100
  BY <1>2
<1>4. x * s \in Nat
  BY Multiples
<1>5. PICK y \in Nat : y = x * s
  BY <1>4
<1>6. y \div 10000 \in Nat
  BY Divided
<1>7. Estimate(hops, flits) = (y \div 10000) + 1
  BY <1>1, <1>3, <1>5 DEF Estimate
<1>8. QED
  BY <1>6, <1>7

\* The time of a hop is one as well.
LEMMA HopIsNumber ==
  ASSUME AllToAllAssumption, NEW src \in Coord, NEW dst \in Coord, NEW flits \in Nat
  PROVE  HopCycles(src, dst, flits) \in Nat
BY DistanceIsNumber, EstimateIsNumber DEF HopCycles

\* A packet passes nodes: each point of the way of a row has coordinates.
LEMMA PathFacts ==
  ASSUME AllToAllAssumption, TimesAssumption, NEW r, r.src \in Nat, r.dst \in Nat
  PROVE  \A j \in 0 .. Dims : PathOf(r)[j] \in Coord
<1>1. PICK s, t, o : s = NodeToCoord(r.src) /\ t = NodeToCoord(r.dst) /\ o = DimRotation(r.chunk)
  OBVIOUS
<1>2. s \in Coord /\ t \in Coord
  BY <1>1, Coordinates
<1>3. PathOf(r) = DimOrderPath(s, t, o)
  BY <1>1 DEF PathOf
<1>4. ASSUME NEW j \in 0 .. Dims
      PROVE  [d \in Dim |-> IF \E k \in 0 .. j - 1 : o[k] = d THEN t[d] ELSE s[d]] \in Coord
  BY <1>2 DEF Coord
<1>5. QED
  BY <1>3, <1>4 DEF DimOrderPath

\* The time of the first hops of a row is a sum of the times of the hops.
HopOf(r, j) == HopCycles(PathOf(r)[j], PathOf(r)[j + 1], r.flits)
LEMMA ElapsedIs ==
  ASSUME NEW r, NEW i, IsFiniteSet(0 .. i - 1)
  PROVE  \E g : Sums(g, [j \in 0 .. i - 1 |-> HopOf(r, j)], 0 .. i - 1) /\ Elapsed(r, i) = g[0 .. i - 1]
<1> DEFINE S == 0 .. i - 1
           F == [j \in S |-> HopOf(r, j)]
           Body(g) == [T \in SUBSET S |-> IF T = {} THEN 0 ELSE HopOf(r, Chosen(T)) + g[T \ {Chosen(T)}]]
<1>1. Elapsed(r, i) = (CHOOSE g : g = Body(g))[S]
  BY DEF Elapsed, HopOf, MapThenSumSet, MapThenFoldSet, Chosen
<1> HIDE DEF S
<1>2. \A j \in S : F[j] = HopOf(r, j)
  OBVIOUS
<1>3. IsFiniteSet(S)
  BY DEF S
<1>4. ASSUME NEW g PROVE Sums(g, F, S) <=> g = Body(g)
  <2> HIDE DEF F
  <2>1. \A T \in SUBSET S : T # {} => F[Chosen(T)] = HopOf(r, Chosen(T))
    BY <1>2 DEF Chosen
  <2>2. \A T \in SUBSET S : (IF T = {} THEN 0 ELSE F[Chosen(T)] + g[T \ {Chosen(T)}])
          = IF T = {} THEN 0 ELSE HopOf(r, Chosen(T)) + g[T \ {Chosen(T)}]
    BY <2>1
  <2>3. [T \in SUBSET S |-> IF T = {} THEN 0 ELSE F[Chosen(T)] + g[T \ {Chosen(T)}]] = Body(g)
    BY <2>2, Zenon
  <2> HIDE DEF Body
  <2>4. QED
    BY <2>3 DEF Sums
<1> HIDE DEF F, Body
<1>5. PICK f : Sums(f, F, S)
  BY <1>3, SumsExist
<1>6. PICK g : g = CHOOSE h : h = Body(h)
  OBVIOUS
<1>7. Sums(g, F, S) /\ Elapsed(r, i) = g[S]
  <2>1. f = Body(f)
    BY <1>4, <1>5
  <2>2. g = Body(g)
    BY <1>6, <2>1
  <2>3. QED
    BY <1>1, <1>4, <1>6, <2>2
<1>8. QED
  BY <1>7 DEF F, S

\* The numbers up to the next
LEMMA UpTo ==
  ASSUME NEW k \in Nat
  PROVE  0 .. k = 0 .. (k + 1) - 1 /\ k \in 0 .. k /\ (0 .. k) \ {k} = 0 .. k - 1 /\ 0 .. k - 1 \subseteq 0 .. k
<1>1. (k + 1) - 1 = k
  OBVIOUS
<1>2. (0 .. k) \ {k} = 0 .. k - 1
  OBVIOUS
<1>3. k \in 0 .. k
  OBVIOUS
<1>4. 0 .. k - 1 \subseteq 0 .. k
  OBVIOUS
<1>5. QED
  BY <1>1, <1>2, <1>3, <1>4, Zenon

\* The dimensions are numbers below Dims.
LEMMA DimFacts ==
  ASSUME AllToAllAssumption
  PROVE  /\ \A i \in Dim : i \in Nat /\ i \in 0 .. Dims - 1 /\ i \in 0 .. Dims /\ i + 1 \in 0 .. Dims /\ i + 1 <= Dims
         /\ Dims \in 0 .. Dims /\ \A i, j \in Dim : i < j => i + 1 <= j
<1>1. PICK D \in Nat : D = Dims
  BY Numbers
<1>2. Dim = 0 .. D - 1
  BY <1>1 DEF Dim
<1>3. \A i \in 0 .. D - 1 : i \in Nat /\ i \in 0 .. D /\ i + 1 \in 0 .. D /\ i + 1 <= D
  OBVIOUS
<1>4. D \in 0 .. D /\ \A i, j \in 0 .. D - 1 : i < j => i + 1 <= j
  OBVIOUS
<1>5. QED
  BY <1>1, <1>2, <1>3, <1>4, Zenon

\* It grows by a hop at a time.
LEMMA ElapsedFacts ==
  ASSUME AllToAllAssumption, TimesAssumption, NEW r, r.src \in Nat, r.dst \in Nat, r.flits \in Nat
  PROVE  /\ \A j \in 0 .. Dims - 1 : HopOf(r, j) \in Nat
         /\ \A i \in 0 .. Dims : Elapsed(r, i) \in Nat
         /\ \A i \in 0 .. Dims - 1 : Elapsed(r, i + 1) = Elapsed(r, i) + HopOf(r, i)
         /\ \A i, j \in 0 .. Dims : i <= j => Elapsed(r, i) <= Elapsed(r, j)
<1>1. Dims \in Nat \ {0}
  BY Numbers
<1>2. \A j \in 0 .. Dims - 1 : HopOf(r, j) \in Nat
  <2>1. TAKE j \in 0 .. Dims - 1
  <2>2. j \in 0 .. Dims /\ j + 1 \in 0 .. Dims
    BY <1>1
  <2>3. PathOf(r)[j] \in Coord /\ PathOf(r)[j + 1] \in Coord
    BY <2>2, PathFacts
  <2>4. QED
    BY <2>3, HopIsNumber DEF HopOf
<1>3. ASSUME NEW i \in 0 .. Dims
      PROVE  /\ IsFiniteSet(0 .. i - 1)
             /\ \E g, F : /\ Sums(g, F, 0 .. i - 1) /\ Elapsed(r, i) = g[0 .. i - 1]
                          /\ \A j \in 0 .. i - 1 : F[j] = HopOf(r, j) /\ F[j] \in Nat
  <2>1. PICK m \in Int : m = i - 1
    BY <1>1
  <2>2. 0 \in Int
    OBVIOUS
  <2>3. IsFiniteSet(0 .. m)
    BY <2>2, FS_Interval
  <2>4. IsFiniteSet(0 .. i - 1)
    BY <2>1, <2>3
  <2>5. PICK F : F = [j \in 0 .. i - 1 |-> HopOf(r, j)]
    OBVIOUS
  <2>6. PICK g : Sums(g, F, 0 .. i - 1) /\ Elapsed(r, i) = g[0 .. i - 1]
    BY <2>4, <2>5, ElapsedIs, Zenon
  <2>7. \A j \in 0 .. i - 1 : j \in 0 .. Dims - 1
    BY <1>1
  <2>8. \A j \in 0 .. i - 1 : F[j] = HopOf(r, j) /\ F[j] \in Nat
    BY <1>2, <2>5, <2>7
  <2>9. QED
    BY <2>4, <2>6, <2>8
<1>4. \A i \in 0 .. Dims : Elapsed(r, i) \in Nat
  <2>1. TAKE i \in 0 .. Dims
  <2>2. PICK g, F : /\ Sums(g, F, 0 .. i - 1) /\ Elapsed(r, i) = g[0 .. i - 1]
                    /\ \A j \in 0 .. i - 1 : F[j] \in Nat
    BY <1>3
  <2>3. PICK S : S = 0 .. i - 1
    OBVIOUS
  <2>4. \A T \in SUBSET S : g[T] \in Nat
    BY <1>3, <2>2, <2>3, SumsFacts
  <2>5. QED
    BY <2>2, <2>3, <2>4
<1>5. \A i \in 0 .. Dims - 1 : Elapsed(r, i + 1) = Elapsed(r, i) + HopOf(r, i)
  <2>1. TAKE i \in 0 .. Dims - 1
  <2>2. i \in 0 .. Dims /\ i + 1 \in 0 .. Dims
    BY <1>1
  <2>3. PICK S, R : S = 0 .. i - 1 /\ R = 0 .. i
    OBVIOUS
  <2>4. R = 0 .. (i + 1) - 1 /\ i \in R /\ R \ {i} = S /\ S \subseteq R
    <3>1. i \in Nat
      BY <1>1
    <3>2. 0 .. i = 0 .. (i + 1) - 1 /\ i \in 0 .. i /\ (0 .. i) \ {i} = 0 .. i - 1 /\ 0 .. i - 1 \subseteq 0 .. i
      BY <3>1, UpTo, Zenon
    <3>3. QED
      BY <2>3, <3>2, Zenon
  <2>5. IsFiniteSet(S) /\ IsFiniteSet(R)
    BY <1>3, <2>2, <2>3, <2>4
  <2>6. PICK g, F : /\ Sums(g, F, S) /\ Elapsed(r, i) = g[S]
                    /\ \A j \in S : F[j] = HopOf(r, j) /\ F[j] \in Nat
    BY <1>3, <2>2, <2>3
  <2>7. PICK h, G : /\ Sums(h, G, R) /\ Elapsed(r, i + 1) = h[R]
                    /\ \A j \in R : G[j] = HopOf(r, j) /\ G[j] \in Nat
    BY <1>3, <2>2, <2>4
  <2>8. \A T \in SUBSET R : \A x \in T : h[T] = G[x] + h[T \ {x}]
    <3>1. Sums(h, G, R) /\ IsFiniteSet(R)
      BY <2>5, <2>7
    <3>2. \A x \in R : G[x] \in Nat
      BY <2>7
    <3>3. ASSUME NEW T \in SUBSET R, NEW x \in T PROVE h[T] = G[x] + h[T \ {x}]
      <4>1. SplitSum(h, G, T, x)
        BY <3>1, <3>2, SumsSplit
      <4>2. QED
        BY <4>1, Zenon DEF SplitSum
    <3>4. QED
      BY <3>3, Zenon
  <2>9. h[R] = G[i] + h[S]
    BY <2>4, <2>8
  <2>10. \A T \in SUBSET S : g[T] = h[T]
    <3>1. \A x \in S : F[x] = G[x]
      BY <2>4, <2>6, <2>7
    <3>2. Sums(g, F, S) /\ Sums(h, G, R) /\ IsFiniteSet(S) /\ IsFiniteSet(R) /\ S \subseteq R
      BY <2>4, <2>5, <2>6, <2>7
    <3>3. QED
      BY <3>1, <3>2, SumsAgree
  <2>11. g[S] = h[S] /\ G[i] = HopOf(r, i)
    BY <2>4, <2>7, <2>10
  <2>12. Elapsed(r, i) \in Nat /\ HopOf(r, i) \in Nat
    BY <1>2, <1>4, <2>2
  <2>13. QED
    BY <2>6, <2>7, <2>9, <2>11, <2>12
<1>6. \A i, j \in 0 .. Dims : i <= j => Elapsed(r, i) <= Elapsed(r, j)
  <2>1. TAKE i \in 0 .. Dims
  <2> DEFINE Bad == {j \in Nat : i <= j /\ j <= Dims /\ ~(Elapsed(r, i) <= Elapsed(r, j))}
  <2>2. ASSUME Bad # {} PROVE FALSE
    <3>1. PICK j \in Bad : \A k \in Bad : j <= k
      <4>1. Bad \in SUBSET Nat
        OBVIOUS
      <4> HIDE DEF Bad
      <4>2. QED
        BY <2>2, <4>1, LeastNumber
    <3>2. j \in Nat /\ i <= j /\ j <= Dims /\ ~(Elapsed(r, i) <= Elapsed(r, j)) /\ i \in Nat
      OBVIOUS
    <3>3. Elapsed(r, i) \in Nat /\ Elapsed(r, j) \in Nat
      BY <1>1, <1>4, <3>2
    <3>4. i # j
      BY <3>2, <3>3
    <3>5. PICK k \in 0 .. Dims - 1 : k + 1 = j /\ k \in 0 .. Dims /\ i <= k
      <4>1. j - 1 \in 0 .. Dims - 1 /\ (j - 1) + 1 = j /\ j - 1 \in 0 .. Dims /\ i <= j - 1
        BY <1>1, <3>2, <3>4
      <4>2. QED
        BY <4>1
    <3>6. k \notin Bad /\ k \in Nat /\ k <= Dims
      BY <1>1, <3>1, <3>5
    <3>7. Elapsed(r, i) <= Elapsed(r, k)
      BY <3>5, <3>6
    <3>8. Elapsed(r, k + 1) = Elapsed(r, k) + HopOf(r, k) /\ HopOf(r, k) \in Nat /\ Elapsed(r, k) \in Nat
      BY <1>2, <1>4, <1>5, <3>5
    <3>9. QED
      BY <3>2, <3>3, <3>5, <3>7, <3>8
  <2>3. TAKE j \in 0 .. Dims
  <2>4. HAVE i <= j
  <2>5. j \notin Bad /\ j \in Nat /\ j <= Dims
    <3>1. Bad = {}
      <4> HIDE DEF Bad
      <4>1. QED
        BY <2>2
    <3>2. QED
      BY <1>1, <3>1
  <2>6. QED
    BY <2>4, <2>5
<1>7. QED
  BY <1>2, <1>4, <1>5, <1>6

-------------------------------------------------------------------------------
(* The rows of a trace *)

\* Rows whose keys are in K
RowsOf(K) ==
  [src : Nat, dst : Nat, origin : Node, expert : Nat, chunk : Nat, flits : Nat, phase : {"dispatch", "return"},
   ready : Nat, cycles : Nat, key : K]

\* What a builder writes is a row.
LEMMA RowType ==
  ASSUME AllToAllAssumption, NEW s \in Node, NEW e \in Nat, Chiplet(e) \in Nat, NEW chunk \in Nat, NEW flits \in Nat,
         NEW phase \in {"dispatch", "return"}, NEW ready \in Nat, NEW cycles \in Nat, NEW key
  PROVE  /\ Row(s, e, chunk, flits, phase, ready, cycles, key) \in RowsOf({key})
         /\ phase = "dispatch" => /\ Row(s, e, chunk, flits, phase, ready, cycles, key).src = s
                                  /\ Row(s, e, chunk, flits, phase, ready, cycles, key).dst = Chiplet(e)
                                  /\ Row(s, e, chunk, flits, phase, ready, cycles, key).phase = "dispatch"
<1>1. s \in Nat
  BY Numbers
<1>2. QED
  BY <1>1 DEF Row, RowsOf

\* A sequence of rows, whatever their keys
LEMMA RowsType ==
  ASSUME NEW n \in Nat, NEW q, q = [i \in 1..n |-> q[i]], \A i \in 1..n : \E k : q[i] \in RowsOf({k})
  PROVE  \E K : q \in Seq(RowsOf(K)) /\ Len(q) = n
<1> DEFINE K == {q[i].key : i \in 1..n}
<1>1. ASSUME NEW i \in 1..n PROVE q[i] \in RowsOf(K)
  <2>1. PICK k : q[i] \in RowsOf({k})
    OBVIOUS
  <2>2. q[i].key = k /\ q[i].key \in K
    BY <2>1 DEF RowsOf
  <2> HIDE DEF K
  <2>3. QED
    BY <2>1, <2>2 DEF RowsOf
<1>2. q \in [1..n -> RowsOf(K)]
  <2> HIDE DEF K
  <2>1. QED
    BY <1>1
<1> HIDE DEF K
<1>3. q \in Seq(RowsOf(K)) /\ Len(q) = n
  BY <1>2
<1>4. QED
  BY <1>3

\* A trace and more rows are a trace.
LEMMA RowsAppended ==
  ASSUME NEW K, NEW L, NEW q \in Seq(RowsOf(K)), NEW p \in Seq(RowsOf(L))
  PROVE  q \o p \in Seq(RowsOf(K \cup L))
<1>1. RowsOf(K) \subseteq RowsOf(K \cup L) /\ RowsOf(L) \subseteq RowsOf(K \cup L)
  BY DEF RowsOf
<1>2. PICK S : S = RowsOf(K \cup L)
  OBVIOUS
<1>3. q \in Seq(S) /\ p \in Seq(S)
  <2>1. ASSUME NEW A, NEW B, A \subseteq B, NEW w \in Seq(A) PROVE w \in Seq(B)
    <3>1. w \in [1..Len(w) -> A] /\ Len(w) \in Nat
      OBVIOUS
    <3>2. w \in [1..Len(w) -> B]
      BY <2>1, <3>1
    <3>3. QED
      BY <3>1, <3>2
  <2>2. QED
    BY <1>1, <1>2, <2>1, Zenon
<1>4. q \o p \in Seq(S)
  BY <1>3
<1>5. QED
  BY <1>2, <1>4

\* A chunk takes a number of flits.
LEMMA FlitsAreNumber ==
  ASSUME AllToAllAssumption, NEW bytes \in Nat
  PROVE  Flits(bytes) \in Nat
<1>1. PICK f \in Nat \ {0} : f = FlitSize
  BY Numbers
<1>2. PICK x \in Nat : x = bytes + f - 1
  BY <1>1
<1>3. x \div f \in Nat
  BY Divided
<1>4. QED
  BY <1>1, <1>2, <1>3 DEF Flits

\* The loops over sources and experts
LEMMA PairFacts ==
  ASSUME AllToAllAssumption, NEW i \in Nat, i < Pairs
  PROVE  Pair(i)[1] \in Node /\ Pair(i)[2] \in Target /\ Target \subseteq Nat
<1>1. PICK C \in Nat \ {0} : C = Cardinality(Target) /\ Target = 0 .. C - 1
  <2>1. Experts \in Nat \ {0} /\ Nodes \in Nat \ {0} /\ Cardinality(Expert) = Experts /\ Cardinality(Node) = Nodes
        /\ Node = 0 .. Nodes - 1 /\ Expert = 0 .. Experts - 1
    BY Numbers DEF Expert
  <2>2. Target = Expert \/ Target = Node
    BY DEF Target
  <2>3. QED
    BY <2>1, <2>2
<1>2. PICK N \in Nat \ {0} : N = Cardinality(Node) /\ Node = 0 .. N - 1
  BY Numbers
<1>3. PICK q \in Nat, r \in Nat : q = i \div C /\ r = i % C /\ r < C /\ i = C * q + r
  <2>1. /\ i \div C \in Nat /\ i % C \in Nat /\ i % C < C
        /\ i = C * (i \div C) + (i % C)
    BY Divided
  <2>2. QED
    BY <2>1, Zenon
<1>4. i < N * C
  BY <1>1, <1>2 DEF Pairs
<1>5. q < N
  <2>1. PICK x \in Nat, y \in Nat : x = C * q /\ y = C * N /\ y = N * C
    BY Multiples
  <2>2. x < y
    BY <1>3, <1>4, <2>1
  <2>3. q + 1 <= N
    BY <2>1, <2>2, Multiples
  <2>4. QED
    BY <2>3
<1>6. Pair(i)[1] = q /\ Pair(i)[2] = r
  BY <1>1, <1>3 DEF Pair
<1>7. q \in 0 .. N - 1 /\ r \in 0 .. C - 1 /\ 0 .. C - 1 \subseteq Nat
  BY <1>3, <1>5
<1>8. QED
  BY <1>1, <1>2, <1>6, <1>7, Zenon

\* An expert has a chiplet; if the experts are spread evenly it is one of the nodes.
LEMMA ChipletIs ==
  ASSUME AllToAllAssumption, NEW e \in Target, HasExperts /\ kind # "checkpoint" => Experts % Nodes = 0
  PROVE  Chiplet(e) \in Nat /\ (kind # "checkpoint" => Chiplet(e) \in Node)
<1>1. PICK N \in Nat \ {0}, E \in Nat \ {0} : N = Nodes /\ E = Experts /\ Node = 0 .. N - 1 /\ Expert = 0 .. E - 1
  BY Numbers DEF Expert
<1>2. CASE ~HasExperts
  BY <1>1, <1>2 DEF Chiplet, Target
<1>3. CASE HasExperts /\ kind = "checkpoint"
  <2>1. e \in Nat /\ N - 1 \in Nat
    BY <1>1, <1>3 DEF Target
  <2>2. PICK x \in Nat : x = e * N
    BY <2>1, Multiples
  <2>3. PICK y \in Nat : y = x \div E
    BY Divided
  <2>4. Min({N - 1, y}) \in Nat
    BY <2>1, MinOfTwo
  <2>5. Chiplet(e) = Min({N - 1, y})
    BY <1>1, <1>3, <2>2, <2>3 DEF Chiplet
  <2>6. QED
    BY <1>3, <2>4, <2>5
<1>4. CASE HasExperts /\ kind # "checkpoint"
  <2>1. e \in Nat /\ e < E
    BY <1>1, <1>4 DEF Target
  <2>2. PICK k \in Nat : k = E \div N /\ E = N * k
    <3>1. E \div N \in Nat /\ E % N \in Nat /\ E = N * (E \div N) + (E % N)
      BY Divided
    <3>2. E % N = 0
      BY <1>1, <1>4
    <3>3. PICK k \in Nat, p \in Nat : k = E \div N /\ p = N * k
      BY <3>1, Multiples
    <3>4. QED
      BY <3>1, <3>2, <3>3
  <2>3. k # 0
    <3>1. N * 0 = 0
      OBVIOUS
    <3>2. QED
      BY <2>2, <3>1
  <2>4. e \div k \in Nat /\ e % k \in Nat /\ e = k * (e \div k) + (e % k)
    BY <2>1, <2>3, Divided
  <2>5. PICK c \in Nat : c = e \div k
    BY <2>4
  <2>6. c + 1 <= N
    <3>1. PICK x \in Nat, y \in Nat : x = k * c /\ y = k * N /\ y = N * k
      BY Multiples
    <3>2. PICK z \in Nat : z = e % k
      BY <2>4
    <3>3. x < y
      <4>1. e = x + z
        BY <2>4, <2>5, <3>1, <3>2
      <4>2. e < y
        BY <2>1, <2>2, <3>1
      <4>3. QED
        BY <3>1, <3>2, <4>1, <4>2
    <3>4. QED
      BY <2>3, <3>1, <3>3, Multiples
  <2>7. Chiplet(e) = c
    BY <1>1, <1>4, <2>2, <2>5 DEF Chiplet
  <2>8. c \in 0 .. N - 1
    BY <2>6
  <2>9. QED
    BY <1>1, <2>7, <2>8
<1>5. QED
  BY <1>2, <1>3, <1>4

\* The index of a pair counts the pairs in front of it.
LEMMA IndexIsNumber ==
  ASSUME AllToAllAssumption, at \in Nat
  PROVE  PairIndex \in Nat
<1> DEFINE S == 0 .. at - 1
           One(i) == IF Pair(i)[1] # Pair(i)[2] THEN 1 ELSE 0
           F == [i \in S |-> One(i)]
           Body(g) == [T \in SUBSET S |-> IF T = {} THEN 0 ELSE One(Chosen(T)) + g[T \ {Chosen(T)}]]
<1>1. PairIndex = (CHOOSE g : g = Body(g))[S]
  BY DEF PairIndex, MapThenSumSet, MapThenFoldSet, Chosen
<1>2. IsFiniteSet(S)
  <2>1. PICK m \in Int : m = at - 1
    OBVIOUS
  <2>2. 0 \in Int
    OBVIOUS
  <2>3. QED
    BY <2>1, <2>2, FS_Interval
<1> HIDE DEF S
<1>3. \A i \in S : F[i] = One(i) /\ F[i] \in Nat
  OBVIOUS
<1>4. ASSUME NEW g PROVE Sums(g, F, S) <=> g = Body(g)
  <2> HIDE DEF F, One
  <2>1. \A T \in SUBSET S : T # {} => F[Chosen(T)] = One(Chosen(T))
    BY <1>3 DEF Chosen
  <2>2. \A T \in SUBSET S : (IF T = {} THEN 0 ELSE F[Chosen(T)] + g[T \ {Chosen(T)}])
          = IF T = {} THEN 0 ELSE One(Chosen(T)) + g[T \ {Chosen(T)}]
    BY <2>1
  <2>3. [T \in SUBSET S |-> IF T = {} THEN 0 ELSE F[Chosen(T)] + g[T \ {Chosen(T)}]] = Body(g)
    BY <2>2, Zenon
  <2> HIDE DEF Body
  <2>4. QED
    BY <2>3 DEF Sums
<1> HIDE DEF F, One, Body
<1>5. PICK f : Sums(f, F, S)
  BY <1>2, SumsExist
<1>6. PICK g : g = CHOOSE h : h = Body(h)
  OBVIOUS
<1>7. Sums(g, F, S) /\ PairIndex = g[S]
  <2>1. f = Body(f)
    BY <1>4, <1>5
  <2>2. g = Body(g)
    BY <1>6, <2>1
  <2>3. QED
    BY <1>1, <1>4, <1>6, <2>2
<1>8. \A T \in SUBSET S : g[T] \in Nat
  <2>1. \A i \in S : F[i] \in Nat
    BY <1>3
  <2>2. QED
    BY <1>2, <1>7, <2>1, SumsFacts
<1>9. QED
  BY <1>7, <1>8

\* The experts and the nodes are numbers.
LEMMA TargetsAreNumbers ==
  ASSUME AllToAllAssumption, NEW e \in Target
  PROVE  e \in Expert \cup Node /\ e \in Nat
<1>1. PICK N \in Nat, E \in Nat : Node = 0 .. N - 1 /\ Expert = 0 .. E - 1
  BY Numbers DEF Expert
<1>2. e \in Expert \cup Node
  BY DEF Target
<1>3. QED
  BY <1>1, <1>2

\* What is appended: rows, and if the trace is to be made into a layer, of dispatches between nodes
Appends(s, e) ==
  \E p, L : /\ p \in Seq(RowsOf(L)) /\ rows' = rows \o p
            /\ kind = "layer" => \A i \in 1..Len(p) : p[i].phase = "dispatch" /\ p[i].src = s /\ p[i].dst = Chiplet(e)

\* It is enough that each of them is a row.
LEMMA AppendsRows ==
  ASSUME NEW s, NEW e, NEW n \in Nat, NEW p, p = [i \in 1..n |-> p[i]], rows' = rows \o p,
         \A i \in 1..n : \E k : p[i] \in RowsOf({k}),
         kind = "layer" => \A i \in 1..n : p[i].phase = "dispatch" /\ p[i].src = s /\ p[i].dst = Chiplet(e)
  PROVE  Appends(s, e)
<1>1. PICK K : p \in Seq(RowsOf(K)) /\ Len(p) = n
  BY RowsType
<1>2. kind = "layer" => \A i \in 1..Len(p) : p[i].phase = "dispatch" /\ p[i].src = s /\ p[i].dst = Chiplet(e)
  BY <1>1
<1>3. QED
  BY <1>1, <1>2, Zenon DEF Appends

\* The kernels of a source run one after the other.
LEMMA InTurnRows ==
  ASSUME AllToAllAssumption, TimesAssumption, cost \in Costs, clock \in [Node -> Nat],
         NEW s \in Node, NEW e \in Target, Chiplet(e) \in Nat, NEW each \in Nat, InTurn(s, e, each)
  PROVE  Appends(s, e) /\ clock' \in [Node -> Nat]
<1>1. e \in Expert \cup Node /\ e \in Nat
  BY TargetsAreNumbers
<1>2. PICK x \in Nat : x = cost[<<"expert", e>>]
  BY <1>1 DEF TimesAssumption
<1>3. PICK D \in Nat \ {0}, b \in Nat : D = Dims /\ b = TokenBytes
  BY Numbers
<1>4. PICK f \in Nat : f = Flits((each \div D) * b)
  <2>1. PICK y \in Nat : y = each \div D
    BY Divided
  <2>2. y * b \in Nat
    BY Multiples
  <2>3. QED
    BY <2>1, <2>2, FlitsAreNumber
<1>5. PICK t \in Nat : t = clock[s]
  OBVIOUS
<1> DEFINE Key(c) == <<"event", s, e, c>>
           p == [c \in 1 .. D |-> Row(s, e, c - 1, f, "dispatch", t + c * x, x, Key(c))]
<1>6. rows' = rows \o p /\ clock' = [clock EXCEPT ![s] = @ + D * x]
  BY <1>2, <1>3, <1>4, <1>5 DEF InTurn
<1> HIDE DEF Key
<1>7. ASSUME NEW c \in 1 .. D
      PROVE  /\ p[c] \in RowsOf({Key(c)})
             /\ p[c].phase = "dispatch" /\ p[c].src = s /\ p[c].dst = Chiplet(e)
  <2>1. c * x \in Nat
    BY Multiples
  <2>2. PICK d \in Nat, y \in Nat : d = c - 1 /\ y = t + c * x
    BY <2>1
  <2>3. PICK r, k : r = Row(s, e, d, f, "dispatch", y, x, k) /\ k = Key(c)
    OBVIOUS
  <2>4. p[c] = r
    BY <2>2, <2>3
  <2> HIDE DEF p
  <2>5. "dispatch" \in {"dispatch", "return"}
    OBVIOUS
  <2>6. r \in RowsOf({k})
    BY <1>1, <2>3, <2>5, RowType
  <2>7. r.phase = "dispatch" /\ r.src = s /\ r.dst = Chiplet(e)
    BY <2>3 DEF Row
  <2>8. QED
    BY <2>3, <2>4, <2>6, <2>7
<1>8. p = [c \in 1 .. D |-> p[c]]
  OBVIOUS
<1> HIDE DEF p
<1>9. Appends(s, e)
  <2>1. \A i \in 1..D : \E k : p[i] \in RowsOf({k})
    BY <1>7
  <2>2. \A i \in 1..D : p[i].phase = "dispatch" /\ p[i].src = s /\ p[i].dst = Chiplet(e)
    BY <1>7
  <2>3. D \in Nat
    OBVIOUS
  <2>4. QED
    BY <1>6, <1>8, <2>1, <2>2, <2>3, AppendsRows
<1>10. clock' \in [Node -> Nat]
  <2>1. D * x \in Nat
    BY Multiples
  <2>2. t + D * x \in Nat
    BY <2>1
  <2>3. clock' = [clock EXCEPT ![s] = t + D * x]
    BY <1>5, <1>6
  <2>4. QED
    BY <2>2, <2>3
<1>11. QED
  BY <1>9, <1>10

\* run_a2a_pytorchsim.py writes a row for a pair.
LEMMA PairRows ==
  ASSUME AllToAllAssumption, at \in Nat, tokens \in Nat, kind # "layer",
         NEW s \in Node, NEW e \in Target, Chiplet(e) \in Nat, PairRow(s, e)
  PROVE  Appends(s, e) /\ clock' = clock
<1>1. e \in Nat
  BY TargetsAreNumbers
<1>2. PICK f \in Nat : f = Flits(tokens * TokenBytes)
  <2>1. TokenBytes \in Nat
    BY Numbers
  <2>2. tokens * TokenBytes \in Nat
    BY <2>1, Multiples
  <2>3. QED
    BY <2>2, FlitsAreNumber
<1>3. PICK t \in Nat : t = PairIndex * InjectGap
  <2>1. PairIndex \in Nat /\ InjectGap \in Nat
    BY IndexIsNumber, Numbers
  <2>2. QED
    BY <2>1, Multiples
<1> DEFINE key == <<"none", s, e>>
<1>4. PICK r : r = Row(s, e, 0, f, "dispatch", t, 0, key)
  OBVIOUS
<1>5. rows' = rows \o <<r>> /\ clock' = clock
  BY <1>2, <1>3, <1>4 DEF PairRow, AddRows
<1> HIDE DEF key
<1>6. r \in RowsOf({key})
  BY <1>1, <1>4, RowType
<1>7. PICK p : p = <<r>>
  OBVIOUS
<1>8. p = [i \in 1..1 |-> p[i]] /\ \A i \in 1..1 : p[i] = r
  BY <1>7
<1>9. \A i \in 1..1 : \E k : p[i] \in RowsOf({k})
  BY <1>6, <1>8
<1>10. Appends(s, e)
  <2>1. PICK n \in Nat : n = 1
    OBVIOUS
  <2>2. p = [i \in 1..n |-> p[i]] /\ (\A i \in 1..n : \E k : p[i] \in RowsOf({k})) /\ rows' = rows \o p
    BY <1>5, <1>7, <1>8, <1>9, <2>1, Zenon
  <2>3. QED
    BY <2>2, AppendsRows, Zenon
<1>11. QED
  BY <1>5, <1>10

\* run_chunked_a2a.py writes a row for a chunk of a pair.
LEMMA ChunksRows ==
  ASSUME AllToAllAssumption, at \in Nat, tokens \in Nat, kind # "layer",
         NEW s \in Node, NEW e \in Target, Chiplet(e) \in Nat, ChunkRows(s, e)
  PROVE  Appends(s, e) /\ clock' = clock
<1>1. e \in Nat
  BY TargetsAreNumbers
<1>2. PICK D \in Nat \ {0}, b \in Nat, g \in Nat : D = Dims /\ b = TokenBytes /\ g = ChunkGap
  BY Numbers
<1>3. PICK f \in Nat : f = Flits((tokens * b) \div D)
  <2>1. PICK y \in Nat : y = tokens * b
    BY Multiples
  <2>2. y \div D \in Nat
    BY Divided
  <2>3. QED
    BY <2>1, <2>2, FlitsAreNumber
<1>4. PICK t \in Nat : t = PairIndex * InjectGap
  <2>1. PairIndex \in Nat /\ InjectGap \in Nat
    BY IndexIsNumber, Numbers
  <2>2. QED
    BY <2>1, Multiples
<1> DEFINE Key(c) == <<"none", s, e, c>>
           p == [c \in 1 .. D |-> Row(s, e, c - 1, f, "dispatch", t + (c - 1) * g, 0, Key(c))]
<1>5. rows' = rows \o p /\ clock' = clock
  BY <1>2, <1>3, <1>4 DEF ChunkRows, AddRows
<1> HIDE DEF Key
<1>6. ASSUME NEW c \in 1 .. D PROVE p[c] \in RowsOf({Key(c)})
  <2>1. PICK d \in Nat : d = c - 1
    OBVIOUS
  <2>2. d * g \in Nat
    BY Multiples
  <2>3. t + d * g \in Nat
    BY <2>2
  <2>4. Row(s, e, d, f, "dispatch", t + d * g, 0, Key(c)) \in RowsOf({Key(c)})
    BY <1>1, <2>3, RowType
  <2>5. QED
    BY <2>1, <2>4
<1>7. p = [c \in 1 .. D |-> p[c]]
  OBVIOUS
<1> HIDE DEF p
<1>8. Appends(s, e)
  <2>1. \A i \in 1..D : \E k : p[i] \in RowsOf({k})
    BY <1>6
  <2>2. D \in Nat
    OBVIOUS
  <2>3. QED
    BY <1>5, <1>7, <2>1, <2>2, AppendsRows
<1>9. QED
  BY <1>5, <1>8

\* split_tokens: the chunks with tokens in them
LEMMA ChunkFacts ==
  ASSUME AllToAllAssumption, NEW n \in Nat
  PROVE  \E M \in Nat : /\ Len(ChunksOf(n)) = M
                        /\ \A i \in 1..M : ChunksOf(n)[i][1] \in Nat /\ ChunksOf(n)[i][2] \in Nat
<1>1. PICK D \in Nat \ {0} : D = Dims
  BY Numbers
<1>2. PICK M \in Nat : M = (IF n < D THEN n ELSE D) /\ M <= D
  OBVIOUS
<1>3. ASSUME NEW c \in Dim PROVE SplitTokens(n)[c] \in Nat
  <2>1. PICK y \in Nat : y = n \div D
    BY Divided
  <2>2. SplitTokens(n)[c] = y + (IF c < n % D THEN 1 ELSE 0)
    BY <1>1, <2>1 DEF SplitTokens
  <2>3. y + (IF c < n % D THEN 1 ELSE 0) \in Nat
    BY <2>1
  <2>4. QED
    BY <2>2, <2>3
<1>4. ChunksOf(n) = [i \in 1..M |-> <<i - 1, SplitTokens(n)[i - 1]>>]
  BY <1>1, <1>2 DEF ChunksOf
<1>5. Len(ChunksOf(n)) = M
  <2>1. Len([i \in 1..M |-> <<i - 1, SplitTokens(n)[i - 1]>>]) = M
    BY LenProperties
  <2>2. QED
    BY <1>4, <2>1
<1>6. ASSUME NEW i \in 1..M PROVE ChunksOf(n)[i][1] \in Nat /\ ChunksOf(n)[i][2] \in Nat
  <2>1. PICK k \in Nat : k = i - 1 /\ k \in Dim
    BY <1>1, <1>2 DEF Dim
  <2>2. ChunksOf(n)[i] = <<k, SplitTokens(n)[k]>>
    BY <1>4, <2>1
  <2>3. SplitTokens(n)[k] \in Nat
    BY <1>3, <2>1
  <2>4. QED
    BY <2>1, <2>2, <2>3
<1>7. QED
  BY <1>5, <1>6

\* build_rows writes rows for each chunk and each phase.
LEMMA TrafficRows ==
  ASSUME AllToAllAssumption, TimesAssumption, cost \in Costs, kind # "layer",
         NEW s \in Node, NEW e \in Target, Chiplet(e) \in Nat, NEW n \in Nat, Traffic(s, e, n)
  PROVE  Appends(s, e) /\ clock' = clock
<1>1. e \in Nat
  BY TargetsAreNumbers
<1>2. PICK M \in Nat : /\ Len(ChunksOf(n)) = M
                       /\ \A i \in 1..M : ChunksOf(n)[i][1] \in Nat /\ ChunksOf(n)[i][2] \in Nat
  BY ChunkFacts
<1>3. PICK L \in Nat : L = Len(Phases) /\ \A j \in 1..L : Phases[j] \in {"dispatch", "return"}
  BY DEF TimesAssumption
<1>4. PICK m \in Nat : m = M * L
  BY Multiples
<1>5. PICK x \in Nat : x = cost[<<"router", s>>]
  BY DEF TimesAssumption
<1> DEFINE c(i) == ChunksOf(n)[((i - 1) \div L) + 1]
           first(i) == ~Accounted(s) /\ PhaseOf(i) = "dispatch" /\ \A j \in 1 .. i - 1 : PhaseOf(j) # "dispatch"
           Cycles(i) == IF first(i) THEN x ELSE 0
           Key(i) == IF first(i) THEN <<"router", s>> ELSE <<"none", s, e, i>>
           p == [i \in 1..m |-> Row(s, e, c(i)[1], Flits(c(i)[2] * TokenBytes), PhaseOf(i), x, Cycles(i), Key(i))]
<1>6. rows' = rows \o p /\ clock' = clock
  BY <1>2, <1>3, <1>4, <1>5 DEF Traffic, AddRows
<1>7. ASSUME NEW i \in 1..m
      PROVE  c(i)[1] \in Nat /\ Flits(c(i)[2] * TokenBytes) \in Nat /\ PhaseOf(i) \in {"dispatch", "return"}
  <2>1. L # 0
    <3>1. SUFFICES ASSUME L = 0 PROVE FALSE
      OBVIOUS
    <3>2. M * 0 = 0
      OBVIOUS
    <3>3. m = 0
      BY <1>4, <3>1, <3>2
    <3>4. QED
      BY <3>3
  <2>2. PICK j \in Nat : j = i - 1 /\ j < m
    OBVIOUS
  <2>3. j \div L \in Nat /\ j % L \in Nat /\ j % L < L /\ j = L * (j \div L) + (j % L)
    BY <2>1, Divided
  <2>4. PICK k \in Nat, r \in Nat : k = j \div L /\ r = j % L
    BY <2>3
  <2>5. k + 1 <= M
    <3>1. PICK y \in Nat, z \in Nat : y = L * k /\ z = L * M /\ z = M * L
      BY Multiples
    <3>2. j = y + r
      BY <2>3, <2>4, <3>1
    <3>3. y < z
      BY <1>4, <2>2, <3>1, <3>2
    <3>4. QED
      BY <2>1, <3>1, <3>3, Multiples
  <2>6. k + 1 \in 1..M
    BY <2>5
  <2>7. c(i) = ChunksOf(n)[k + 1]
    BY <2>2, <2>4
  <2> HIDE DEF c
  <2>8. c(i)[1] \in Nat /\ c(i)[2] \in Nat
    BY <1>2, <2>6, <2>7
  <2>9. Flits(c(i)[2] * TokenBytes) \in Nat
    <3>1. TokenBytes \in Nat
      BY Numbers
    <3>2. PICK y : y = c(i)[2] * TokenBytes
      OBVIOUS
    <3>3. y \in Nat
      BY <2>8, <3>1, <3>2, Multiples
    <3>4. QED
      BY <3>2, <3>3, FlitsAreNumber
  <2>10. PhaseOf(i) = Phases[r + 1] /\ r + 1 \in 1..L
    <3>1. r = (i - 1) % Len(Phases)
      BY <1>3, <2>2, <2>4
    <3>2. PhaseOf(i) = Phases[r + 1]
      BY <3>1 DEF PhaseOf
    <3>3. r < L
      BY <2>3, <2>4
    <3>4. r + 1 \in 1..L
      BY <3>3
    <3>5. QED
      BY <3>2, <3>4
  <2>11. QED
    BY <1>3, <2>8, <2>9, <2>10
<1>8. ASSUME NEW i \in 1..m PROVE p[i] \in RowsOf({Key(i)})
  <2>1. PICK ch, f, ph, y, k : /\ ch = c(i)[1] /\ f = Flits(c(i)[2] * TokenBytes) /\ ph = PhaseOf(i)
                               /\ y = Cycles(i) /\ k = Key(i)
    OBVIOUS
  <2>2. ch \in Nat /\ f \in Nat /\ ph \in {"dispatch", "return"}
    <3> HIDE DEF c
    <3>1. QED
      BY <1>7, <2>1
  <2>3. y \in Nat
    <3> HIDE DEF first
    <3>1. QED
      BY <2>1
  <2>4. p[i] = Row(s, e, ch, f, ph, x, y, k)
    <3> HIDE DEF c, Cycles, Key
    <3>1. QED
      BY <2>1
  <2>5. Row(s, e, ch, f, ph, x, y, k) \in RowsOf({k})
    BY <1>1, <2>2, <2>3, RowType
  <2> HIDE DEF p, Key
  <2>6. QED
    BY <2>1, <2>4, <2>5
<1>9. p = [i \in 1..m |-> p[i]]
  <2> HIDE DEF c, Cycles, Key
  <2>1. QED
    OBVIOUS
<1> HIDE DEF p, Key
<1>10. Appends(s, e)
  <2>1. \A i \in 1..m : \E k : p[i] \in RowsOf({k})
    BY <1>8
  <2>2. rows' = rows \o p
    BY <1>6
  <2>3. QED
    BY <1>9, <2>1, <2>2, AppendsRows, Zenon
<1>11. QED
  BY <1>6, <1>10

-------------------------------------------------------------------------------
(* The chain of times: invariants *)

TransferOf(sch, r) ==
  IF sch = "dimrotation" THEN Elapsed(r, Dims)
  ELSE Estimate(Distance(NodeToCoord(r.src), NodeToCoord(r.dst)), r.flits)
\* What build_layer_rows has made of the rows q of a trace so far: an output leaves its expert when it has been
\* computed, for which the chunk had to arrive and the outputs in front of it on this chiplet to be done.
Layered(q, clk, sch) ==
  \A m \in 1..Len(q) : q[m].phase = "return" =>
    /\ m > 1 /\ q[m].ready <= clk[q[m].src]
    /\ q[m].ready - q[m].cycles >= q[m - 1].ready + TransferOf(sch, q[m - 1])
    /\ \A n \in 1..(m - 1) : q[n].phase = "return" /\ q[n].src = q[m].src => q[m].ready - q[m].cycles >= q[n].ready
BetweenNodes(q) == \A n \in 1..Len(q) : q[n].src \in Node /\ q[n].dst \in Node
DispatchesFrom(q, a) == \A n \in 1..Len(q) : q[n].phase = "return" => n < a

Setting ==
  /\ kind \in Kind /\ tokens \in Nat \ {0} /\ cost \in Costs
  /\ (stage \in {"route", "emit"} => Divisible) /\ (stage = "layer" => kind = "layer")
TraceInv == clock \in [Node -> Nat] /\ \E K : rows \in Seq(RowsOf(K))
LayerInv ==
  kind = "layer" =>
    /\ BetweenNodes(rows) /\ Layered(rows, clock, scheduler)
    /\ stage \in {"check", "route", "emit"} => DispatchesFrom(rows, 1)
    /\ stage = "layer" => at >= 1 /\ DispatchesFrom(rows, at)
PacketOf(q, n, i) ==
  [at |-> q[n].ready + Elapsed(q[n], i), src |-> PathOf(q[n])[i], dst |-> PathOf(q[n])[i + 1],
   flits |-> q[n].flits, of |-> {n}, hop |-> i]
Rotated(b, q) == \A p \in b : \E n \in 1..Len(q), i \in Dim : p = PacketOf(q, n, i)
BenchInv ==
  /\ stage \notin {"run", "done"} => bench = {}
  /\ scheduler = "dimrotation" => IF kind = "pairs" THEN \A p \in bench : p.hop = 0 ELSE Rotated(bench, rows)
TimesInv == Setting /\ TraceInv /\ LayerInv /\ BenchInv

\* Nothing has been written at first.
LEMMA TimesInit ==
  ASSUME AllToAllAssumption, Init
  PROVE  TimesInv
<1>1. Setting
  <2>1. stage = "check" /\ kind \in Kind /\ cost \in Costs /\ tokens \in TokenCounts[kind]
    BY DEF Init
  <2>2. TokenCounts \in [Kind -> SUBSET (Nat \ {0})]
    BY AllToAllAssumption
  <2>3. tokens \in Nat \ {0}
    BY <2>1, <2>2
  <2>4. QED
    BY <2>1, <2>3 DEF Setting
<1>2. rows = <<>> /\ clock = [n \in Node |-> 0] /\ bench = {} /\ stage = "check"
  BY DEF Init, Zero
<1>3. TraceInv
  <2>1. clock \in [Node -> Nat]
    BY <1>2
  <2>2. rows \in Seq(RowsOf({}))
    BY <1>2
  <2>3. QED
    BY <2>1, <2>2 DEF TraceInv
<1>4. LayerInv
  <2>1. PICK q : q = rows /\ Len(q) = 0 /\ 1..Len(q) = {}
    BY <1>2
  <2>2. BetweenNodes(q) /\ DispatchesFrom(q, 1)
    BY <2>1 DEF BetweenNodes, DispatchesFrom
  <2>3. Layered(q, clock, scheduler)
    BY <2>1 DEF Layered
  <2>4. QED
    BY <1>2, <2>1, <2>2, <2>3 DEF LayerInv
<1>5. BenchInv
  BY <1>2 DEF BenchInv, Rotated
<1>6. QED
  BY <1>1, <1>3, <1>4, <1>5 DEF TimesInv

\* The times of a chunk are numbers.
LEMMA TransferIsNumber ==
  ASSUME AllToAllAssumption, TimesAssumption, NEW sch, NEW r, r.src \in Nat, r.dst \in Nat, r.flits \in Nat
  PROVE  TransferOf(sch, r) \in Nat
<1>1. Dims \in Nat /\ Dims \in 0 .. Dims
  BY Numbers
<1>2. Elapsed(r, Dims) \in Nat
  BY <1>1, ElapsedFacts
<1>3. PICK s, t : s = NodeToCoord(r.src) /\ t = NodeToCoord(r.dst)
  OBVIOUS
<1>4. s \in Coord /\ t \in Coord
  BY <1>3, Coordinates
<1>5. Distance(s, t) \in Nat
  BY <1>4, DistanceIsNumber
<1>6. Estimate(Distance(s, t), r.flits) \in Nat
  BY <1>5, EstimateIsNumber
<1>7. QED
  BY <1>2, <1>3, <1>6 DEF TransferOf

\* One sequence after the other
LEMMA Joined ==
  ASSUME NEW S, NEW x \in Seq(S), NEW y \in Seq(S), NEW p, p = x \o y, NEW m \in Nat, m = Len(x), NEW k \in Nat, k = Len(y)
  PROVE  /\ p \in Seq(S) /\ Len(p) = m + k
         /\ \A i \in 1..m : p[i] = x[i]
         /\ \A i \in 1..k : p[m + i] = y[i]
<1>1. /\ x \o y \in Seq(S) /\ Len(x \o y) = Len(x) + Len(y)
      /\ \A i \in 1 .. Len(x) + Len(y) : (x \o y)[i] = IF i <= Len(x) THEN x[i] ELSE y[i - Len(x)]
  BY ConcatProperties, Zenon
<1>2. p \in Seq(S) /\ Len(p) = m + k /\ \A i \in 1 .. m + k : p[i] = IF i <= m THEN x[i] ELSE y[i - m]
  BY <1>1, Zenon
<1>3. ASSUME NEW i \in 1..m PROVE p[i] = x[i]
  <2>1. i \in 1 .. m + k /\ i <= m
    OBVIOUS
  <2>2. QED
    BY <1>2, <2>1, Zenon
<1>4. ASSUME NEW i \in 1..k PROVE p[m + i] = y[i]
  <2>1. m + i \in 1 .. m + k /\ ~(m + i <= m) /\ (m + i) - m = i
    OBVIOUS
  <2>2. QED
    BY <1>2, <2>1, Zenon
<1>5. QED
  BY <1>2, <1>3, <1>4, Zenon

Splice(q, a, d, w, p) == p = SubSeq(q, 1, a - 1) \o <<d, w>> \o SubSeq(q, a + 1, Len(q))

InPlaceOf(S, q, n, a, d, w, p) ==
  /\ p \in Seq(S) /\ Len(p) = n + 1
  /\ \A i \in 1..(a - 1) : p[i] = q[i]
  /\ p[a] = d /\ p[a + 1] = w
  /\ \A i \in 1..(n - a) : p[a + 1 + i] = q[a + i]

\* Two entries in the place of one
LEMMA Spliced ==
  ASSUME NEW S, NEW n \in Nat, NEW a \in 1..n, NEW q \in Seq(S), NEW d \in S, NEW w \in S, NEW p,
         n = Len(q), Splice(q, a, d, w, p)
  PROVE  InPlaceOf(S, q, n, a, d, w, p)
<1> USE DEF InPlaceOf
<1>1. PICK b \in Nat, c \in Nat : b = a - 1 /\ b <= n /\ c = n - a /\ a \in Nat /\ b + 1 = a
  <2>1. a - 1 \in Nat /\ n - a \in Nat /\ a \in Nat /\ a - 1 <= n /\ (a - 1) + 1 = a
    OBVIOUS
  <2>2. QED
    BY <2>1, Zenon
<1>2. PICK x \in Seq(S) : x = SubSeq(q, 1, a - 1) /\ Len(x) = b /\ \A i \in 1..b : x[i] = q[i]
  <2>1. SubSeq(q, 1, b) \in Seq(S) /\ Len(SubSeq(q, 1, b)) = b
    BY <1>1
  <2>2. \A i \in 1..b : SubSeq(q, 1, b)[i] = q[i]
    BY <1>1
  <2>3. QED
    BY <1>1, <2>1, <2>2
<1>3. PICK z \in Seq(S) : z = SubSeq(q, a + 1, Len(q)) /\ Len(z) = c /\ \A i \in 1..c : z[i] = q[a + i]
  <2>1. SubSeq(q, a + 1, n) \in Seq(S) /\ Len(SubSeq(q, a + 1, n)) = c
    BY <1>1
  <2>2. \A i \in 1..c : SubSeq(q, a + 1, n)[i] = q[a + i]
    BY <1>1
  <2>3. QED
    BY <2>1, <2>2
<1>4. PICK two \in Nat : two = 2
  OBVIOUS
<1>5. PICK y : y = <<d, w>>
  OBVIOUS
<1>6. y \in Seq(S) /\ two = Len(y) /\ y[1] = d /\ y[2] = w
  <2>1. y \in Seq(S)
    BY <1>5
  <2>2. two = Len(y)
    BY <1>4, <1>5
  <2>3. y[1] = d
    BY <1>5
  <2>4. y[2] = w
    BY <1>5
  <2>5. QED
    BY <2>1, <2>2, <2>3, <2>4
<1>7. PICK v : v = x \o y
  OBVIOUS
<1>8. v \in Seq(S) /\ Len(v) = b + two /\ (\A i \in 1..b : v[i] = x[i]) /\ (\A i \in 1..two : v[b + i] = y[i])
  <2>1. b = Len(x) /\ two = Len(y) /\ y \in Seq(S)
    BY <1>2, <1>6, Zenon
  <2>2. QED
    BY <1>7, <2>1, Joined
<1>9. p = v \o z
  BY <1>2, <1>3, <1>5, <1>7, Zenon DEF Splice
<1>10. PICK e \in Nat : e = b + two /\ e = a + 1
  BY <1>1, <1>4
<1>11. p \in Seq(S) /\ Len(p) = e + c /\ (\A i \in 1..e : p[i] = v[i]) /\ (\A i \in 1..c : p[e + i] = z[i])
  <2>1. c = Len(z) /\ e = Len(v) /\ v \in Seq(S)
    BY <1>3, <1>8, <1>10, Zenon
  <2>2. QED
    BY <1>9, <2>1, Joined
<1>12. Len(p) = n + 1
  BY <1>1, <1>10, <1>11
<1>13. ASSUME NEW i \in 1..(a - 1) PROVE p[i] = q[i]
  <2>1. i \in 1..b /\ i \in 1..e
    BY <1>1, <1>10
  <2>2. QED
    BY <1>2, <1>8, <1>11, <2>1, Zenon
<1>14. p[a] = d /\ p[a + 1] = w
  <2>1. a \in 1..e /\ a + 1 \in 1..e /\ 1 \in 1..two /\ 2 \in 1..two /\ b + 1 = a /\ b + 2 = a + 1
    BY <1>1, <1>4, <1>10
  <2>2. v[a] = y[1] /\ v[a + 1] = y[2]
    BY <1>8, <2>1
  <2>3. p[a] = v[a] /\ p[a + 1] = v[a + 1]
    BY <1>11, <2>1
  <2>4. QED
    BY <1>6, <2>2, <2>3
<1>15. ASSUME NEW i \in 1..(n - a) PROVE p[a + 1 + i] = q[a + i]
  <2>1. i \in 1..c /\ a + 1 + i = e + i
    BY <1>1, <1>10
  <2>2. p[e + i] = z[i] /\ z[i] = q[a + i]
    BY <1>3, <1>11, <2>1, Zenon
  <2>3. QED
    BY <2>1, <2>2, Zenon
<1>16. QED
  BY <1>11, <1>12, <1>13, <1>14, <1>15, Zenon

\* The estimate of a transfer depends on the ends, the chunk and the flits only.
LEMMA SameTransfer ==
  ASSUME AllToAllAssumption, NEW sch, NEW r, NEW d,
         d.src = r.src, d.dst = r.dst, d.chunk = r.chunk, d.flits = r.flits
  PROVE  TransferOf(sch, d) = TransferOf(sch, r)
<1>1. PICK D \in Nat \ {0} : D = Dims
  BY Numbers
<1>2. PICK S : S = 0 .. D - 1
  OBVIOUS
<1>3. IsFiniteSet(S)
  <2>1. PICK m \in Int : m = D - 1
    OBVIOUS
  <2>2. 0 \in Int
    OBVIOUS
  <2>3. QED
    BY <1>2, <2>1, <2>2, FS_Interval
<1>4. \A j : HopOf(d, j) = HopOf(r, j)
  <2>1. PathOf(d) = PathOf(r)
    BY DEF PathOf
  <2>2. QED
    BY <2>1 DEF HopOf
<1>5. PICK g : Sums(g, [j \in S |-> HopOf(d, j)], S) /\ Elapsed(d, D) = g[S]
  BY <1>2, <1>3, ElapsedIs, Zenon
<1>6. PICK h : Sums(h, [j \in S |-> HopOf(r, j)], S) /\ Elapsed(r, D) = h[S]
  BY <1>2, <1>3, ElapsedIs, Zenon
<1>7. PICK F, G : F = [j \in S |-> HopOf(d, j)] /\ G = [j \in S |-> HopOf(r, j)]
  OBVIOUS
<1>8. \A x \in S : F[x] = G[x]
  BY <1>4, <1>7
<1>9. Sums(g, F, S) /\ Sums(h, G, S) /\ S \subseteq S
  BY <1>5, <1>6, <1>7, Zenon
<1>10. S \in SUBSET S /\ \A T \in SUBSET S : g[T] = h[T]
  BY <1>3, <1>8, <1>9, SumsAgree
<1>11. Elapsed(d, Dims) = Elapsed(r, Dims)
  BY <1>1, <1>5, <1>6, <1>10
<1>12. QED
  BY <1>11 DEF TransferOf

\* The larger of two numbers
LEMMA MaxOfTwo ==
  ASSUME NEW x \in Nat, NEW y \in Nat
  PROVE  Max({x, y}) \in Nat /\ x <= Max({x, y}) /\ y <= Max({x, y})
<1>1. \E m \in {x, y} : \A n \in {x, y} : m >= n
  <2>1. x <= y \/ y <= x
    OBVIOUS
  <2>2. QED
    BY <2>1
<1>2. Max({x, y}) \in {x, y} /\ \A n \in {x, y} : Max({x, y}) >= n
  BY <1>1 DEF Max
<1>3. QED
  BY <1>2

\* Rows with some keys are rows with more.
LEMMA MoreKeys ==
  ASSUME NEW K, NEW L, K \subseteq L, NEW q \in Seq(RowsOf(K))
  PROVE  q \in Seq(RowsOf(L))
<1>1. RowsOf(K) \subseteq RowsOf(L)
  BY DEF RowsOf
<1>2. PICK A, B : A = RowsOf(K) /\ B = RowsOf(L)
  OBVIOUS
<1>3. q \in [1..Len(q) -> A] /\ Len(q) \in Nat
  BY <1>2
<1>4. q \in [1..Len(q) -> B]
  BY <1>1, <1>2, <1>3
<1>5. q \in Seq(B)
  BY <1>3, <1>4
<1>6. QED
  BY <1>2, <1>5

\* The entries of a trace have times, ends and flits.
LEMMA RowFacts ==
  ASSUME NEW K, NEW q \in Seq(RowsOf(K)), NEW i \in 1..Len(q)
  PROVE  /\ q[i].ready \in Nat /\ q[i].cycles \in Nat /\ q[i].src \in Nat /\ q[i].dst \in Nat
         /\ q[i].flits \in Nat /\ q[i].chunk \in Nat /\ q[i].origin \in Node /\ q[i].expert \in Nat
<1>1. PICK S : S = RowsOf(K)
  OBVIOUS
<1>2. q[i] \in S
  BY <1>1
<1>3. QED
  BY <1>1, <1>2 DEF RowsOf

\* The clock of a chiplet goes forward.
LEMMA ClockStep ==
  ASSUME NEW clk \in [Node -> Nat], NEW c \in Node, NEW x \in Nat, clk[c] <= x
  PROVE  /\ [clk EXCEPT ![c] = x] \in [Node -> Nat] /\ [clk EXCEPT ![c] = x][c] = x
         /\ \A s \in Node : clk[s] <= [clk EXCEPT ![c] = x][s]
<1>1. ASSUME NEW s \in Node PROVE clk[s] <= [clk EXCEPT ![c] = x][s]
  <2>1. CASE s = c
    BY <2>1
  <2>2. CASE s # c
    BY <2>2
  <2>3. QED
    BY <2>1, <2>2
<1>2. QED
  BY <1>1

\* Two rows in the place of one
LEMMA SplicedRows ==
  ASSUME NEW K, NEW q \in Seq(RowsOf(K)), NEW n \in Nat, n = Len(q), NEW a \in 1..n, NEW L, NEW d \in RowsOf(L),
         NEW w \in RowsOf(L), NEW p, Splice(q, a, d, w, p)
  PROVE  InPlaceOf(RowsOf(K \cup L), q, n, a, d, w, p)
<1>1. PICK S : S = RowsOf(K \cup L)
  OBVIOUS
<1>2. q \in Seq(S) /\ d \in S /\ w \in S
  <2>1. K \subseteq K \cup L
    OBVIOUS
  <2>2. q \in Seq(S)
    BY <1>1, <2>1, MoreKeys
  <2>3. d \in S /\ w \in S
    BY <1>1 DEF RowsOf
  <2>4. QED
    BY <2>2, <2>3
<1>3. InPlaceOf(S, q, n, a, d, w, p)
  BY <1>2, Spliced
<1>4. QED
  BY <1>1, <1>3

LayerSetting(sch, K, q, n, a, r, clk, clk2, L, d, w, p, c, start, cycles) ==
  /\ q \in Seq(RowsOf(K)) /\ n \in Nat /\ n = Len(q) /\ a \in 1..n /\ r = q[a]
  /\ clk \in [Node -> Nat] /\ clk2 \in [Node -> Nat]
  /\ BetweenNodes(q) /\ Layered(q, clk, sch) /\ DispatchesFrom(q, a)
  /\ d \in RowsOf(L) /\ w \in RowsOf(L) /\ Splice(q, a, d, w, p)
  /\ d.src = r.src /\ d.dst = r.dst /\ d.chunk = r.chunk /\ d.flits = r.flits /\ d.phase # "return"
  /\ c \in Node /\ c = r.dst /\ w.src = c /\ w.dst = r.src
  /\ start \in Nat /\ cycles \in Nat /\ w.cycles = cycles /\ w.ready = start + cycles
  /\ start >= clk[c] /\ start >= d.ready + TransferOf(sch, r)
  /\ clk2[c] = start + cycles /\ \A s \in Node : clk[s] <= clk2[s]
LayerKept(S, p, clk, sch, a) == p \in Seq(S) /\ BetweenNodes(p) /\ Layered(p, clk, sch) /\ DispatchesFrom(p, a + 2)

\* build_layer_rows puts the dispatch d and the return w in the place of the row in position a.
LEMMA LayeredStep ==
  ASSUME AllToAllAssumption, NEW sch, NEW K, NEW q, NEW n, NEW a, NEW r, NEW clk, NEW clk2, NEW L, NEW d, NEW w, NEW p,
         NEW c, NEW start, NEW cycles, LayerSetting(sch, K, q, n, a, r, clk, clk2, L, d, w, p, c, start, cycles)
  PROVE  LayerKept(RowsOf(K \cup L), p, clk2, sch, a)
<1>1. n \in Nat /\ a \in 1..n
  BY DEF LayerSetting
<1>2. ASSUME NEW m \in 1..(n + 1)
      PROVE  /\ m < a \/ m = a \/ m = a + 1 \/ m > a + 1
             /\ m < a => m \in 1..(a - 1) /\ m \in 1..n
             /\ m > a + 1 => /\ ~(m < a) /\ m # a /\ m # a + 1 /\ m - 1 \in 1..n /\ ~(m - 1 < a)
                              /\ m - a - 1 \in 1..(n - a)
                              /\ a + 1 + (m - a - 1) = m /\ a + (m - a - 1) = m - 1
             /\ (m < a \/ m = a \/ m = a + 1) => m < a + 2
  BY <1>1
<1> USE DEF LayerSetting
<1>3. /\ p \in Seq(RowsOf(K \cup L)) /\ Len(p) = n + 1
      /\ \A i \in 1..(a - 1) : p[i] = q[i]
      /\ p[a] = d /\ p[a + 1] = w
      /\ \A i \in 1..(n - a) : p[a + 1 + i] = q[a + i]
  <2>1. InPlaceOf(RowsOf(K \cup L), q, n, a, d, w, p)
    BY SplicedRows
  <2>2. QED
    BY <2>1, Zenon DEF InPlaceOf
<1>4. ASSUME NEW m \in 1..(n + 1)
      PROVE  \/ m \in 1..(a - 1) /\ m \in 1..n /\ m < a /\ p[m] = q[m]
             \/ m = a /\ p[m] = d
             \/ m = a + 1 /\ p[m] = w
             \/ m - 1 \in 1..n /\ ~(m - 1 < a) /\ p[m] = q[m - 1]
  <2>1. CASE m < a
    <3>1. m \in 1..(a - 1) /\ m \in 1..n
      BY <1>2, <2>1, Zenon
    <3>2. p[m] = q[m]
      BY <1>3, <3>1, Zenon
    <3>3. QED
      BY <2>1, <3>1, <3>2, Zenon
  <2>2. CASE m = a \/ m = a + 1
    BY <1>3, <2>2
  <2>3. CASE m > a + 1
    <3>1. PICK i \in 1..(n - a) : a + 1 + i = m /\ a + i = m - 1
      BY <1>2, <2>3, Zenon
    <3>2. p[a + 1 + i] = q[a + i]
      BY <1>3, Zenon
    <3>3. p[m] = q[m - 1]
      BY <3>1, <3>2, Zenon
    <3>4. QED
      BY <1>2, <2>3, <3>3, Zenon
  <2>4. QED
    BY <1>2, <2>1, <2>2, <2>3, Zenon
<1>5. q[a].src \in Node /\ q[a].dst \in Node /\ r.src \in Node /\ r.dst \in Node
  BY DEF BetweenNodes
<1>6. BetweenNodes(p)
  <2>1. ASSUME NEW m \in 1..(n + 1) PROVE p[m].src \in Node /\ p[m].dst \in Node
    BY <1>4, <1>5 DEF BetweenNodes
  <2>2. QED
    BY <1>3, <2>1 DEF BetweenNodes
<1>7. DispatchesFrom(p, a + 2)
  <2>1. ASSUME NEW m \in 1..(n + 1), p[m].phase = "return" PROVE m < a + 2
    <3>1. CASE m < a \/ m = a \/ m = a + 1
      BY <1>2, <3>1, Zenon
    <3>2. CASE m > a + 1
      <4>1. m - 1 \in 1..n /\ ~(m - 1 < a) /\ p[m] = q[m - 1]
        BY <1>2, <1>4, <3>2, Zenon
      <4>2. m - 1 \in 1..Len(q) /\ q[m - 1].phase = "return"
        BY <2>1, <4>1
      <4>3. QED
        BY <4>1, <4>2, Zenon DEF DispatchesFrom
    <3>3. QED
      BY <1>2, <3>1, <3>2, Zenon
  <2>2. QED
    BY <1>3, <2>1 DEF DispatchesFrom
<1>10. \A m \in 1..n : q[m].ready \in Nat /\ q[m].cycles \in Nat
  <2>1. \A m \in 1..Len(q) : q[m].ready \in Nat /\ q[m].cycles \in Nat
    BY RowFacts, Zenon
  <2>2. QED
    BY <2>1
<1>11. TransferOf(sch, d) = TransferOf(sch, r)
  BY SameTransfer
<1>12. ASSUME NEW m \in 1..(n + 1), p[m].phase = "return"
       PROVE  /\ m > 1 /\ p[m].ready <= clk2[p[m].src]
              /\ p[m].ready - p[m].cycles >= p[m - 1].ready + TransferOf(sch, p[m - 1])
              /\ \A k \in 1..(m - 1) :
                   p[k].phase = "return" /\ p[k].src = p[m].src => p[m].ready - p[m].cycles >= p[k].ready
  <2>1. CASE m \in 1..(a - 1) /\ m \in 1..n /\ m < a /\ p[m] = q[m]
    <3>1. q[m].phase = "return"
      BY <1>12, <2>1
    <3>2. /\ m > 1 /\ q[m].ready <= clk[q[m].src]
          /\ q[m].ready - q[m].cycles >= q[m - 1].ready + TransferOf(sch, q[m - 1])
          /\ \A k \in 1..(m - 1) :
               q[k].phase = "return" /\ q[k].src = q[m].src => q[m].ready - q[m].cycles >= q[k].ready
      BY <2>1, <3>1 DEF Layered
    <3>3. \A k \in 1..(m - 1) : p[k] = q[k]
      <4>1. TAKE k \in 1..(m - 1)
      <4>2. k \in 1..(a - 1)
        BY <2>1
      <4>3. QED
        BY <1>3, <4>2, Zenon
    <3>4. p[m - 1] = q[m - 1]
      BY <3>2, <3>3
    <3>5. q[m].src \in Node /\ q[m].ready \in Nat
      BY <1>10, <2>1 DEF BetweenNodes
    <3>6. clk[q[m].src] \in Nat /\ clk2[q[m].src] \in Nat /\ clk[q[m].src] <= clk2[q[m].src]
      BY <3>5
    <3>7. p[m].ready <= clk2[p[m].src]
      <4>1. PICK x \in Nat, y \in Nat, z \in Nat : x = q[m].ready /\ y = clk[q[m].src] /\ z = clk2[q[m].src]
        BY <3>5, <3>6, Zenon
      <4>2. x <= y /\ y <= z
        BY <3>2, <3>6, <4>1, Zenon
      <4>3. x <= z
        BY <4>2
      <4>4. QED
        BY <2>1, <4>1, <4>3, Zenon
    <3>8. \A k \in 1..(m - 1) :
            p[k].phase = "return" /\ p[k].src = p[m].src => p[m].ready - p[m].cycles >= p[k].ready
      BY <2>1, <3>2, <3>3
    <3>9. p[m].ready - p[m].cycles >= p[m - 1].ready + TransferOf(sch, p[m - 1])
      BY <2>1, <3>2, <3>4
    <3>10. QED
      BY <3>2, <3>7, <3>8, <3>9
  <2>2. CASE m = a /\ p[m] = d
    BY <1>12, <2>2
  <2>3. CASE m = a + 1 /\ p[m] = w
    <3>1. m > 1 /\ m - 1 = a /\ p[m - 1] = d
      BY <1>3, <2>3
    <3>2. p[m].ready <= clk2[p[m].src]
      <4>1. PICK x \in Nat : x = start + cycles /\ x <= x
        OBVIOUS
      <4>2. p[m].ready = x /\ clk2[p[m].src] = x
        BY <2>3, <4>1, Zenon
      <4>3. QED
        BY <4>1, <4>2, Zenon
    <3>3. p[m].ready - p[m].cycles = start
      <4>1. p[m].ready = start + cycles /\ p[m].cycles = cycles
        BY <2>3, Zenon
      <4>2. (start + cycles) - cycles = start
        OBVIOUS
      <4>3. QED
        BY <4>1, <4>2, Zenon
    <3>4. p[m].ready - p[m].cycles >= p[m - 1].ready + TransferOf(sch, p[m - 1])
      BY <1>11, <3>1, <3>3
    <3>5. ASSUME NEW k \in 1..(m - 1), p[k].phase = "return", p[k].src = p[m].src
          PROVE  p[m].ready - p[m].cycles >= p[k].ready
      <4>1. k # a
        BY <1>3, <3>5
      <4>2. k \in 1..(a - 1) /\ k \in 1..n
        BY <3>1, <4>1
      <4>3. p[k] = q[k]
        BY <1>3, <4>2, Zenon
      <4>4. q[k].phase = "return" /\ q[k].src = c /\ q[k].ready \in Nat
        BY <1>10, <2>3, <3>5, <4>2, <4>3
      <4>5. q[k].ready <= clk[q[k].src]
        BY <4>2, <4>4 DEF Layered
      <4>6. PICK x \in Nat, y \in Nat : x = q[k].ready /\ y = clk[c]
        BY <4>4, Zenon
      <4>7. x <= y
        BY <4>4, <4>5, <4>6, Zenon
      <4>8. start >= y
        BY <4>6, Zenon
      <4>9. start >= x
        BY <4>7, <4>8
      <4>10. QED
        BY <3>3, <4>3, <4>6, <4>9, Zenon
    <3>6. QED
      BY <3>1, <3>2, <3>4, <3>5
  <2>4. CASE m - 1 \in 1..n /\ ~(m - 1 < a) /\ p[m] = q[m - 1]
    BY <1>12, <2>4 DEF DispatchesFrom
  <2>5. QED
    BY <1>4, <2>1, <2>2, <2>3, <2>4
<1>13. Layered(p, clk2, sch)
  BY <1>3, <1>12 DEF Layered
<1>14. QED
  BY <1>3, <1>6, <1>7, <1>13, Zenon DEF LayerKept

IsDispatch(d, r, L, ready) ==
  /\ d \in RowsOf(L) /\ d.src = r.src /\ d.dst = r.dst /\ d.chunk = r.chunk /\ d.flits = r.flits
  /\ d.phase = r.phase /\ d.ready = ready
IsReturn(w, r, L, ready) ==
  w \in RowsOf(L) /\ w.src = r.dst /\ w.dst = r.src /\ w.phase = "return" /\ w.ready = ready /\ w.cycles = r.cycles

\* What build_layer_rows makes of a row: its dispatch
LEMMA DispatchType ==
  ASSUME NEW K, NEW r \in RowsOf(K), NEW ready \in Nat, NEW cycles \in Nat, NEW key, NEW L, key \in L,
         NEW d, d = [r EXCEPT !.ready = ready, !.key = key, !.cycles = cycles]
  PROVE  IsDispatch(d, r, L, ready)
BY DEF RowsOf, IsDispatch

\* And its return
LEMMA ReturnType ==
  ASSUME NEW K, NEW r \in RowsOf(K), NEW ready \in Nat, NEW key, NEW L, key \in L,
         NEW w, w = [r EXCEPT !.src = r.dst, !.dst = r.src, !.phase = "return", !.ready = ready, !.key = key]
  PROVE  IsReturn(w, r, L, ready)
BY DEF RowsOf, IsReturn

LayerParts(r, d, w, start, cycles, p, clk2) ==
  /\ cycles = IF Accounted(r.origin) THEN 0 ELSE cost[<<"router", r.origin>>]
  /\ d = [r EXCEPT !.ready = cost[<<"router", r.origin>>], !.key = <<"router", r.origin>>, !.cycles = cycles]
  /\ start = Max({clock[r.dst], cost[<<"router", r.origin>>] + TransferOf(scheduler, r)})
  /\ w = [r EXCEPT !.src = r.dst, !.dst = r.src, !.phase = "return", !.ready = start + r.cycles, !.key = ExpertKey(r)]
  /\ Splice(rows, at, d, w, p) /\ clk2 = [clock EXCEPT ![r.dst] = start + r.cycles]

\* LayerRow, in the names of the invariant
LEMMA LayerRowIs ==
  ASSUME LayerRow, NEW r, r = rows[at]
  PROVE  \E d, w, start, cycles, p, clk2 :
           LayerParts(r, d, w, start, cycles, p, clk2) /\ p = rows' /\ clk2 = clock'
<1> DEFINE x == cost[<<"router", r.origin>>]
           cycles == IF Accounted(r.origin) THEN 0 ELSE x
           d == [r EXCEPT !.ready = x, !.key = <<"router", r.origin>>, !.cycles = cycles]
           start == Max({clock[r.dst], x + TransferOf(scheduler, r)})
           w == [r EXCEPT !.src = r.dst, !.dst = r.src, !.phase = "return", !.ready = start + r.cycles,
                          !.key = ExpertKey(r)]
<1>1. start = ExpertStart(r, x + TransferCycles(r))
  BY DEF ExpertStart, TransferCycles, TransferOf
<1>2. rows' = SubSeq(rows, 1, at - 1) \o <<d, w>> \o SubSeq(rows, at + 1, Len(rows))
  <2> HIDE DEF start
  <2>1. QED
    BY <1>1 DEF LayerRow
<1>3. clock' = [clock EXCEPT ![r.dst] = start + r.cycles]
  <2> HIDE DEF start
  <2>1. QED
    BY <1>1 DEF LayerRow
<1>4. PICK p, clk2 : p = rows' /\ clk2 = clock'
  OBVIOUS
<1>5. Splice(rows, at, d, w, p)
  <2> HIDE DEF d, w
  <2>1. QED
    BY <1>2, <1>4 DEF Splice
<1>6. PICK c, s, dd, ww : c = cycles /\ s = start /\ dd = d /\ ww = w
  OBVIOUS
<1>7. /\ dd = [r EXCEPT !.ready = x, !.key = <<"router", r.origin>>, !.cycles = c]
      /\ ww = [r EXCEPT !.src = r.dst, !.dst = r.src, !.phase = "return", !.ready = s + r.cycles,
                        !.key = ExpertKey(r)]
  <2> HIDE DEF start, cycles
  <2>1. QED
    BY <1>6
<1>8. Splice(rows, at, dd, ww, p) /\ clk2 = [clock EXCEPT ![r.dst] = s + r.cycles]
  <2> HIDE DEF d, w, start
  <2>1. QED
    BY <1>3, <1>4, <1>5, <1>6
<1>9. /\ c = IF Accounted(r.origin) THEN 0 ELSE x
      /\ s = Max({clock[r.dst], x + TransferOf(scheduler, r)})
  BY <1>6
<1>10. LayerParts(r, dd, ww, s, c, p, clk2)
  <2> HIDE DEF cycles, d, start, w
  <2>1. QED
    BY <1>7, <1>8, <1>9, Zenon DEF LayerParts
<1>11. QED
  BY <1>4, <1>10, Zenon

\* build_layer_rows keeps the invariant.
LEMMA LayerRowStep ==
  ASSUME AllToAllAssumption, TimesAssumption, RouteInv, TimesInv, LayerRow
  PROVE  TimesInv'
<1>1. /\ at \in Nat /\ Setting /\ TraceInv /\ LayerInv /\ BenchInv
      /\ stage = "layer" /\ at <= Len(rows)
  BY DEF TimesInv, RouteInv, LayerRow
<1>2. /\ at' = at + 2 /\ stage' = stage /\ kind' = kind /\ scheduler' = scheduler
      /\ tokens' = tokens /\ cost' = cost /\ bench' = bench
  BY DEF LayerRow
<1>3. kind = "layer" /\ cost \in Costs
  BY <1>1 DEF Setting
<1>4. PICK K : rows \in Seq(RowsOf(K))
  BY <1>1 DEF TraceInv
<1>5. clock \in [Node -> Nat]
  BY <1>1 DEF TraceInv
<1>6. BetweenNodes(rows) /\ Layered(rows, clock, scheduler) /\ at >= 1 /\ DispatchesFrom(rows, at)
  BY <1>1, <1>3 DEF LayerInv
<1>7. PICK n \in Nat : n = Len(rows)
  BY <1>4
<1>8. at \in 1..n
  BY <1>1, <1>6, <1>7
<1>9. PICK r : r = rows[at]
  OBVIOUS
<1>10. r \in RowsOf(K) /\ r.src \in Node /\ r.dst \in Node /\ r.phase # "return"
  <2>1. r \in RowsOf(K)
    BY <1>4, <1>7, <1>8, <1>9
  <2>2. at \in 1..Len(rows) /\ ~(at < at)
    BY <1>7, <1>8
  <2>3. r.src \in Node /\ r.dst \in Node
    BY <1>6, <1>9, <2>2 DEF BetweenNodes
  <2>4. r.phase # "return"
    BY <1>6, <1>9, <2>2 DEF DispatchesFrom
  <2>5. QED
    BY <2>1, <2>3, <2>4
<1>11. r.origin \in Node /\ r.cycles \in Nat /\ r.src \in Nat /\ r.dst \in Nat /\ r.flits \in Nat
  BY <1>10 DEF RowsOf
<1>12. PICK x \in Nat : x = cost[<<"router", r.origin>>]
  BY <1>3, <1>11 DEF TimesAssumption
<1>13. PICK y \in Nat : y = clock[r.dst]
  BY <1>5, <1>10
<1>14. PICK t \in Nat : t = TransferOf(scheduler, r)
  BY <1>11, TransferIsNumber
<1>15. PICK d, w, start, cycles, p, clk2 : LayerParts(r, d, w, start, cycles, p, clk2) /\ p = rows' /\ clk2 = clock'
  BY <1>9, LayerRowIs, Zenon
<1>16. start \in Nat /\ y <= start /\ x + t <= start
  <2>1. PICK z \in Nat : z = x + t
    OBVIOUS
  <2>2. start = Max({y, z})
    BY <1>12, <1>13, <1>14, <1>15, <2>1, Zenon DEF LayerParts
  <2>3. QED
    BY <2>1, <2>2, MaxOfTwo, Zenon
<1>17. cycles \in Nat
  <2>1. cycles = 0 \/ cycles = x
    BY <1>12, <1>15 DEF LayerParts
  <2>2. QED
    BY <2>1
<1>18. PICK k1, k2, L : k1 = <<"router", r.origin>> /\ k2 = ExpertKey(r) /\ k1 \in L /\ k2 \in L
  <2>1. PICK k1, k2 : k1 = <<"router", r.origin>> /\ k2 = ExpertKey(r)
    OBVIOUS
  <2>2. PICK L : L = {k1, k2}
    OBVIOUS
  <2>3. k1 \in L /\ k2 \in L
    BY <2>2
  <2>4. QED
    BY <2>1, <2>3, Zenon
<1>19. PICK u \in Nat : u = r.cycles
  BY <1>11
<1>20. start + u \in Nat
  BY <1>16
<1>21. /\ d \in RowsOf(L) /\ d.src = r.src /\ d.dst = r.dst /\ d.chunk = r.chunk /\ d.flits = r.flits
       /\ d.phase = r.phase /\ d.ready = x
  <2>1. d = [r EXCEPT !.ready = x, !.key = k1, !.cycles = cycles]
    BY <1>12, <1>15, <1>18, Zenon DEF LayerParts
  <2>2. QED
    <3>1. IsDispatch(d, r, L, x)
      BY <1>10, <1>17, <1>18, <2>1, DispatchType, Zenon
    <3>2. QED
      BY <3>1, Zenon DEF IsDispatch
<1>22. /\ w \in RowsOf(L) /\ w.src = r.dst /\ w.dst = r.src
       /\ w.phase = "return" /\ w.ready = start + u /\ w.cycles = u
  <2>1. w = [r EXCEPT !.src = r.dst, !.dst = r.src, !.phase = "return", !.ready = start + u, !.key = k2]
    BY <1>15, <1>18, <1>19, Zenon DEF LayerParts
  <2>2. w \in RowsOf(L) /\ w.src = r.dst /\ w.dst = r.src /\ w.phase = "return" /\ w.ready = start + u /\ w.cycles = r.cycles
    <3>1. IsReturn(w, r, L, start + u)
      BY <1>10, <1>18, <1>20, <2>1, ReturnType, Zenon
    <3>2. QED
      BY <3>1, Zenon DEF IsReturn
  <2>3. QED
    BY <1>19, <2>2, Zenon
<1>23. clk2 \in [Node -> Nat] /\ clk2[r.dst] = start + u /\ \A s \in Node : clock[s] <= clk2[s]
  <2>1. PICK c \in Node : c = r.dst
    BY <1>10
  <2>2. PICK z \in Nat : z = start + u /\ clock[c] <= z
    BY <1>13, <1>16, <1>20, <2>1
  <2>3. clk2 = [clock EXCEPT ![c] = z]
    BY <1>15, <1>19, <2>1, <2>2, Zenon DEF LayerParts
  <2>4. /\ [clock EXCEPT ![c] = z] \in [Node -> Nat] /\ [clock EXCEPT ![c] = z][c] = z
        /\ \A s \in Node : clock[s] <= [clock EXCEPT ![c] = z][s]
    BY <1>5, <2>2, ClockStep
  <2>5. QED
    BY <2>1, <2>2, <2>3, <2>4, Zenon
<1>24. Splice(rows, at, d, w, p)
  BY <1>15, Zenon DEF LayerParts
<1>25. /\ p \in Seq(RowsOf(K \cup L)) /\ BetweenNodes(p) /\ Layered(p, clk2, scheduler) /\ DispatchesFrom(p, at + 2)
  <2>1. PICK q, clk, sch, a : q = rows /\ clk = clock /\ sch = scheduler /\ a = at /\ a \in 1..n
    <3>1. PICK q, clk, sch, a : q = rows /\ clk = clock /\ sch = scheduler /\ a = at
      OBVIOUS
    <3>2. QED
      BY <1>8, <3>1, Zenon
  <2>2. q \in Seq(RowsOf(K)) /\ clk \in [Node -> Nat] /\ n = Len(q) /\ r = q[a]
    BY <1>4, <1>5, <1>7, <1>9, <2>1, Zenon
  <2>3. BetweenNodes(q) /\ Layered(q, clk, sch) /\ DispatchesFrom(q, a) /\ Splice(q, a, d, w, p)
    BY <1>6, <1>24, <2>1, Zenon
  <2>4. PICK c \in Node : c = r.dst
    BY <1>10
  <2>5. start >= clk[c] /\ start >= d.ready + TransferOf(sch, r)
    <3>1. start >= y /\ start >= x + t
      BY <1>16
    <3>2. QED
      BY <1>13, <1>14, <1>21, <2>1, <2>4, <3>1, Zenon
  <2>6. clk2[c] = start + u /\ (\A s \in Node : clk[s] <= clk2[s]) /\ w.src = c
    BY <1>22, <1>23, <2>1, <2>4, Zenon
  <2>7. d.phase # "return"
    BY <1>10, <1>21
  <2>8. LayerSetting(sch, K, q, n, a, r, clk, clk2, L, d, w, p, c, start, u)
    <3>1. w.dst = r.src /\ w.ready = start + u /\ w.cycles = u /\ w \in RowsOf(L) /\ d \in RowsOf(L)
      BY <1>21, <1>22, Zenon
    <3>2. d.src = r.src /\ d.dst = r.dst /\ d.chunk = r.chunk /\ d.flits = r.flits
      BY <1>21, Zenon
    <3>3. start \in Nat /\ clk2 \in [Node -> Nat]
      BY <1>16, <1>23, Zenon
    <3>4. QED
      BY <2>1, <2>2, <2>3, <2>4, <2>5, <2>6, <2>7, <3>1, <3>2, <3>3, Zenon DEF LayerSetting
  <2>9. LayerKept(RowsOf(K \cup L), p, clk2, sch, a)
    BY <2>8, LayeredStep, Zenon
  <2>10. QED
    BY <2>1, <2>9, Zenon DEF LayerKept
<1>26. TraceInv'
  BY <1>15, <1>23, <1>25 DEF TraceInv
<1>27. LayerInv'
  <2>1. at' >= 1
    BY <1>1, <1>2
  <2>2. BetweenNodes(rows') /\ Layered(rows', clock', scheduler') /\ DispatchesFrom(rows', at')
    BY <1>2, <1>15, <1>25, Zenon
  <2>3. stage' = "layer"
    BY <1>1, <1>2
  <2>4. QED
    BY <2>1, <2>2, <2>3 DEF LayerInv, BetweenNodes, Layered, DispatchesFrom
<1>28. Setting'
  BY <1>1, <1>2 DEF Setting, Divisible
<1>29. BenchInv'
  BY <1>1, <1>2 DEF BenchInv, Rotated
<1>30. QED
  BY <1>26, <1>27, <1>28, <1>29 DEF TimesInv

\* A step that writes nothing to the trace
LEMMA TimesFrame ==
  ASSUME TimesInv, stage # "layer" \/ (stage' # "layer" \/ at' = at),
         kind' = kind, scheduler' = scheduler, tokens' = tokens, cost' = cost, rows' = rows, clock' = clock,
         bench' = bench, stage \notin {"run", "done"} \/ stage' \in {"run", "done"},
         stage' \in {"route", "emit"} => Divisible, stage' = "layer" => stage = "layer",
         stage' \in {"check", "route", "emit"} => stage \in {"check", "route", "emit"}
  PROVE  TimesInv'
<1>1. Setting /\ TraceInv /\ LayerInv /\ BenchInv
  BY DEF TimesInv
<1>2. Setting'
  <2>1. kind' \in Kind /\ tokens' \in Nat \ {0} /\ cost' \in Costs /\ (stage' = "layer" => kind' = "layer")
    BY <1>1 DEF Setting
  <2>2. stage' \in {"route", "emit"} => Divisible'
    BY DEF Divisible, PerExpert
  <2>3. QED
    BY <2>1, <2>2 DEF Setting
<1>3. TraceInv'
  BY <1>1 DEF TraceInv
<1>4. LayerInv'
  BY <1>1 DEF LayerInv, BetweenNodes, Layered, DispatchesFrom
<1>5. BenchInv'
  BY <1>1 DEF BenchInv, Rotated
<1>6. QED
  BY <1>2, <1>3, <1>4, <1>5 DEF TimesInv

\* The checks, the routers, the end of the layer and PopNet write nothing to the trace.
LEMMA QuietSteps ==
  ASSUME TimesInv,
         \/ Check \/ RouteUnderCapacity \/ RoutePerSource \/ RouteTile \/ Routed \/ LayerDone \/ RunPopNet
         \/ UNCHANGED vars
  PROVE  TimesInv'
<1>1. stage \in {"route", "emit"} => Divisible
  BY DEF TimesInv, Setting
<1>2. CASE Check
  <2>1. stage = "check" /\ (stage' \in {"route", "emit"} => Divisible) /\ stage' \in {"raised", "route", "emit"}
    BY <1>2 DEF Check
  <2>2. /\ kind' = kind /\ scheduler' = scheduler /\ tokens' = tokens /\ cost' = cost /\ rows' = rows
        /\ clock' = clock /\ bench' = bench
    BY <1>2 DEF Check, trace
  <2>3. QED
    BY <2>1, <2>2, TimesFrame
<1>3. CASE RouteUnderCapacity \/ RoutePerSource \/ RouteTile
  <2>1. stage = "route" /\ \E s, x, room : Count(s, x, room)
    <3>1. CASE RouteUnderCapacity
      BY <3>1, Zenon DEF RouteUnderCapacity
    <3>2. CASE RoutePerSource
      BY <3>2, Zenon DEF RoutePerSource
    <3>3. CASE RouteTile
      BY <3>3, Zenon DEF RouteTile
    <3>4. QED
      BY <1>3, <3>1, <3>2, <3>3
  <2>2. PICK s, x, room : Count(s, x, room)
    BY <2>1
  <2>3. /\ stage' = stage /\ kind' = kind /\ scheduler' = scheduler /\ tokens' = tokens /\ cost' = cost
        /\ rows' = rows /\ clock' = clock /\ bench' = bench
    BY <2>2, Zenon DEF Count
  <2>4. QED
    BY <1>1, <2>1, <2>3, TimesFrame
<1>4. CASE Routed
  <2>1. stage = "route" /\ stage' \in {"done", "emit"}
    BY <1>4 DEF Routed
  <2>2. /\ kind' = kind /\ scheduler' = scheduler /\ tokens' = tokens /\ cost' = cost /\ rows' = rows
        /\ clock' = clock /\ bench' = bench
    BY <1>4 DEF Routed, trace
  <2>3. QED
    BY <1>1, <2>1, <2>2, TimesFrame
<1>5. CASE LayerDone
  <2>1. stage = "layer" /\ stage' = "bench"
    BY <1>5 DEF LayerDone
  <2>2. /\ kind' = kind /\ scheduler' = scheduler /\ tokens' = tokens /\ cost' = cost /\ rows' = rows
        /\ clock' = clock /\ bench' = bench
    BY <1>5 DEF LayerDone, trace
  <2>3. QED
    BY <2>1, <2>2, TimesFrame
<1>6. CASE RunPopNet
  <2>1. stage = "run" /\ stage' = "done"
    BY <1>6 DEF RunPopNet
  <2>2. /\ kind' = kind /\ scheduler' = scheduler /\ tokens' = tokens /\ cost' = cost /\ rows' = rows
        /\ clock' = clock /\ bench' = bench
    BY <1>6 DEF RunPopNet, trace
  <2>3. QED
    BY <2>1, <2>2, TimesFrame
<1>7. CASE UNCHANGED vars
  <2>1. stage' = stage /\ at' = at
    BY <1>7 DEF vars
  <2>2. /\ kind' = kind /\ scheduler' = scheduler /\ tokens' = tokens /\ cost' = cost /\ rows' = rows
        /\ clock' = clock /\ bench' = bench
    BY <1>7 DEF vars, trace
  <2>3. QED
    BY <1>1, <2>1, <2>2, TimesFrame
<1>8. QED
  BY <1>2, <1>3, <1>4, <1>5, <1>6, <1>7

\* The trace is written: what is to be made into a layer has no outputs yet.
LEMMA EmittedStep ==
  ASSUME TimesInv, Emitted
  PROVE  TimesInv'
<1>1. Setting /\ TraceInv /\ LayerInv /\ BenchInv
  BY DEF TimesInv
<1>2. stage = "emit" /\ at' = 1 /\ stage' \in {"raised", "layer", "bench"} /\ (stage' = "layer" => kind = "layer")
  BY DEF Emitted
<1>3. /\ kind' = kind /\ scheduler' = scheduler /\ tokens' = tokens /\ cost' = cost /\ rows' = rows /\ bench' = bench
      /\ clock' = [n \in Node |-> 0]
  BY DEF Emitted, Zero
<1>4. Setting'
  BY <1>1, <1>2, <1>3 DEF Setting
<1>5. TraceInv'
  <2>1. [n \in Node |-> 0] \in [Node -> Nat]
    OBVIOUS
  <2>2. QED
    BY <1>1, <1>3, <2>1 DEF TraceInv
<1>6. LayerInv'
  <2>1. SUFFICES ASSUME kind = "layer" PROVE LayerInv'
    BY <1>3 DEF LayerInv
  <2>2. BetweenNodes(rows) /\ DispatchesFrom(rows, 1)
    BY <1>1, <1>2, <2>1 DEF LayerInv
  <2>3. PICK K : rows \in Seq(RowsOf(K))
    BY <1>1 DEF TraceInv
  <2>4. PICK n \in Nat : n = Len(rows)
    BY <2>3
  <2>5. \A m \in 1..n : rows[m].phase # "return"
    <3>1. \A m \in 1..n : ~(m < 1)
      OBVIOUS
    <3>2. QED
      BY <2>2, <2>4, <3>1 DEF DispatchesFrom
  <2>6. PICK clk : clk = clock'
    OBVIOUS
  <2>7. Layered(rows, clk, scheduler)
    BY <2>4, <2>5 DEF Layered
  <2>8. at' >= 1
    BY <1>2
  <2>9. BetweenNodes(rows)' /\ Layered(rows', clock', scheduler') /\ DispatchesFrom(rows', at')
    BY <1>2, <1>3, <2>2, <2>6, <2>7, Zenon DEF BetweenNodes
  <2>10. stage' \notin {"check", "route", "emit"}
    BY <1>2
  <2>11. QED
    BY <2>8, <2>9, <2>10 DEF LayerInv, BetweenNodes, Layered, DispatchesFrom
<1>7. BenchInv'
  BY <1>1, <1>2, <1>3 DEF BenchInv, Rotated
<1>8. QED
  BY <1>4, <1>5, <1>6, <1>7 DEF TimesInv

\* The schedulers read the trace.
LEMMA BenchStep ==
  ASSUME TimesInv, BuildBench
  PROVE  TimesInv'
<1>1. Setting /\ TraceInv /\ LayerInv /\ BenchInv
  BY DEF TimesInv
<1>2. stage = "bench" /\ stage' = "run" /\ bench' = Schedule
  BY DEF BuildBench
<1>3. /\ kind' = kind /\ scheduler' = scheduler /\ tokens' = tokens /\ cost' = cost /\ rows' = rows /\ clock' = clock
  BY DEF BuildBench, trace
<1>4. Setting'
  BY <1>1, <1>2, <1>3 DEF Setting
<1>5. TraceInv'
  BY <1>1, <1>3 DEF TraceInv
<1>6. LayerInv'
  BY <1>1, <1>2, <1>3 DEF LayerInv, BetweenNodes, Layered, DispatchesFrom
<1>7. ASSUME kind = "pairs" PROVE \A p \in Schedule : p.hop = 0
  <2>1. TAKE p \in Schedule
  <2>2. p \in ScheduleMesh
    BY <1>7, <2>1 DEF Schedule
  <2>3. PICK n \in DOMAIN rows : \E a, s, t, f : p = [at |-> a, src |-> s, dst |-> t, flits |-> f, of |-> {n}, hop |-> 0]
    BY <2>2, Zenon DEF ScheduleMesh
  <2>4. QED
    BY <2>3
<1>8. PICK K : rows \in Seq(RowsOf(K))
  BY <1>1 DEF TraceInv
<1>9. ASSUME kind # "pairs", scheduler = "dimrotation" PROVE Rotated(Schedule, rows)
  <2>1. Schedule \subseteq ScheduleDimRotation
    BY <1>9 DEF Schedule
  <2>2. DOMAIN rows = 1..Len(rows)
    BY <1>8
  <2>3. \A p \in ScheduleDimRotation : \E n \in 1..Len(rows), i \in Dim : p = PacketOf(rows, n, i)
    <3>1. ScheduleDimRotation = {PacketOf(rows, n, i) : n \in DOMAIN rows, i \in Dim}
      BY DEF ScheduleDimRotation, PacketOf
    <3>2. QED
      BY <2>2, <3>1
  <2>4. QED
    BY <2>1, <2>3 DEF Rotated
<1>10. BenchInv'
  <2>1. PICK b : b = Schedule
    OBVIOUS
  <2>2. bench' = b /\ (kind = "pairs" => \A p \in b : p.hop = 0)
        /\ (kind # "pairs" /\ scheduler = "dimrotation" => Rotated(b, rows))
    BY <1>2, <1>7, <1>9, <2>1
  <2>3. QED
    BY <1>2, <1>3, <2>2 DEF BenchInv, Rotated
<1>11. QED
  BY <1>4, <1>5, <1>6, <1>10 DEF TimesInv

\* The drivers: what is written for a pair
LEMMA EmitRows ==
  ASSUME AllToAllAssumption, TimesAssumption, RouteInv, TimesInv, EmitPair
  PROVE  \/ rows' = rows /\ clock' = clock
         \/ clock' \in [Node -> Nat] /\ \E s \in Node, e \in Target : Appends(s, e) /\ (kind = "layer" => Chiplet(e) \in Node)
<1>1. Setting /\ clock \in [Node -> Nat]
  BY DEF TimesInv, TraceInv
<1>2. at \in Nat /\ kept \in [Node -> [Expert -> Nat]] /\ stage = "emit" /\ at < Pairs
  BY DEF RouteInv, EmitPair
<1>3. cost \in Costs /\ tokens \in Nat /\ Divisible
  BY <1>1, <1>2 DEF Setting
<1>4. PICK s \in Node, e \in Target : s = Pair(at)[1] /\ e = Pair(at)[2]
  BY <1>2, PairFacts
<1>5. CASE rows' = rows /\ clock' = clock
  BY <1>5
<1>6. CASE ~(rows' = rows /\ clock' = clock)
  <2>1. \/ kind = "pairs" /\ PairRow(s, e)
        \/ kind = "chunked" /\ ChunkRows(s, e)
        \/ kind = "projection" /\ ProjectionRows(s, e)
        \/ kind \in {"expert", "layer"} /\ ExpertRows(s, e)
        \/ kind = "uniform" /\ UniformRows(s, e)
        \/ kind = "routed" /\ RoutedRows(s, e)
        \/ kind = "checkpoint" /\ CheckpointRows(s, e)
    BY <1>4, <1>6 DEF EmitPair
  <2>2. Chiplet(e) \in Nat /\ (kind # "checkpoint" => Chiplet(e) \in Node)
    <3>1. HasExperts /\ kind # "checkpoint" => Experts % Nodes = 0
      BY <1>3, <2>1 DEF HasExperts, Divisible
    <3>2. QED
      BY <3>1, ChipletIs
  <2>3. PerExpert \in Nat
    <3>1. PICK d \in Nat \ {0} : d = Experts
      BY Numbers
    <3>2. tokens \div d \in Nat
      BY <1>3, Divided
    <3>3. QED
      BY <3>1, <3>2 DEF PerExpert
  <2>4. Appends(s, e) /\ clock' \in [Node -> Nat]
    <3>1. CASE kind = "pairs" /\ PairRow(s, e)
      <4>1. Appends(s, e) /\ clock' = clock
        BY <1>2, <1>3, <2>2, <3>1, PairRows
      <4>2. QED
        BY <1>1, <4>1
    <3>2. CASE kind = "chunked" /\ ChunkRows(s, e)
      <4>1. Appends(s, e) /\ clock' = clock
        BY <1>2, <1>3, <2>2, <3>2, ChunksRows
      <4>2. QED
        BY <1>1, <4>1
    <3>3. CASE kind = "projection" /\ ProjectionRows(s, e)
      <4>1. InTurn(s, e, tokens)
        BY <3>3 DEF ProjectionRows
      <4>2. QED
        BY <1>1, <1>3, <2>2, <4>1, InTurnRows
    <3>4. CASE kind \in {"expert", "layer"} /\ ExpertRows(s, e)
      <4>1. InTurn(s, e, PerExpert)
        BY <3>4 DEF ExpertRows
      <4>2. QED
        BY <1>1, <1>3, <2>2, <2>3, <4>1, InTurnRows
    <3>5. CASE kind \in {"uniform", "routed", "checkpoint"} /\ (UniformRows(s, e) \/ RoutedRows(s, e) \/ CheckpointRows(s, e))
      <4>1. PICK n \in Nat : Traffic(s, e, n)
        <5>1. CASE UniformRows(s, e)
          <6>1. Traffic(s, e, PerExpert)
            BY <5>1 DEF UniformRows
          <6>2. QED
            BY <2>3, <6>1
        <5>2. CASE RoutedRows(s, e) \/ CheckpointRows(s, e)
          <6>1. kept[s][e] \in Nat
            <7>1. e \in Expert
              BY <3>5 DEF Target, HasExperts
            <7>2. QED
              BY <1>2, <7>1
          <6>2. Traffic(s, e, kept[s][e])
            BY <5>2 DEF RoutedRows, CheckpointRows
          <6>3. QED
            BY <6>1, <6>2
        <5>3. QED
          BY <3>5, <5>1, <5>2
      <4>2. kind # "layer"
        BY <3>5
      <4>3. Appends(s, e) /\ clock' = clock
        BY <1>3, <2>2, <4>1, <4>2, TrafficRows
      <4>4. QED
        BY <1>1, <4>3
    <3>6. QED
      BY <2>1, <3>1, <3>2, <3>3, <3>4, <3>5
  <2>5. kind = "layer" => Chiplet(e) \in Node
    BY <2>2
  <2>6. QED
    BY <2>4, <2>5, Zenon
<1>7. QED
  BY <1>5, <1>6

\* The drivers write rows, and for the layer dispatches only.
LEMMA EmitStep ==
  ASSUME AllToAllAssumption, TimesAssumption, RouteInv, TimesInv, EmitPair
  PROVE  TimesInv'
<1>1. Setting /\ TraceInv /\ LayerInv /\ BenchInv
  BY DEF TimesInv
<1>2. /\ kind' = kind /\ scheduler' = scheduler /\ tokens' = tokens /\ cost' = cost /\ bench' = bench
      /\ stage = "emit" /\ stage' = "emit"
  BY DEF EmitPair
<1>3. CASE rows' = rows /\ clock' = clock
  <2>1. stage \in {"route", "emit"} => Divisible
    BY <1>1 DEF Setting
  <2>2. QED
    BY <1>2, <1>3, <2>1, TimesFrame
<1>4. CASE clock' \in [Node -> Nat] /\ \E s \in Node, e \in Target : Appends(s, e) /\ (kind = "layer" => Chiplet(e) \in Node)
  <2>1. PICK s \in Node, e \in Target : Appends(s, e) /\ (kind = "layer" => Chiplet(e) \in Node)
    BY <1>4
  <2>2. PICK p, L : /\ p \in Seq(RowsOf(L)) /\ rows' = rows \o p
                    /\ kind = "layer" => \A i \in 1..Len(p) :
                         p[i].phase = "dispatch" /\ p[i].src = s /\ p[i].dst = Chiplet(e)
    BY <2>1, Zenon DEF Appends
  <2>3. PICK K : rows \in Seq(RowsOf(K))
    BY <1>1 DEF TraceInv
  <2>4. PICK v, q : v = rows' /\ q = rows
    OBVIOUS
  <2>5. PICK S : S = RowsOf(K \cup L)
    OBVIOUS
  <2>6. v \in Seq(S)
    <3>1. q \o p \in Seq(RowsOf(K \cup L))
      BY <2>2, <2>3, <2>4, RowsAppended
    <3>2. QED
      BY <2>2, <2>4, <2>5, <3>1, Zenon
  <2>7. TraceInv'
    BY <1>4, <2>4, <2>5, <2>6 DEF TraceInv
  <2>8. Setting'
    <3>1. kind' \in Kind /\ tokens' \in Nat \ {0} /\ cost' \in Costs
      BY <1>1, <1>2 DEF Setting
    <3>2. Divisible'
      BY <1>1, <1>2 DEF Setting, Divisible, PerExpert
    <3>3. QED
      BY <1>2, <3>1, <3>2 DEF Setting
  <2>9. BenchInv'
    <3>1. bench' = {}
      BY <1>1, <1>2 DEF BenchInv
    <3>2. QED
      BY <3>1 DEF BenchInv, Rotated
  <2>10. LayerInv'
    <3>1. SUFFICES ASSUME kind = "layer" PROVE LayerInv'
      BY <1>2 DEF LayerInv
    <3>2. BetweenNodes(q) /\ DispatchesFrom(q, 1)
      BY <1>1, <1>2, <2>4, <3>1 DEF LayerInv
    <3>3. PICK m \in Nat, k \in Nat : m = Len(q) /\ k = Len(p)
      <4>1. q \in Seq(RowsOf(K)) /\ p \in Seq(RowsOf(L))
        BY <2>2, <2>3, <2>4
      <4>2. Len(q) \in Nat /\ Len(p) \in Nat
        BY <4>1, LenProperties
      <4>3. QED
        BY <4>2
    <3>4. Len(v) = m + k /\ (\A i \in 1..m : v[i] = q[i]) /\ (\A i \in 1..k : v[m + i] = p[i])
      <4>1. q \in Seq(S) /\ p \in Seq(S)
        <5>1. K \subseteq K \cup L /\ L \subseteq K \cup L
          OBVIOUS
        <5>2. q \in Seq(RowsOf(K)) /\ p \in Seq(RowsOf(L))
          BY <2>2, <2>3, <2>4, Zenon
        <5>3. q \in Seq(RowsOf(K \cup L)) /\ p \in Seq(RowsOf(K \cup L))
          BY <5>1, <5>2, MoreKeys
        <5>4. QED
          BY <2>5, <5>3, Zenon
      <4>2. v = q \o p
        BY <2>2, <2>4, Zenon
      <4>3. QED
        BY <3>3, <4>1, <4>2, Joined
    <3>5. ASSUME NEW i \in 1..(m + k)
          PROVE  v[i].src \in Node /\ v[i].dst \in Node /\ v[i].phase # "return"
      <4>1. CASE i \in 1..m
        <5>1. v[i] = q[i] /\ ~(i < 1)
          BY <3>4, <4>1
        <5>2. QED
          BY <3>2, <3>3, <4>1, <5>1 DEF BetweenNodes, DispatchesFrom
      <4>2. CASE i \notin 1..m
        <5>1. PICK j \in 1..k : i = m + j
          BY <4>2
        <5>2. v[i] = p[j]
          BY <3>4, <5>1, Zenon
        <5>3. p[j].phase = "dispatch" /\ p[j].src = s /\ p[j].dst = Chiplet(e) /\ Chiplet(e) \in Node
          BY <2>1, <2>2, <3>1, <3>3
        <5>4. QED
          BY <5>2, <5>3
      <4>3. QED
        BY <4>1, <4>2
    <3>6. PICK clk : clk = clock'
      OBVIOUS
    <3>7. BetweenNodes(v) /\ DispatchesFrom(v, 1) /\ Layered(v, clk, scheduler)
      <4>1. BetweenNodes(v)
        BY <3>4, <3>5 DEF BetweenNodes
      <4>2. DispatchesFrom(v, 1)
        BY <3>4, <3>5 DEF DispatchesFrom
      <4>3. Layered(v, clk, scheduler)
        BY <3>4, <3>5 DEF Layered
      <4>4. QED
        BY <4>1, <4>2, <4>3
    <3>8. stage' # "layer"
      BY <1>2
    <3>9. BetweenNodes(rows') /\ DispatchesFrom(rows', 1) /\ Layered(rows', clock', scheduler')
      BY <1>2, <2>4, <3>6, <3>7, Zenon
    <3>10. QED
      BY <3>8, <3>9 DEF LayerInv, BetweenNodes, Layered, DispatchesFrom
  <2>11. QED
    BY <2>7, <2>8, <2>9, <2>10 DEF TimesInv
<1>5. QED
  BY <1>3, <1>4, EmitRows

InTime(p, r, n, i) ==
  /\ p.of = {n} /\ p.hop = i /\ p.at = r.ready + Elapsed(r, i)
  /\ p.at + HopCycles(p.src, p.dst, p.flits) = r.ready + Elapsed(r, i + 1)
  /\ r.ready \in Nat /\ \A j \in 0 .. Dims : Elapsed(r, j) \in Nat
  /\ \A j, k \in 0 .. Dims : j <= k => Elapsed(r, j) <= Elapsed(r, k)

\* A packet of DimRotation leaves when the hops in front of it are over, and is over before the next leaves.
LEMMA PacketFacts ==
  ASSUME AllToAllAssumption, TimesAssumption, NEW K, NEW q \in Seq(RowsOf(K)), NEW n \in 1..Len(q), NEW i \in Dim,
         NEW p, p = PacketOf(q, n, i)
  PROVE  InTime(p, q[n], n, i)
<1>1. PICK r : r = q[n]
  OBVIOUS
<1>2. q[n].ready \in Nat /\ q[n].src \in Nat /\ q[n].dst \in Nat /\ q[n].flits \in Nat
  BY RowFacts
<1>3. r.ready \in Nat /\ r.src \in Nat /\ r.dst \in Nat /\ r.flits \in Nat
  BY <1>1, <1>2, Zenon
<1>4. /\ \A j \in 0 .. Dims : Elapsed(r, j) \in Nat
      /\ \A j \in 0 .. Dims - 1 : Elapsed(r, j + 1) = Elapsed(r, j) + HopOf(r, j) /\ HopOf(r, j) \in Nat
      /\ \A j, k \in 0 .. Dims : j <= k => Elapsed(r, j) <= Elapsed(r, k)
  BY <1>3, ElapsedFacts
<1>5. PICK x, s, t, f : x = r.ready + Elapsed(r, i) /\ s = PathOf(r)[i] /\ t = PathOf(r)[i + 1] /\ f = r.flits
  OBVIOUS
<1>6. p = [at |-> x, src |-> s, dst |-> t, flits |-> f, of |-> {n}, hop |-> i]
  BY <1>1, <1>5 DEF PacketOf
<1>7. p.of = {n} /\ p.hop = i /\ p.at = x /\ p.src = s /\ p.dst = t /\ p.flits = f
  BY <1>6
<1>8. HopCycles(s, t, f) = HopOf(r, i)
  BY <1>5 DEF HopOf
<1>9. i \in 0 .. Dims - 1 /\ i \in 0 .. Dims
  <2>1. Dims \in Nat
    BY Numbers
  <2>2. QED
    BY <2>1 DEF Dim
<1>10. PICK a \in Nat, b \in Nat, c \in Nat : a = r.ready /\ b = Elapsed(r, i) /\ c = HopOf(r, i)
  BY <1>3, <1>4, <1>9
<1>11. Elapsed(r, i + 1) = b + c
  BY <1>4, <1>9, <1>10
<1>12. x + HopCycles(s, t, f) = r.ready + Elapsed(r, i + 1)
  <2>1. (a + b) + c = a + (b + c)
    OBVIOUS
  <2>2. QED
    BY <1>5, <1>8, <1>10, <1>11, <2>1, Zenon
<1>13. QED
  BY <1>1, <1>3, <1>4, <1>5, <1>7, <1>12, Zenon DEF InTime

\* The invariant says what the trace promises.
LEMMA CausalFrom ==
  ASSUME AllToAllAssumption, TimesAssumption, TimesInv
  PROVE  Causal
<1>1. SUFFICES ASSUME stage \in {"run", "done"} PROVE Causal
  BY DEF Causal
<1>2. Setting /\ TraceInv /\ LayerInv /\ BenchInv
  BY DEF TimesInv
<1>3. PICK K : rows \in Seq(RowsOf(K))
  BY <1>2 DEF TraceInv
<1>4. DOMAIN rows = 1..Len(rows) /\ Len(rows) \in Nat
  BY <1>3
<1>5. ASSUME scheduler = "dimrotation", kind # "pairs", NEW n \in 1..Len(rows), NEW p \in HopsOf(n)
      PROVE  \E i \in Dim : p = PacketOf(rows, n, i)
  <2>1. p \in bench /\ n \in p.of
    BY <1>5 DEF HopsOf
  <2>2. PICK m \in 1..Len(rows), i \in Dim : p = PacketOf(rows, m, i)
    BY <1>2, <1>5, <2>1 DEF BenchInv, Rotated
  <2>3. p.of = {m}
    <3>1. InTime(p, rows[m], m, i)
      BY <1>3, <2>2, PacketFacts
    <3>2. QED
      BY <3>1, Zenon DEF InTime
  <2>4. m = n
    BY <2>1, <2>3
  <2>5. QED
    BY <2>2, <2>4
<1>6. ASSUME scheduler = "dimrotation", NEW n \in 1..Len(rows), NEW p \in HopsOf(n), NEW q \in HopsOf(n), p.hop < q.hop
      PROVE  q.at >= p.at + HopCycles(p.src, p.dst, p.flits)
  <2>1. CASE kind = "pairs"
    <3>1. p.hop = 0 /\ q.hop = 0
      BY <1>2, <1>6, <2>1 DEF BenchInv, HopsOf
    <3>2. QED
      BY <1>6, <3>1
  <2>2. CASE kind # "pairs"
    <3>1. PICK i \in Dim : p = PacketOf(rows, n, i)
      BY <1>5, <1>6, <2>2
    <3>2. PICK j \in Dim : q = PacketOf(rows, n, j)
      BY <1>5, <1>6, <2>2
    <3>3. /\ p.hop = i /\ p.at + HopCycles(p.src, p.dst, p.flits) = rows[n].ready + Elapsed(rows[n], i + 1)
          /\ rows[n].ready \in Nat /\ \A k \in 0 .. Dims : Elapsed(rows[n], k) \in Nat
          /\ \A k, l \in 0 .. Dims : k <= l => Elapsed(rows[n], k) <= Elapsed(rows[n], l)
      <4>1. InTime(p, rows[n], n, i)
        BY <1>3, <3>1, PacketFacts
      <4>2. QED
        BY <4>1, Zenon DEF InTime
    <3>4. q.hop = j /\ q.at = rows[n].ready + Elapsed(rows[n], j)
      <4>1. InTime(q, rows[n], n, j)
        BY <1>3, <3>2, PacketFacts
      <4>2. QED
        BY <4>1, Zenon DEF InTime
    <3>5. i + 1 \in 0 .. Dims /\ j \in 0 .. Dims /\ i + 1 <= j
      <4>1. i < j
        BY <1>6, <3>3, <3>4, Zenon
      <4>2. QED
        BY <4>1, DimFacts, Zenon
    <3>6. PICK a \in Nat, x \in Nat, y \in Nat : a = rows[n].ready /\ x = Elapsed(rows[n], i + 1) /\ y = Elapsed(rows[n], j) /\ x <= y
      <4>1. Elapsed(rows[n], i + 1) \in Nat /\ Elapsed(rows[n], j) \in Nat /\ Elapsed(rows[n], i + 1) <= Elapsed(rows[n], j)
        BY <3>3, <3>5, Zenon
      <4>2. QED
        BY <3>3, <4>1, Zenon
    <3>7. a + y >= a + x
      <4>1. x <= y
        BY <3>6, Zenon
      <4>2. QED
        BY <4>1
    <3>8. QED
      BY <3>3, <3>4, <3>6, <3>7, Zenon
  <2>3. QED
    BY <2>1, <2>2
<1>7. ASSUME kind = "layer" PROVE Layered(rows, clock, scheduler)
  BY <1>2, <1>7 DEF LayerInv
<1>8. ASSUME kind = "layer", scheduler = "dimrotation", NEW m \in 1..Len(rows), NEW n \in 1..Len(rows), n = m - 1,
             rows[m].phase = "return", NEW p \in HopsOf(n)
      PROVE  rows[m].ready - rows[m].cycles >= p.at + HopCycles(p.src, p.dst, p.flits)
  <2>1. PICK i \in Dim : p = PacketOf(rows, n, i)
    BY <1>5, <1>8
  <2>2. /\ p.at + HopCycles(p.src, p.dst, p.flits) = rows[n].ready + Elapsed(rows[n], i + 1)
        /\ rows[n].ready \in Nat /\ \A k \in 0 .. Dims : Elapsed(rows[n], k) \in Nat
        /\ \A k, l \in 0 .. Dims : k <= l => Elapsed(rows[n], k) <= Elapsed(rows[n], l)
    <3>1. InTime(p, rows[n], n, i)
      BY <1>3, <2>1, PacketFacts
    <3>2. QED
      BY <3>1, Zenon DEF InTime
  <2>3. i + 1 \in 0 .. Dims /\ Dims \in 0 .. Dims /\ i + 1 <= Dims
    BY DimFacts, Zenon
  <2>4. PICK a \in Nat, x \in Nat, y \in Nat : a = rows[n].ready /\ x = Elapsed(rows[n], i + 1) /\ y = Elapsed(rows[n], Dims) /\ x <= y
    BY <2>2, <2>3, Zenon
  <2>5. rows[m].ready - rows[m].cycles >= rows[n].ready + TransferOf(scheduler, rows[n])
    BY <1>7, <1>8 DEF Layered
  <2>6. rows[m].ready \in Nat /\ rows[m].cycles \in Nat
    BY <1>3, <1>8, RowFacts
  <2>7. PICK z \in Int : z = rows[m].ready - rows[m].cycles
    <3>1. PICK b \in Nat, c \in Nat : b = rows[m].ready /\ c = rows[m].cycles
      BY <2>6, Zenon
    <3>2. PICK d \in Int : d = b - c
      OBVIOUS
    <3>3. QED
      BY <3>1, <3>2, Zenon
  <2>8. TransferOf(scheduler, rows[n]) = y
    BY <1>8, <2>4 DEF TransferOf
  <2>9. z >= a + y
    BY <2>4, <2>5, <2>7, <2>8, Zenon
  <2>10. z >= a + x
    <3>1. x <= y
      BY <2>4, Zenon
    <3>2. QED
      BY <2>9, <3>1
  <2>11. QED
    BY <2>2, <2>4, <2>7, <2>10, Zenon
<1>9. ASSUME kind = "layer", NEW n \in 1..Len(rows), NEW m \in 1..Len(rows), n < m,
              rows[n].phase = "return", rows[m].phase = "return", rows[n].src = rows[m].src
       PROVE  rows[m].ready - rows[m].cycles >= rows[n].ready
  <2>1. n \in 1..(m - 1)
    BY <1>9
  <2>2. QED
    BY <1>7, <1>9, <2>1 DEF Layered
<1>10. QED
  BY <1>4, <1>6, <1>8, <1>9 DEF Causal

\* The chain of times through drivers, build_layer_rows and scheduler, for every torus, every number of experts,
\* chunks and tokens and all costs of the kernels: under DimRotation a chunk takes a hop when the hop before it
\* should be over, an expert works on a chunk that has arrived and on one chunk at a time, and its output leaves
\* when it is done.
THEOREM TimesFollow == Spec => []Causal
<1>1. Init => RouteInv /\ TimesInv
  BY AllToAllAssumption, RouteInvInit, TimesInit
<1>2. RouteInv /\ TimesInv /\ [Next]_vars => RouteInv' /\ TimesInv'
  <2>1. SUFFICES ASSUME RouteInv, TimesInv, [Next]_vars PROVE RouteInv' /\ TimesInv'
    OBVIOUS
  <2>2. RouteInv'
    BY <2>1, AllToAllAssumption, RouteStep
  <2>3. TimesAssumption
    BY TimesParameters
  <2>4. CASE \/ Check \/ RouteUnderCapacity \/ RoutePerSource \/ RouteTile \/ Routed \/ LayerDone \/ RunPopNet
             \/ UNCHANGED vars
    BY <2>1, <2>2, <2>4, QuietSteps
  <2>5. CASE EmitPair
    BY <2>1, <2>2, <2>3, <2>5, AllToAllAssumption, EmitStep
  <2>6. CASE Emitted
    BY <2>1, <2>2, <2>6, EmittedStep
  <2>7. CASE LayerRow
    BY <2>1, <2>2, <2>3, <2>7, AllToAllAssumption, LayerRowStep
  <2>8. CASE BuildBench
    BY <2>1, <2>2, <2>8, BenchStep
  <2>9. QED
    BY <2>1, <2>4, <2>5, <2>6, <2>7, <2>8 DEF Next
<1>3. RouteInv /\ TimesInv => Causal
  BY AllToAllAssumption, TimesParameters, CausalFrom
<1>4. QED
  BY <1>1, <1>2, <1>3, PTL DEF Spec
===============================================================================
