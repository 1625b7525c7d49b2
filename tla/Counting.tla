------------------------------ MODULE Counting ------------------------------
(***************************************************************************)
(* Facts about counting the elements of a finite set that a function maps  *)
(* into a set of values, for the proofs about tallies of attempts, about   *)
(* sums, and about what a fold over a sequence comes to.                   *)
(***************************************************************************)
EXTENDS Integers, FiniteSets, FiniteSetsExt, Functions, FiniteSetTheorems, WellFoundedInduction,
        TLAPS

Chosen(S, f, O) == {x \in S : f[x] \in O}

Count(S, f, O) == Cardinality(Chosen(S, f, O))

(* A count is a natural number. *)
LEMMA CountType ==
  ASSUME NEW S, IsFiniteSet(S), NEW f, NEW O
  PROVE  IsFiniteSet(Chosen(S, f, O)) /\ Count(S, f, O) \in Nat
<1>1. Chosen(S, f, O) \in SUBSET S
  BY DEF Chosen
<1>2. IsFiniteSet(Chosen(S, f, O))
  BY <1>1, FS_Subset
<1>3. QED
  BY <1>2, FS_CardinalityType DEF Count

(* A count is zero exactly if no element is mapped into the values. *)
LEMMA CountZero ==
  ASSUME NEW S, IsFiniteSet(S), NEW f, NEW O
  PROVE  Count(S, f, O) = 0 <=> \A x \in S : f[x] \notin O
<1>1. Count(S, f, O) = 0 <=> Chosen(S, f, O) = {}
  BY CountType, FS_EmptySet DEF Count
<1>2. Chosen(S, f, O) = {} <=> \A x \in S : f[x] \notin O
  BY DEF Chosen
<1>3. QED
  BY <1>1, <1>2

(* Functions that agree on membership in the values count the same. *)
LEMMA CountSame ==
  ASSUME NEW S, NEW f, NEW g, NEW O, NEW Q, \A x \in S : f[x] \in O <=> g[x] \in Q
  PROVE  Count(S, f, O) = Count(S, g, Q)
<1>1. Chosen(S, f, O) = Chosen(S, g, Q)
  BY DEF Chosen
<1>2. QED
  BY <1>1 DEF Count

(***************************************************************************)
(* One element mapped into the values, or out of them, changes the count   *)
(* by one.                                                                 *)
(***************************************************************************)
LEMMA CountIncrement ==
  ASSUME NEW S, IsFiniteSet(S), NEW f, NEW g, NEW O, NEW Q, NEW a \in S,
         f[a] \notin O, g[a] \in Q, \A x \in S : x # a => (f[x] \in O <=> g[x] \in Q)
  PROVE  Count(S, g, Q) = Count(S, f, O) + 1
<1>1. Chosen(S, g, Q) = Chosen(S, f, O) \cup {a} /\ a \notin Chosen(S, f, O)
  BY DEF Chosen
<1>2. QED
  BY <1>1, CountType, FS_AddElement DEF Count

(* One element fewer satisfies the condition. *)
LEMMA CountDecrement ==
  ASSUME NEW S, IsFiniteSet(S), NEW f, NEW g, NEW O, NEW Q, NEW a \in S,
         f[a] \in O, g[a] \notin Q, \A x \in S : x # a => (f[x] \in O <=> g[x] \in Q)
  PROVE  Count(S, g, Q) = Count(S, f, O) - 1
<1>1. Chosen(S, g, Q) = Chosen(S, f, O) \ {a} /\ a \in Chosen(S, f, O)
  BY DEF Chosen
<1>2. QED
  BY <1>1, CountType, FS_RemoveElement DEF Count

(* The union of two disjoint finite sets has as many elements as both. *)
LEMMA DisjointUnion ==
  ASSUME NEW S, IsFiniteSet(S), NEW T, IsFiniteSet(T), S \cap T = {}
  PROVE  /\ IsFiniteSet(S \cup T)
         /\ Cardinality(S \cup T) = Cardinality(S) + Cardinality(T)
<1> DEFINE I == S \cap T
<1>1. Cardinality(I) = 0
  BY FS_EmptySet
<1>2. /\ IsFiniteSet(S \cup T)
      /\ Cardinality(S \cup T) = Cardinality(S) + Cardinality(T) - Cardinality(I)
  BY FS_Union
<1>3. Cardinality(S) \in Nat /\ Cardinality(T) \in Nat
  BY FS_CardinalityType
<1> HIDE DEF I
<1>4. QED
  BY <1>1, <1>2, <1>3

(* Counts over disjoint sets of values add up. *)
LEMMA CountSplit ==
  ASSUME NEW S, IsFiniteSet(S), NEW f, NEW O, NEW Q, O \cap Q = {}
  PROVE  Count(S, f, O \cup Q) = Count(S, f, O) + Count(S, f, Q)
<1>1. /\ Chosen(S, f, O \cup Q) = Chosen(S, f, O) \cup Chosen(S, f, Q)
      /\ Chosen(S, f, O) \cap Chosen(S, f, Q) = {}
  BY DEF Chosen
<1>2. IsFiniteSet(Chosen(S, f, O)) /\ IsFiniteSet(Chosen(S, f, Q))
  BY CountType
<1>3. QED
  BY <1>1, <1>2, DisjointUnion DEF Count

(* A count of values that every element has is the size of the set. *)
LEMMA CountAll ==
  ASSUME NEW S, NEW f, NEW O, \A x \in S : f[x] \in O
  PROVE  Count(S, f, O) = Cardinality(S)
<1>1. Chosen(S, f, O) = S
  BY DEF Chosen
<1>2. QED
  BY <1>1 DEF Count

(***************************************************************************)
(* Pairs of an index and an element of its set, when every set has at most *)
(* n elements, are at most n for each index.                               *)
(***************************************************************************)
LEMMA PairsBounded ==
  ASSUME NEW S, IsFiniteSet(S), NEW f, NEW n \in Nat,
         \A x \in S : IsFiniteSet(f[x]) /\ Cardinality(f[x]) <= n
  PROVE  /\ Cardinality(UNION {{<<x, y>> : y \in f[x]} : x \in S}) \in Nat
         /\ Cardinality(UNION {{<<x, y>> : y \in f[x]} : x \in S}) <= Cardinality(S) * n
<1> DEFINE U == UNION {{<<x, y>> : y \in f[x]} : x \in S}
           number == [x \in S |-> CHOOSE h : h \in Injection(f[x], 1 .. n)]
           T == S \X (1 .. n)
           g == [p \in U |-> <<p[1], number[p[1]][p[2]]>>]
<1>1. \A p \in U : p = <<p[1], p[2]>> /\ p[1] \in S /\ p[2] \in f[p[1]]
  OBVIOUS
<1>2. ASSUME NEW x \in S
      PROVE  number[x] \in Injection(f[x], 1 .. n)
  <2>1. Cardinality(f[x]) \in Nat /\ ExistsBijection(1 .. Cardinality(f[x]), f[x])
    BY FS_CardinalityType
  <2>2. PICK b \in Bijection(1 .. Cardinality(f[x]), f[x]) : TRUE
    BY <2>1 DEF ExistsBijection
  <2>3. /\ b \in [1 .. Cardinality(f[x]) -> f[x]]
        /\ \A y \in f[x] : \E i \in 1 .. Cardinality(f[x]) : b[i] = y
    BY <2>2 DEF Bijection, Surjection, Injection
  <2> DEFINE h == [y \in f[x] |-> CHOOSE i \in 1 .. Cardinality(f[x]) : b[i] = y]
  <2>4. \A y \in f[x] : h[y] \in 1 .. Cardinality(f[x]) /\ b[h[y]] = y
    BY <2>3
  <2>5. 1 .. Cardinality(f[x]) \subseteq 1 .. n
    BY <2>1
  <2>6. h \in [f[x] -> 1 .. n]
    BY <2>4, <2>5
  <2> HIDE DEF h
  <2>7. h \in Injection(f[x], 1 .. n)
    BY <2>4, <2>6 DEF Injection, IsInjective
  <2>8. QED
    BY <2>7
<1>3. g \in Injection(U, T)
  <2>1. \A p \in U : g[p] = <<p[1], number[p[1]][p[2]]>>
    OBVIOUS
  <2> HIDE DEF number
  <2>2. \A p \in U : number[p[1]][p[2]] \in 1 .. n
    BY <1>1, <1>2 DEF Injection, IsInjective
  <2>3. g \in [U -> T]
    BY <1>1, <2>2
  <2> HIDE DEF g, U
  <2>4. ASSUME NEW p \in U, NEW q \in U, g[p] = g[q]
        PROVE  p = q
    <3>1. p[1] = q[1] /\ number[p[1]][p[2]] = number[p[1]][q[2]]
      BY <2>1, <2>4
    <3>2. p[2] = q[2]
      <4> DEFINE x == p[1]
      <4>1. x \in S /\ p[2] \in f[x] /\ q[2] \in f[x] /\ number[x][p[2]] = number[x][q[2]]
        BY <1>1, <3>1
      <4>2. number[x] \in Injection(f[x], 1 .. n)
        BY <1>2, <4>1
      <4>3. QED
        BY <4>1, <4>2 DEF Injection, IsInjective
    <3>3. QED
      BY <1>1, <3>1, <3>2
  <2>5. QED
    BY <2>3, <2>4 DEF Injection, IsInjective
<1>4. IsFiniteSet(T) /\ Cardinality(T) = Cardinality(S) * n
  <2>1. IsFiniteSet(1 .. n) /\ Cardinality(1 .. n) = n
    BY FS_Interval
  <2>2. QED
    BY <2>1, FS_Product
<1> HIDE DEF U, T, g
<1>5. IsFiniteSet(U) /\ Cardinality(U) <= Cardinality(T) /\ Cardinality(U) \in Nat
  BY <1>3, <1>4, FS_Injection, FS_CardinalityType
<1>6. QED
  BY <1>4, <1>5 DEF U

(* There are as many numbered copies of a thing as there are numbers. *)
LEMMA NumberedPairs ==
  ASSUME NEW x, NEW n \in Nat
  PROVE  IsFiniteSet({x} \X (1 .. n)) /\ Cardinality({x} \X (1 .. n)) = n
<1>1. 1 \in Int /\ n \in Int /\ (IF 1 > n THEN 0 ELSE n - 1 + 1) = n
  OBVIOUS
<1>2. IsFiniteSet(1 .. n) /\ Cardinality(1 .. n) = n
  <2>1. IsFiniteSet(1 .. n) /\ Cardinality(1 .. n) = IF 1 > n THEN 0 ELSE n - 1 + 1
    BY <1>1, FS_Interval
  <2>2. QED
    BY <1>1, <2>1
<1>3. IsFiniteSet({x}) /\ Cardinality({x}) = 1
  BY FS_Singleton
<1> DEFINE S == {x}  T == 1 .. n
<1>4. IsFiniteSet(S) /\ IsFiniteSet(T) /\ Cardinality(S) * Cardinality(T) = n
  BY <1>2, <1>3
<1> HIDE DEF S, T
<1>5. IsFiniteSet(S \X T) /\ Cardinality(S \X T) = Cardinality(S) * Cardinality(T)
  BY <1>4, FS_Product
<1>6. QED
  BY <1>4, <1>5 DEF S, T
-----------------------------------------------------------------------------
(* Induction, over a set of numbers. *)
LEMMA NatSet ==
  ASSUME NEW T, 0 \in T, \A k \in Nat : k \in T => k + 1 \in T
  PROVE  Nat \subseteq T
<1> DEFINE bad == Nat \ T
<1>1. SUFFICES ASSUME bad # {} PROVE FALSE
  OBVIOUS
<1> HIDE DEF bad
<1>2. PICK m \in bad : \A j \in bad : ~ (<<j, m>> \in OpToRel(<, Nat))
  BY <1>1, NatLessThanWellFounded, WFMin DEF bad
<1>3. m \in Nat /\ m # 0 /\ m \notin T
  BY <1>2 DEF bad
<1>4. m - 1 \in Nat /\ (m - 1) + 1 = m
  BY <1>3
<1>5. m - 1 \in bad
  BY <1>3, <1>4 DEF bad
<1>6. <<m - 1, m>> \in OpToRel(<, Nat)
  BY <1>3, <1>4 DEF OpToRel
<1>7. QED
  BY <1>2, <1>5, <1>6

(* Induction, over the subsets of a finite set. *)
LEMMA SubsetInduction ==
  ASSUME NEW S, IsFiniteSet(S), NEW Q, {} \in Q,
         \A R \in SUBSET S : R # {} /\ (\A x \in R : R \ {x} \in Q) => R \in Q
  PROVE  SUBSET S \subseteq Q
<1> DEFINE Good(k) == \A R \in SUBSET S : Cardinality(R) = k => R \in Q
           T == {k \in Nat : Good(k)}
<1>1. \A R \in SUBSET S : /\ IsFiniteSet(R) /\ Cardinality(R) \in Nat
                          /\ Cardinality(R) = 0 <=> R = {}
                          /\ \A x \in R : Cardinality(R \ {x}) = Cardinality(R) - 1
  BY FS_Subset, FS_CardinalityType, FS_EmptySet, FS_RemoveElement
<1>2. Good(0)
  BY <1>1
<1>3. ASSUME NEW k \in Nat, Good(k)
      PROVE  Good(k + 1)
  <2> SUFFICES ASSUME NEW R \in SUBSET S, Cardinality(R) = k + 1
               PROVE  R \in Q
    OBVIOUS
  <2>1. R # {}
    BY <1>1
  <2>2. \A x \in R : R \ {x} \in SUBSET S /\ Cardinality(R \ {x}) = k
    BY <1>1
  <2>3. \A x \in R : R \ {x} \in Q
    BY <1>3, <2>2
  <2>4. QED
    BY <2>1, <2>3
<1> HIDE DEF Good
<1>4. 0 \in T /\ \A k \in Nat : k \in T => k + 1 \in T
  BY <1>2, <1>3
<1> HIDE DEF T
<1>5. \A k \in Nat : Good(k)
  BY <1>4, NatSet DEF T
<1>6. QED
  BY <1>1, <1>5 DEF Good
-----------------------------------------------------------------------------
(***************************************************************************)
(* The recursive function the sum of a function over a set is defined by.  *)
(***************************************************************************)
Some(R) == CHOOSE x \in R : TRUE

Sums(iter, f, S) ==
  \A R \in SUBSET S : iter[R] = IF R = {} THEN 0 ELSE f[Some(R)] + iter[R \ {Some(R)}]

(* It exists: it is built by induction on the number of elements. *)
LEMMA SumsExist ==
  ASSUME NEW S, IsFiniteSet(S), NEW f, \A x \in S : f[x] \in Nat
  PROVE  \E iter \in [SUBSET S -> Nat] : Sums(iter, f, S)
<1> DEFINE SumsTo(iter, k) ==
             \A R \in SUBSET S : Cardinality(R) <= k =>
               iter[R] = IF R = {} THEN 0 ELSE f[Some(R)] + iter[R \ {Some(R)}]
           Exists(k) == \E iter \in [SUBSET S -> Nat] : SumsTo(iter, k)
           T == {k \in Nat : Exists(k)}
<1>1. \A R \in SUBSET S : /\ Cardinality(R) \in Nat /\ Cardinality(R) <= Cardinality(S)
                          /\ Cardinality(R) = 0 <=> R = {}
                          /\ \A x \in R : Cardinality(R \ {x}) = Cardinality(R) - 1
  BY FS_Subset, FS_CardinalityType, FS_EmptySet, FS_RemoveElement
<1>2. \A R \in SUBSET S : R # {} => Some(R) \in R /\ R \ {Some(R)} \in SUBSET S
  BY DEF Some
<1>3. Exists(0)
  <2> DEFINE iter == [R \in SUBSET S |-> 0]
  <2>1. iter \in [SUBSET S -> Nat]
    OBVIOUS
  <2>2. SumsTo(iter, 0)
    BY <1>1
  <2>3. QED
    BY <2>1, <2>2
<1>4. ASSUME NEW k \in Nat, Exists(k)
      PROVE  Exists(k + 1)
  <2>1. PICK g \in [SUBSET S -> Nat] : SumsTo(g, k)
    BY <1>4
  <2> DEFINE h == [R \in SUBSET S |-> IF Cardinality(R) <= k THEN g[R]
                                      ELSE f[Some(R)] + g[R \ {Some(R)}]]
  <2>2. h \in [SUBSET S -> Nat]
    <3>1. ASSUME NEW R \in SUBSET S, ~(Cardinality(R) <= k)
          PROVE  f[Some(R)] + g[R \ {Some(R)}] \in Nat
      <4>1. R # {}
        BY <1>1, <3>1
      <4>2. f[Some(R)] \in Nat /\ g[R \ {Some(R)}] \in Nat
        BY <1>2, <4>1
      <4>3. QED
        BY <4>2
    <3>2. QED
      BY <3>1
  <2>3. ASSUME NEW R \in SUBSET S, Cardinality(R) <= k + 1
        PROVE  h[R] = IF R = {} THEN 0 ELSE f[Some(R)] + h[R \ {Some(R)}]
    <3>1. CASE R = {}
      <4>1. Cardinality(R) <= k
        BY <1>1, <3>1
      <4>2. QED
        BY <2>1, <3>1, <4>1
    <3>2. CASE R # {}
      <4>1. R \ {Some(R)} \in SUBSET S /\ Cardinality(R \ {Some(R)}) <= k
        BY <1>1, <1>2, <2>3, <3>2
      <4>2. h[R \ {Some(R)}] = g[R \ {Some(R)}]
        BY <4>1
      <4>3. h[R] = f[Some(R)] + g[R \ {Some(R)}]
        <5>1. CASE Cardinality(R) <= k
          BY <2>1, <3>2, <5>1
        <5>2. CASE ~(Cardinality(R) <= k)
          BY <5>2
        <5>3. QED
          BY <5>1, <5>2
      <4> HIDE DEF h
      <4>4. QED
        BY <3>2, <4>2, <4>3
    <3>3. QED
      BY <3>1, <3>2
  <2> HIDE DEF h
  <2>4. SumsTo(h, k + 1)
    BY <2>3
  <2>5. QED
    BY <2>2, <2>4
<1> HIDE DEF Exists
<1>5. 0 \in T /\ \A k \in Nat : k \in T => k + 1 \in T
  BY <1>3, <1>4
<1> HIDE DEF T
<1>6. Cardinality(S) \in T
  BY <1>5, NatSet, FS_CardinalityType
<1>7. Exists(Cardinality(S))
  BY <1>6 DEF T
<1>8. QED
  BY <1>1, <1>7 DEF Exists, Sums

(* It is the only one, so that the sum over any subset is its value there. *)
LEMMA SumsAgree ==
  ASSUME NEW S, IsFiniteSet(S), NEW f, NEW iter, Sums(iter, f, S),
         NEW T, IsFiniteSet(T), NEW g, NEW jter, Sums(jter, g, T),
         NEW R \in SUBSET S, R \in SUBSET T, \A x \in R : f[x] = g[x]
  PROVE  iter[R] = jter[R]
<1> DEFINE Q == {P \in SUBSET R : iter[P] = jter[P]}
<1>1. {} \in Q
  BY DEF Sums
<1>2. ASSUME NEW P \in SUBSET R, P # {}, \A x \in P : P \ {x} \in Q
      PROVE  P \in Q
  <2>1. Some(P) \in P
    BY <1>2 DEF Some
  <2>2. iter[P \ {Some(P)}] = jter[P \ {Some(P)}] /\ f[Some(P)] = g[Some(P)]
    BY <1>2, <2>1
  <2>3. P \in SUBSET S /\ P \in SUBSET T
    OBVIOUS
  <2>4. iter[P] = f[Some(P)] + iter[P \ {Some(P)}]
    BY <1>2, <2>3 DEF Sums
  <2>5. jter[P] = g[Some(P)] + jter[P \ {Some(P)}]
    BY <1>2, <2>3 DEF Sums
  <2>6. QED
    BY <2>2, <2>4, <2>5
<1> HIDE DEF Q
<1>3. IsFiniteSet(R)
  BY FS_Subset
<1>4. SUBSET R \subseteq Q
  BY <1>1, <1>2, <1>3, SubsetInduction
<1>5. QED
  BY <1>4 DEF Q

(* The sum of a function over a set is given by any such function. *)
LEMMA SumIs ==
  ASSUME NEW S, IsFiniteSet(S), NEW f, NEW iter, Sums(iter, f, S),
         NEW R \in SUBSET S, NEW g, \A x \in R : g[x] = f[x] /\ g[x] \in Nat
  PROVE  SumFunctionOnSet(g, R) = iter[R]
<1> DEFINE Rec(sum) == sum = [s \in SUBSET R |->
                         IF s = {} THEN 0
                         ELSE g[CHOOSE x \in s : TRUE] + sum[s \ {CHOOSE x \in s : TRUE}]]
           jter == CHOOSE sum : Rec(sum)
<1>1. IsFiniteSet(R)
  BY FS_Subset
<1>2. PICK it \in [SUBSET R -> Nat] : Sums(it, g, R)
  BY <1>1, SumsExist
<1>3. Rec(it)
  BY <1>2 DEF Sums, Some
<1>4. Rec(jter)
  <2>1. \E sum : Rec(sum)
    BY <1>3
  <2>2. QED
    BY <2>1, Zenon
<1>5. SumFunctionOnSet(g, R) = jter[R]
  BY DEF SumFunctionOnSet, FoldFunctionOnSet, MapThenFoldSet
<1>6. Sums(jter, g, R)
  <2> HIDE DEF jter
  <2>1. QED
    BY <1>4 DEF Sums, Some
<1> HIDE DEF jter
<1>7. jter[R] = iter[R]
  BY <1>1, <1>6, SumsAgree
<1>8. QED
  BY <1>5, <1>7

(***************************************************************************)
(* All that is needed of sums: one over a subset of a finite set is zero   *)
(* if the subset is empty, and that without an element plus the element's. *)
(***************************************************************************)
LEMMA SumLaws ==
  ASSUME NEW S, IsFiniteSet(S), NEW f, \A x \in S : f[x] \in Nat
  PROVE  /\ SumFunctionOnSet(f, S) \in Nat
         /\ S = {} => SumFunctionOnSet(f, S) = 0
         /\ \A a \in S : SumFunctionOnSet(f, S) = f[a] + SumFunctionOnSet(f, S \ {a})
<1>1. PICK iter \in [SUBSET S -> Nat] : Sums(iter, f, S)
  BY SumsExist
<1>2. SumFunctionOnSet(f, S) = iter[S]
  BY <1>1, SumIs
<1>3. \A a \in S : SumFunctionOnSet(f, S \ {a}) = iter[S \ {a}]
  BY <1>1, SumIs
<1> DEFINE Q == {R \in SUBSET S : \A a \in R : iter[R] = f[a] + iter[R \ {a}]}
<1>4. {} \in Q
  OBVIOUS
<1>5. ASSUME NEW R \in SUBSET S, R # {}, \A x \in R : R \ {x} \in Q
      PROVE  R \in Q
  <2> SUFFICES ASSUME NEW a \in R PROVE iter[R] = f[a] + iter[R \ {a}]
    OBVIOUS
  <2> DEFINE x == Some(R)
  <2>1. x \in R /\ iter[R] = f[x] + iter[R \ {x}]
    BY <1>1, <1>5 DEF Sums, Some
  <2> HIDE DEF x
  <2>2. CASE x = a
    BY <2>1, <2>2
  <2>3. CASE x # a
    <3>1. a \in R \ {x} /\ x \in R \ {a} /\ (R \ {x}) \ {a} = (R \ {a}) \ {x}
      BY <2>1, <2>3
    <3>2. iter[R \ {x}] = f[a] + iter[(R \ {x}) \ {a}]
      BY <1>5, <2>1, <3>1
    <3>3. iter[R \ {a}] = f[x] + iter[(R \ {a}) \ {x}]
      BY <1>5, <3>1
    <3>4. f[a] \in Nat /\ f[x] \in Nat /\ iter[(R \ {x}) \ {a}] \in Nat
      BY <2>1, <1>1
    <3>5. iter[R] = f[x] + (f[a] + iter[(R \ {x}) \ {a}])
      BY <2>1, <3>2
    <3>6. iter[R \ {a}] = f[x] + iter[(R \ {x}) \ {a}]
      BY <3>1, <3>3
    <3>7. QED
      BY <3>4, <3>5, <3>6
  <2>4. QED
    BY <2>2, <2>3
<1> HIDE DEF Q
<1>6. SUBSET S \subseteq Q
  BY <1>4, <1>5, SubsetInduction
<1>7. \A a \in S : iter[S] = f[a] + iter[S \ {a}]
  BY <1>6 DEF Q
<1>8. S = {} => iter[S] = 0
  BY <1>1 DEF Sums
<1>9. QED
  BY <1>1, <1>2, <1>3, <1>7, <1>8

(* Functions that agree on a set have the same sum over it. *)
LEMMA SumSame ==
  ASSUME NEW S, IsFiniteSet(S), NEW f, NEW g, \A x \in S : f[x] \in Nat /\ f[x] = g[x]
  PROVE  SumFunctionOnSet(f, S) = SumFunctionOnSet(g, S)
<1>1. PICK iter \in [SUBSET S -> Nat] : Sums(iter, f, S)
  BY SumsExist
<1>2. SumFunctionOnSet(f, S) = iter[S] /\ SumFunctionOnSet(g, S) = iter[S]
  BY <1>1, SumIs
<1>3. QED
  BY <1>2

(* A function that is nowhere greater has no greater sum. *)
LEMMA SumMonotone ==
  ASSUME NEW S, IsFiniteSet(S), NEW f, NEW g,
         \A x \in S : f[x] \in Nat /\ g[x] \in Nat /\ f[x] <= g[x]
  PROVE  SumFunctionOnSet(f, S) <= SumFunctionOnSet(g, S)
<1> DEFINE Q == {R \in SUBSET S : SumFunctionOnSet(f, R) <= SumFunctionOnSet(g, R)}
<1>1. ASSUME NEW R \in SUBSET S
      PROVE  /\ SumFunctionOnSet(f, R) \in Nat /\ SumFunctionOnSet(g, R) \in Nat
             /\ R = {} => SumFunctionOnSet(f, R) = 0 /\ SumFunctionOnSet(g, R) = 0
             /\ \A a \in R : /\ SumFunctionOnSet(f, R) = f[a] + SumFunctionOnSet(f, R \ {a})
                             /\ SumFunctionOnSet(g, R) = g[a] + SumFunctionOnSet(g, R \ {a})
  <2>1. IsFiniteSet(R)
    BY FS_Subset
  <2>2. QED
    BY <2>1, SumLaws
<1>2. {} \in Q
  BY <1>1
<1>3. ASSUME NEW R \in SUBSET S, R # {}, \A x \in R : R \ {x} \in Q
      PROVE  R \in Q
  <2>1. PICK a \in R : TRUE
    BY <1>3
  <2>2. R \ {a} \in SUBSET S /\ SumFunctionOnSet(f, R \ {a}) <= SumFunctionOnSet(g, R \ {a})
    BY <1>3
  <2>3. SumFunctionOnSet(f, R \ {a}) \in Nat /\ SumFunctionOnSet(g, R \ {a}) \in Nat
    BY <1>1, <2>2
  <2>4. QED
    BY <1>1, <2>2, <2>3
<1> HIDE DEF Q
<1>4. S \in Q
  BY <1>2, <1>3, SubsetInduction
<1>5. QED
  BY <1>4 DEF Q

(* A function within a multiple of another sums to within that multiple. *)
LEMMA SumScaled ==
  ASSUME NEW S, IsFiniteSet(S), NEW f, NEW g, NEW c \in Nat,
         \A x \in S : f[x] \in Nat /\ g[x] \in Nat /\ g[x] <= f[x] * c
  PROVE  SumFunctionOnSet(g, S) <= SumFunctionOnSet(f, S) * c
<1> DEFINE Q == {R \in SUBSET S : SumFunctionOnSet(g, R) <= SumFunctionOnSet(f, R) * c}
<1>1. ASSUME NEW R \in SUBSET S
      PROVE  /\ SumFunctionOnSet(f, R) \in Nat /\ SumFunctionOnSet(g, R) \in Nat
             /\ R = {} => SumFunctionOnSet(f, R) = 0 /\ SumFunctionOnSet(g, R) = 0
             /\ \A a \in R : /\ SumFunctionOnSet(f, R) = f[a] + SumFunctionOnSet(f, R \ {a})
                             /\ SumFunctionOnSet(g, R) = g[a] + SumFunctionOnSet(g, R \ {a})
  <2>1. IsFiniteSet(R) /\ \A x \in R : f[x] \in Nat /\ g[x] \in Nat
    BY FS_Subset
  <2>2. QED
    BY <2>1, SumLaws
<1>2. {} \in Q
  BY <1>1
<1>3. ASSUME NEW R \in SUBSET S, R # {}, \A x \in R : R \ {x} \in Q
      PROVE  R \in Q
  <2>1. PICK a \in R : TRUE
    BY <1>3
  <2> DEFINE F == SumFunctionOnSet(f, R \ {a})  G == SumFunctionOnSet(g, R \ {a})
             m == f[a]  n == g[a]
  <2>2. F \in Nat /\ G \in Nat /\ m \in Nat /\ n \in Nat /\ n <= m * c /\ G <= F * c
    BY <1>1, <1>3
  <2>3. SumFunctionOnSet(f, R) = m + F /\ SumFunctionOnSet(g, R) = n + G
    BY <1>1
  <2> HIDE DEF F, G, m, n
  <2>4. (m + F) * c = m * c + F * c /\ m * c \in Nat /\ F * c \in Nat
    BY <2>2
  <2>5. QED
    BY <2>2, <2>3, <2>4
<1>4. SUBSET S \subseteq Q
  <2> HIDE DEF Q
  <2>1. QED
    BY <1>2, <1>3, SubsetInduction
<1>5. QED
  BY <1>4

(* A function that is c everywhere sums to c for each element. *)
LEMMA SumConstant ==
  ASSUME NEW S, IsFiniteSet(S), NEW f, NEW c \in Nat, \A x \in S : f[x] = c
  PROVE  SumFunctionOnSet(f, S) = Cardinality(S) * c
<1> DEFINE Q == {R \in SUBSET S : SumFunctionOnSet(f, R) = Cardinality(R) * c}
<1>1. ASSUME NEW R \in SUBSET S
      PROVE  /\ SumFunctionOnSet(f, R) \in Nat /\ Cardinality(R) \in Nat
             /\ R = {} => SumFunctionOnSet(f, R) = 0 /\ Cardinality(R) = 0
             /\ \A a \in R : /\ SumFunctionOnSet(f, R) = c + SumFunctionOnSet(f, R \ {a})
                             /\ Cardinality(R \ {a}) = Cardinality(R) - 1
  <2>1. IsFiniteSet(R)
    BY FS_Subset
  <2>2. /\ SumFunctionOnSet(f, R) \in Nat
        /\ R = {} => SumFunctionOnSet(f, R) = 0
        /\ \A a \in R : SumFunctionOnSet(f, R) = f[a] + SumFunctionOnSet(f, R \ {a})
    BY <2>1, SumLaws
  <2>3. /\ Cardinality(R) \in Nat
        /\ R = {} => Cardinality(R) = 0
        /\ \A a \in R : Cardinality(R \ {a}) = Cardinality(R) - 1
    BY <2>1, FS_CardinalityType, FS_EmptySet, FS_RemoveElement
  <2>4. QED
    BY <2>2, <2>3
<1>2. {} \in Q
  BY <1>1
<1>3. ASSUME NEW R \in SUBSET S, R # {}, \A x \in R : R \ {x} \in Q
      PROVE  R \in Q
  <2>1. PICK a \in R : TRUE
    BY <1>3
  <2> DEFINE n == Cardinality(R)
  <2>2. SumFunctionOnSet(f, R \ {a}) = (n - 1) * c
    BY <1>1, <1>3
  <2>3. n \in Nat /\ SumFunctionOnSet(f, R) = c + (n - 1) * c
    BY <1>1, <2>2
  <2> HIDE DEF n
  <2>4. c + (n - 1) * c = n * c
    BY <2>3
  <2>5. QED
    BY <2>3, <2>4 DEF n
<1> HIDE DEF Q
<1>4. S \in Q
  BY <1>2, <1>3, SubsetInduction
<1>5. QED
  BY <1>4 DEF Q

(* The sum over two disjoint sets is that of the sums over each. *)
LEMMA SumUnion ==
  ASSUME NEW S, IsFiniteSet(S), NEW T, IsFiniteSet(T), S \cap T = {},
         NEW f, \A x \in S \cup T : f[x] \in Nat
  PROVE  SumFunctionOnSet(f, S \cup T) = SumFunctionOnSet(f, S) + SumFunctionOnSet(f, T)
<1> DEFINE Q == {R \in SUBSET T :
                   SumFunctionOnSet(f, S \cup R) = SumFunctionOnSet(f, S) + SumFunctionOnSet(f, R)}
<1>1. ASSUME NEW R, IsFiniteSet(R), R \in SUBSET (S \cup T)
      PROVE  /\ SumFunctionOnSet(f, R) \in Nat
             /\ R = {} => SumFunctionOnSet(f, R) = 0
             /\ \A a \in R : SumFunctionOnSet(f, R) = f[a] + SumFunctionOnSet(f, R \ {a})
  BY <1>1, SumLaws
<1>2. \A R \in SUBSET T : IsFiniteSet(R) /\ IsFiniteSet(S \cup R)
  BY FS_Subset, FS_Union
<1>3. {} \in Q
  <2>1. S \cup {} = S
    OBVIOUS
  <2>2. SumFunctionOnSet(f, {}) = 0 /\ SumFunctionOnSet(f, S) \in Nat
    BY <1>1, <1>2
  <2>3. QED
    BY <2>1, <2>2
<1>4. ASSUME NEW R \in SUBSET T, R # {}, \A x \in R : R \ {x} \in Q
      PROVE  R \in Q
  <2>1. PICK a \in R : TRUE
    BY <1>4
  <2>2. (S \cup R) \ {a} = S \cup (R \ {a}) /\ a \in S \cup R /\ f[a] \in Nat
    BY <2>1
  <2>3. SumFunctionOnSet(f, S \cup R) = f[a] + SumFunctionOnSet(f, S \cup (R \ {a}))
    BY <1>1, <1>2, <2>2
  <2>4. SumFunctionOnSet(f, R) = f[a] + SumFunctionOnSet(f, R \ {a})
    BY <1>1, <1>2, <2>1
  <2>5. SumFunctionOnSet(f, S \cup (R \ {a}))
          = SumFunctionOnSet(f, S) + SumFunctionOnSet(f, R \ {a})
    BY <1>4, <2>1
  <2>6. SumFunctionOnSet(f, S) \in Nat /\ SumFunctionOnSet(f, R \ {a}) \in Nat
    BY <1>1, <1>2
  <2>7. QED
    BY <2>2, <2>3, <2>4, <2>5, <2>6
<1> HIDE DEF Q
<1>5. T \in Q
  BY <1>3, <1>4, SubsetInduction
<1>6. QED
  BY <1>5 DEF Q

(***************************************************************************)
(* The sum over finitely many disjoint sets is the sum of the sums over    *)
(* each of them.                                                           *)
(***************************************************************************)
LEMMA SumFamily ==
  ASSUME NEW S, IsFiniteSet(S), NEW A, \A s \in S : IsFiniteSet(A[s]),
         \A s \in S, t \in S : s # t => A[s] \cap A[t] = {},
         NEW f, \A s \in S : \A x \in A[s] : f[x] \in Nat,
         NEW g, \A s \in S : g[s] = SumFunctionOnSet(f, A[s])
  PROVE  SumFunctionOnSet(f, UNION {A[s] : s \in S}) = SumFunctionOnSet(g, S)
<1> DEFINE U(R) == UNION {A[s] : s \in R}
           Q == {R \in SUBSET S :
                   IsFiniteSet(U(R)) /\ SumFunctionOnSet(f, U(R)) = SumFunctionOnSet(g, R)}
<1>1. \A s \in S : g[s] \in Nat
  BY SumLaws
<1>2. {} \in Q
  <2>1. U({}) = {} /\ IsFiniteSet({})
    BY FS_EmptySet
  <2> HIDE DEF U
  <2>2. SumFunctionOnSet(f, {}) = 0 /\ SumFunctionOnSet(g, {}) = 0
    BY <2>1, SumLaws
  <2>3. QED
    BY <2>1, <2>2
<1>3. ASSUME NEW R \in SUBSET S, R # {}, \A x \in R : R \ {x} \in Q
      PROVE  R \in Q
  <2>1. PICK s \in R : TRUE
    BY <1>3
  <2> DEFINE P == R \ {s}
  <2>2. U(R) = A[s] \cup U(P) /\ A[s] \cap U(P) = {} /\ \A x \in A[s] \cup U(P) : f[x] \in Nat
    BY <2>1
  <2>3. IsFiniteSet(U(P)) /\ SumFunctionOnSet(f, U(P)) = SumFunctionOnSet(g, P)
    BY <1>3, <2>1
  <2> DEFINE B == A[s]  C == U(P)
  <2>4. IsFiniteSet(B) /\ IsFiniteSet(C)
    BY <2>1, <2>3
  <2>5. B \cap C = {} /\ (\A x \in B \cup C : f[x] \in Nat) /\ U(R) = B \cup C
    BY <2>2
  <2>6. g[s] = SumFunctionOnSet(f, B)
    BY <2>1
  <2> HIDE DEF U, B, C
  <2>7. SumFunctionOnSet(f, B \cup C) = SumFunctionOnSet(f, B) + SumFunctionOnSet(f, C)
    BY <2>4, <2>5, SumUnion
  <2>8. SumFunctionOnSet(f, U(R)) = g[s] + SumFunctionOnSet(f, U(P))
    BY <2>5, <2>6, <2>7 DEF C
  <2>9. IsFiniteSet(R)
    BY FS_Subset
  <2>10. SumFunctionOnSet(g, R) = g[s] + SumFunctionOnSet(g, P)
    BY <1>1, <2>1, <2>9, SumLaws
  <2>11. IsFiniteSet(B \cup C)
    BY <2>4, FS_Union
  <2>12. QED
    BY <2>3, <2>5, <2>8, <2>10, <2>11
<1> HIDE DEF Q, U
<1>4. S \in Q
  BY <1>2, <1>3, SubsetInduction
<1>5. QED
  BY <1>4 DEF Q, U
-----------------------------------------------------------------------------
(***************************************************************************)
(* The recursive function a fold from left to right is defined by, for a   *)
(* step that is a function of what it comes to so far and of an index.     *)
(***************************************************************************)
Iterates(iter, step, base, n) ==
  \A t \in SUBSET (1 .. n) :
    iter[t] = IF t = {} THEN base ELSE step[<<iter[t \ {Max(t)}], Max(t)>>]

(* A history exists: it is built by induction on the greatest number. *)
LEMMA FoldExists ==
  ASSUME NEW A, NEW base \in A, NEW n \in Nat, NEW step \in [A \X (1 .. n) -> A]
  PROVE  \E iter \in [SUBSET (1 .. n) -> A] : Iterates(iter, step, base, n)
<1> DEFINE Exists(k) == \E iter \in [SUBSET (1 .. k) -> A] : Iterates(iter, step, base, k)
           T == {k \in Nat : k <= n => Exists(k)}
<1>1. 0 \in T
  <2> DEFINE iter == [t \in SUBSET (1 .. 0) |-> base]
  <2>1. \A t \in SUBSET (1 .. 0) : t = {}
    OBVIOUS
  <2>2. iter \in [SUBSET (1 .. 0) -> A] /\ Iterates(iter, step, base, 0)
    BY <2>1 DEF Iterates
  <2>3. QED
    BY <2>2
<1>2. ASSUME NEW j \in Nat, Exists(j), j + 1 <= n
      PROVE  Exists(j + 1)
  <2> DEFINE k == j + 1
  <2>1. PICK g \in [SUBSET (1 .. j) -> A] : Iterates(g, step, base, j)
    BY <1>2
  <2> DEFINE h == [t \in SUBSET (1 .. k) |-> IF k \in t THEN step[<<g[t \ {k}], k>>] ELSE g[t]]
  <2>2. ASSUME NEW t \in SUBSET (1 .. k)
        PROVE  /\ h[t] \in A
               /\ h[t] = IF t = {} THEN base ELSE step[<<h[t \ {Max(t)}], Max(t)>>]
    <3>1. CASE k \in t
      <4>1. Max(t) = k
        <5>1. \A y \in t : y \in Int /\ k >= y
          OBVIOUS
        <5>2. \A x \in t : (\A y \in t : x >= y) => x = k
          BY <3>1, <5>1
        <5>3. QED
          BY <3>1, <5>1, <5>2 DEF Max
      <4>2. t \ {k} \in SUBSET (1 .. j) /\ t \ {k} \in SUBSET (1 .. k) /\ k \notin t \ {k}
        OBVIOUS
      <4>3. h[t \ {k}] = g[t \ {k}] /\ g[t \ {k}] \in A
        BY <2>1, <4>2
      <4>4. h[t] = step[<<g[t \ {k}], k>>]
        BY <3>1
      <4>0. k \in 1 .. n
        BY <1>2
      <4> HIDE DEF h
      <4>5. step[<<g[t \ {k}], k>>] \in A
        BY <4>0, <4>3
      <4>6. QED
        BY <3>1, <4>1, <4>3, <4>4, <4>5
    <3>2. CASE k \notin t
      <4>1. t \in SUBSET (1 .. j)
        BY <3>2
      <4>2. h[t] = g[t] /\ g[t] \in A
        BY <2>1, <3>2, <4>1
      <4>3. g[t] = IF t = {} THEN base ELSE step[<<g[t \ {Max(t)}], Max(t)>>]
        BY <2>1, <4>1 DEF Iterates
      <4>4. t \ {Max(t)} \in SUBSET (1 .. k) /\ k \notin t \ {Max(t)}
        BY <3>2
      <4>5. h[t \ {Max(t)}] = g[t \ {Max(t)}]
        BY <4>4
      <4> HIDE DEF h
      <4>6. QED
        BY <4>2, <4>3, <4>5
    <3>3. QED
      BY <3>1, <3>2
  <2>3. h \in [SUBSET (1 .. k) -> A]
    BY <2>2
  <2> HIDE DEF h
  <2>4. Iterates(h, step, base, k)
    BY <2>2 DEF Iterates
  <2>5. QED
    BY <2>3, <2>4
<1> HIDE DEF Exists
<1>3. \A j \in Nat : j \in T => j + 1 \in T
  BY <1>2
<1> HIDE DEF T
<1>4. n \in T
  BY <1>1, <1>3, NatSet
<1>5. Exists(n)
  BY <1>4 DEF T
<1>6. QED
  BY <1>5 DEF Exists

(* The largest of numbers up to n is one of them. *)
LEMMA MaxIsOne ==
  ASSUME NEW n \in Nat, NEW t \in SUBSET (1 .. n), t # {}
  PROVE  Max(t) \in t
<1> DEFINE HasMax(k) == \A u \in SUBSET (1 .. k) : u # {} => \E x \in u : \A y \in u : x >= y
           T == {k \in Nat : HasMax(k)}
<1>1. HasMax(0)
  <2>1. \A u \in SUBSET (1 .. 0) : u = {}
    OBVIOUS
  <2>2. QED
    BY <2>1
<1>2. ASSUME NEW k \in Nat, HasMax(k)
      PROVE  HasMax(k + 1)
  <2> SUFFICES ASSUME NEW u \in SUBSET (1 .. (k + 1)), u # {}
               PROVE  \E x \in u : \A y \in u : x >= y
    OBVIOUS
  <2>1. CASE k + 1 \in u
    BY <2>1
  <2>2. CASE k + 1 \notin u
    <3>1. u \in SUBSET (1 .. k)
      BY <2>2
    <3>2. QED
      BY <1>2, <3>1
  <2>3. QED
    BY <2>1, <2>2
<1> HIDE DEF HasMax
<1>3. 0 \in T /\ \A k \in Nat : k \in T => k + 1 \in T
  BY <1>1, <1>2
<1> HIDE DEF T
<1>4. n \in T
  BY <1>3, NatSet
<1>5. HasMax(n)
  BY <1>4 DEF T
<1>6. \E x \in t : \A y \in t : x >= y
  BY <1>5 DEF HasMax
<1>7. QED
  BY <1>6 DEF Max

(* A fold goes from the first k - 1 indices to the first k. *)
LEMMA FirstIndices ==
  ASSUME NEW n \in Nat, NEW k \in 1 .. n
  PROVE  /\ 1 .. k \in SUBSET (1 .. n) /\ 1 .. k # {} /\ Max(1 .. k) = k
         /\ (1 .. k) \ {k} = 1 .. (k - 1)
<1>1. 1 .. k \in SUBSET (1 .. n) /\ k \in 1 .. k
  OBVIOUS
<1>2. Max(1 .. k) \in 1 .. k
  BY <1>1, MaxIsOne
<1>3. Max(1 .. k) = k
  <2>1. \A y \in 1 .. k : k >= y
    OBVIOUS
  <2>2. \A x \in 1 .. k : (\A y \in 1 .. k : x >= y) => x = k
    BY <1>1
  <2>3. QED
    BY <1>1, <2>1, <2>2 DEF Max
<1>4. QED
  BY <1>1, <1>3

(* What holds at first and after every step holds all along. *)
LEMMA AllAlong ==
  ASSUME NEW n \in Nat, NEW h, NEW A, h[0] \in A,
         \A k \in 1 .. n : h[k - 1] \in A => h[k] \in A
  PROVE  \A k \in 0 .. n : h[k] \in A
<1> DEFINE T == {k \in Nat : k <= n => h[k] \in A}
<1>1. 0 \in T
  OBVIOUS
<1>2. ASSUME NEW k \in Nat, k \in T
      PROVE  k + 1 \in T
  <2>1. CASE k + 1 <= n
    <3>1. k + 1 \in 1 .. n /\ (k + 1) - 1 = k /\ h[k] \in A
      BY <1>2, <2>1
    <3>2. h[k + 1] \in A
      BY <3>1
    <3>3. QED
      BY <3>2
  <2>2. QED
    BY <2>1
<1> HIDE DEF T
<1>3. Nat \subseteq T
  BY <1>1, <1>2, NatSet
<1>4. QED
  BY <1>3 DEF T
=============================================================================
