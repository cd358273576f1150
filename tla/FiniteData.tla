----------------------------- MODULE FiniteData -----------------------------
(***************************************************************************)
(* Facts about finite data that the proofs of the models need: sums over a *)
(* finite set, ascending lists of its elements, powers of two and the bits *)
(* of a number.  Each induction is made over a set of naturals, the sizes  *)
(* of what is bad: it has no least element, so it is empty.                *)
(***************************************************************************)
EXTENDS Integers, Functions, FiniteSets, TLAPS, FiniteSetTheorems, WellFoundedInduction

\* Every set of naturals that is not empty has a least element.
LEMMA LeastNat ==
  ASSUME NEW N, N \subseteq Nat, N # {}
  PROVE  \E n \in N : \A m \in N : n <= m
<1>1. PICK n \in N : \A m \in N : ~(<<m, n>> \in OpToRel(<, Nat))
  BY NatLessThanWellFounded, WFMin
<1>2. \A m \in N : ~(m < n)
  BY <1>1 DEF OpToRel
<1>. QED BY <1>2

\* The same for sets of finite sets: one of the smallest has only good ones below it.
LEMMA SmallestSet ==
  ASSUME NEW B, B # {}, \A S \in B : IsFiniteSet(S)
  PROVE  \E S \in B : \A T \in B : Cardinality(S) <= Cardinality(T)
<1>. DEFINE N == {Cardinality(S) : S \in B}
<1>1. N \subseteq Nat /\ N # {}
  BY FS_CardinalityType
<1>2. PICK n \in N : \A m \in N : n <= m
  <2>. HIDE DEF N
  <2>. QED BY <1>1, LeastNat
<1>. QED BY <1>2

\* A finite set without one of its elements.
LEMMA Without ==
  ASSUME NEW S, IsFiniteSet(S), NEW x \in S
  PROVE  /\ IsFiniteSet(S \ {x})
         /\ Cardinality(S) \in Nat /\ Cardinality(S \ {x}) \in Nat
         /\ Cardinality(S \ {x}) < Cardinality(S)
<1>1. IsFiniteSet(S \ {x}) /\ Cardinality(S \ {x}) = Cardinality(S) - 1
  BY FS_RemoveElement
<1>. QED BY <1>1, FS_CardinalityType

-----------------------------------------------------------------------------
(* Sums *)

Chosen(s) == CHOOSE x \in s : TRUE

\* g gives the sum over each subset of S, one chosen element after the other.
IsSum(f, S, g) ==
  g = [s \in SUBSET S |-> IF s = {} THEN 0 ELSE f[Chosen(s)] + g[s \ {Chosen(s)}]]

\* The library's sum is by such a function.
LEMMA SumDef ==
  ASSUME NEW f, NEW S
  PROVE  SumFunctionOnSet(f, S) = (CHOOSE g : IsSum(f, S, g))[S]
BY DEF SumFunctionOnSet, FoldFunctionOnSet, MapThenFoldSet, IsSum, Chosen

\* What it gives for one of them.
LEMMA IsSumAt ==
  ASSUME NEW f, NEW S, NEW g, IsSum(f, S, g), NEW s \in SUBSET S
  PROVE  g[s] = IF s = {} THEN 0 ELSE f[Chosen(s)] + g[s \ {Chosen(s)}]
<1>. DEFINE body(t) == IF t = {} THEN 0 ELSE f[Chosen(t)] + g[t \ {Chosen(t)}]
<1>1. g = [t \in SUBSET S |-> body(t)]
  BY DEF IsSum
<1>. HIDE DEF body
<1>2. g[s] = body(s)
  BY <1>1
<1>. QED BY <1>2 DEF body

\* Two of them agree wherever both are defined.
LEMMA SumUnique ==
  ASSUME NEW f, NEW S, NEW T, NEW g, NEW h, IsFiniteSet(S),
         IsSum(f, S, g), IsSum(f, T, h), S \subseteq T
  PROVE  \A s \in SUBSET S : g[s] = h[s]
<1>. DEFINE B == {s \in SUBSET S : g[s] # h[s]}
<1>1. \A s \in B : IsFiniteSet(s)
  BY FS_Subset
<1>2. ASSUME B # {} PROVE FALSE
  <2>1. PICK s \in B : \A t \in B : Cardinality(s) <= Cardinality(t)
    <3>. HIDE DEF B
    <3>. QED BY <1>1, <1>2, SmallestSet
  <2>2. s \in SUBSET S /\ s \in SUBSET T /\ IsFiniteSet(s) /\ g[s] # h[s]
    BY <1>1
  <2>. DEFINE x == Chosen(s)
  <2>3. /\ g[s] = IF s = {} THEN 0 ELSE f[Chosen(s)] + g[s \ {x}]
        /\ h[s] = IF s = {} THEN 0 ELSE f[Chosen(s)] + h[s \ {x}]
    BY <2>2, IsSumAt
  <2>4. s # {}
    BY <2>2, <2>3
  <2>5. x \in s
    BY <2>4 DEF Chosen
  <2>. HIDE DEF x
  <2>6. Cardinality(s \ {x}) < Cardinality(s) /\ Cardinality(s) \in Nat /\ Cardinality(s \ {x}) \in Nat
    BY <2>2, <2>5, Without
  <2>7. s \ {x} \notin B
    BY <2>1, <2>6
  <2>8. g[s \ {x}] = h[s \ {x}]
    BY <2>2, <2>7
  <2>. QED BY <2>2, <2>3, <2>8
<1>. QED BY <1>2

\* There is one for every finite set.
LEMMA SumExists ==
  ASSUME NEW f, NEW S0, IsFiniteSet(S0)
  PROVE  \E g : IsSum(f, S0, g)
<1>. DEFINE B == {s \in SUBSET S0 : ~\E g : IsSum(f, s, g)}
<1>1. \A s \in B : IsFiniteSet(s)
  BY FS_Subset
<1>2. ASSUME B # {} PROVE FALSE
  <2>1. PICK S \in B : \A t \in B : Cardinality(S) <= Cardinality(t)
    <3>. HIDE DEF B
    <3>. QED BY <1>1, <1>2, SmallestSet
  <2>2. S \in SUBSET S0 /\ IsFiniteSet(S) /\ ~\E g : IsSum(f, S, g)
    BY <1>1
  <2>. DEFINE G(s) == CHOOSE g : IsSum(f, s, g)
              V(s) == G(s)[s]
              body(s) == IF s = {} THEN 0 ELSE f[Chosen(s)] + V(s \ {Chosen(s)})
              total == [s \in SUBSET S |-> body(s)]
  <2>3. ASSUME NEW s \in SUBSET S, s # S PROVE IsSum(f, s, G(s))
    <3>1. PICK x \in S : x \notin s
      BY <2>3
    <3>2. s \subseteq S \ {x} /\ IsFiniteSet(S \ {x}) /\ Cardinality(S \ {x}) < Cardinality(S)
          /\ Cardinality(S \ {x}) \in Nat /\ Cardinality(S) \in Nat
      BY <3>1, <2>2, Without
    <3>3. Cardinality(s) \in Nat /\ Cardinality(s) <= Cardinality(S \ {x})
      BY <3>2, FS_Subset, FS_CardinalityType
    <3>4. s \notin B
      BY <2>1, <3>2, <3>3
    <3>5. \E g : IsSum(f, s, g)
      BY <3>4, <2>2
    <3>. QED BY <3>5
  <2>4. ASSUME NEW s \in SUBSET S, s # S PROVE V(s) = body(s)
    <3>1. IsSum(f, s, G(s))
      BY <2>3, <2>4
    <3>2. V(s) = IF s = {} THEN 0 ELSE f[Chosen(s)] + G(s)[s \ {Chosen(s)}]
      BY <3>1, IsSumAt
    <3>3. CASE s = {}
      BY <3>2, <3>3
    <3>4. CASE s # {}
      <4>. DEFINE x == Chosen(s)
      <4>1. x \in s
        BY <3>4 DEF Chosen
      <4>2. s \ {x} \in SUBSET S /\ s \ {x} # S /\ s \ {x} \subseteq s
        BY <4>1
      <4>3. IsSum(f, s \ {x}, G(s \ {x})) /\ IsFiniteSet(s \ {x})
        BY <4>2, <2>3, <2>2, FS_Subset
      <4>4. G(s \ {x})[s \ {x}] = G(s)[s \ {x}]
        <5>. HIDE DEF G, x
        <5>1. \A t \in SUBSET (s \ {x}) : G(s \ {x})[t] = G(s)[t]
          BY <4>2, <4>3, <3>1, SumUnique
        <5>. QED BY <5>1
      <4>. QED BY <3>2, <3>4, <4>4
    <3>. QED BY <3>3, <3>4
  <2>5. ASSUME NEW s \in SUBSET S
        PROVE  body(s) = IF s = {} THEN 0 ELSE f[Chosen(s)] + total[s \ {Chosen(s)}]
    <3>1. CASE s = {}
      BY <3>1
    <3>2. CASE s # {}
      <4>1. Chosen(s) \in s
        BY <3>2 DEF Chosen
      <4>2. s \ {Chosen(s)} \in SUBSET S /\ s \ {Chosen(s)} # S
        BY <4>1
      <4>3. V(s \ {Chosen(s)}) = body(s \ {Chosen(s)})
        BY <4>2, <2>4
      <4>4. total[s \ {Chosen(s)}] = body(s \ {Chosen(s)})
        BY <4>2
      <4>5. body(s) = f[Chosen(s)] + V(s \ {Chosen(s)})
        BY <3>2
      <4>. HIDE DEF total, body, V, G
      <4>. QED BY <3>2, <4>3, <4>4, <4>5
    <3>. QED BY <3>1, <3>2
  <2>6. IsSum(f, S, total)
    <3>. HIDE DEF body, V, G
    <3>. QED BY <2>5 DEF IsSum
  <2>. QED BY <2>2, <2>6
<1>3. S0 \notin B
  BY <1>2
<1>. QED BY <1>3

\* The sum over the empty set is 0.
LEMMA SumEmpty ==
  ASSUME NEW f
  PROVE  SumFunctionOnSet(f, {}) = 0
<1>1. PICK g : IsSum(f, {}, g)
  BY SumExists, FS_EmptySet
<1>. DEFINE h == CHOOSE g1 : IsSum(f, {}, g1)
<1>2. IsSum(f, {}, h)
  BY <1>1
<1>. HIDE DEF h
<1>3. h[{}] = 0
  BY <1>2, IsSumAt
<1>. QED BY <1>3, SumDef DEF h

\* The chosen element counts first.
LEMMA SumChosen ==
  ASSUME NEW f, NEW S, IsFiniteSet(S), S # {}
  PROVE  /\ Chosen(S) \in S
         /\ SumFunctionOnSet(f, S) = f[Chosen(S)] + SumFunctionOnSet(f, S \ {Chosen(S)})
<1>. DEFINE x == Chosen(S)
            T == S \ {x}
            G(s) == CHOOSE g1 : IsSum(f, s, g1)
<1>1. x \in S
  BY DEF Chosen
<1>2. IsFiniteSet(T) /\ T \subseteq S
  BY FS_Subset
<1>3. IsSum(f, S, G(S)) /\ IsSum(f, T, G(T))
  <2>1. (\E g : IsSum(f, S, g)) /\ (\E g : IsSum(f, T, g))
    <3>. HIDE DEF T
    <3>. QED BY <1>2, SumExists
  <2>. QED BY <2>1
<1>4. G(S)[S] = f[x] + G(S)[T]
  <2>. HIDE DEF G
  <2>. QED BY <1>3, IsSumAt
<1>5. G(T)[T] = G(S)[T]
  <2>. HIDE DEF G, T
  <2>1. \A s \in SUBSET T : G(T)[s] = G(S)[s]
    BY <1>2, <1>3, SumUnique
  <2>. QED BY <2>1
<1>6. SumFunctionOnSet(f, S) = G(S)[S] /\ SumFunctionOnSet(f, T) = G(T)[T]
  BY SumDef
<1>. HIDE DEF G, T
<1>7. SumFunctionOnSet(f, S) = f[x] + SumFunctionOnSet(f, T)
  BY <1>4, <1>5, <1>6
<1>. QED BY <1>1, <1>7 DEF T

\* f has a number for every element of S.
Numbers(f, S) == \A x \in S : f[x] \in Int

\* A sum of integers is one, and any element may count first.
LEMMA SumRemove ==
  ASSUME NEW f, NEW S0, IsFiniteSet(S0), Numbers(f, S0)
  PROVE  /\ SumFunctionOnSet(f, S0) \in Int
         /\ \A x \in S0 : SumFunctionOnSet(f, S0) = f[x] + SumFunctionOnSet(f, S0 \ {x})
<1>. DEFINE Sum(s) == SumFunctionOnSet(f, s)
            Good(s) == Sum(s) \in Int /\ \A x \in s : Sum(s) = f[x] + Sum(s \ {x})
            B == {s \in SUBSET S0 : ~Good(s)}
<1>1. \A s \in B : IsFiniteSet(s)
  BY FS_Subset
<1>2. ASSUME B # {} PROVE FALSE
  <2>1. PICK S \in B : \A t \in B : Cardinality(S) <= Cardinality(t)
    <3>. HIDE DEF B
    <3>. QED BY <1>1, <1>2, SmallestSet
  <2>2. S \in SUBSET S0 /\ IsFiniteSet(S) /\ ~Good(S)
    BY <1>1
  <2>3. ASSUME NEW x \in S PROVE Good(S \ {x}) /\ IsFiniteSet(S \ {x})
    <3>1. Cardinality(S \ {x}) < Cardinality(S) /\ Cardinality(S) \in Nat
          /\ Cardinality(S \ {x}) \in Nat /\ IsFiniteSet(S \ {x})
      BY <2>2, Without
    <3>2. S \ {x} \notin B
      BY <2>1, <3>1
    <3>. QED BY <2>2, <3>1, <3>2
  <2>4. S # {}
    <3>1. ASSUME S = {} PROVE FALSE
      <4>1. Sum(S) = 0
        BY <3>1, SumEmpty
      <4>. HIDE DEF Sum
      <4>. QED BY <2>2, <3>1, <4>1
    <3>. QED BY <3>1
  <2>. DEFINE c == Chosen(S)
  <2>5. c \in S /\ Sum(S) = f[c] + Sum(S \ {c})
    BY <2>2, <2>4, SumChosen
  <2>. HIDE DEF Sum, c
  <2>6. \A x \in S : f[x] \in Int
    BY <2>2 DEF Numbers
  <2>7. Sum(S) \in Int
    BY <2>3, <2>5, <2>6
  <2>8. ASSUME NEW x \in S PROVE Sum(S) = f[x] + Sum(S \ {x})
    <3>1. CASE x = c
      BY <2>5, <3>1
    <3>2. CASE x # c
      <4>1. Sum(S \ {c}) = f[x] + Sum((S \ {c}) \ {x})
        BY <2>3, <2>5, <3>2
      <4>2. Sum(S \ {x}) = f[c] + Sum((S \ {x}) \ {c})
        BY <2>3, <2>5, <3>2
      <4>3. (S \ {c}) \ {x} = (S \ {x}) \ {c}
        OBVIOUS
      <4>4. Sum((S \ {c}) \ {x}) \in Int
        <5>1. Sum(S \ {c}) \in Int /\ f[x] \in Int /\ IsFiniteSet(S \ {c}) /\ x \in S \ {c}
          BY <2>3, <2>5, <2>6, <3>2
        <5>2. Cardinality((S \ {c}) \ {x}) < Cardinality(S \ {c}) /\ Cardinality(S \ {c}) < Cardinality(S)
              /\ Cardinality(S) \in Nat /\ Cardinality(S \ {c}) \in Nat
              /\ Cardinality((S \ {c}) \ {x}) \in Nat /\ IsFiniteSet((S \ {c}) \ {x})
          BY <2>2, <2>5, <5>1, Without
        <5>3. ~(Cardinality(S) <= Cardinality((S \ {c}) \ {x}))
          BY <5>2
        <5>4. (S \ {c}) \ {x} \notin B
          BY <2>1, <5>3, Zenon
        <5>. QED BY <2>2, <5>4
      <4>. DEFINE rest == Sum((S \ {c}) \ {x})
      <4>5. f[c] \in Int /\ f[x] \in Int /\ rest \in Int
        BY <2>5, <2>6, <4>4
      <4>6. Sum(S) = f[c] + (f[x] + rest) /\ Sum(S \ {x}) = f[c] + rest
        BY <2>5, <4>1, <4>2, <4>3
      <4>. HIDE DEF rest
      <4>. QED BY <4>5, <4>6
    <3>. QED BY <3>1, <3>2
  <2>. QED BY <2>2, <2>7, <2>8
<1>3. S0 \notin B
  BY <1>2
<1>. QED BY <1>3

\* Sums over two sets without a common element add up.
LEMMA SumUnion ==
  ASSUME NEW f, NEW S, IsFiniteSet(S), NEW T0, IsFiniteSet(T0), S \cap T0 = {},
         Numbers(f, S \cup T0)
  PROVE  SumFunctionOnSet(f, S \cup T0) = SumFunctionOnSet(f, S) + SumFunctionOnSet(f, T0)
<1>. DEFINE Sum(s) == SumFunctionOnSet(f, s)
            B == {T \in SUBSET T0 : Sum(S \cup T) # Sum(S) + Sum(T)}
<1>0. \A s \in SUBSET (S \cup T0) : IsFiniteSet(s) /\ Numbers(f, s) /\ Sum(s) \in Int
  <2>1. IsFiniteSet(S \cup T0)
    BY FS_Union
  <2>2. \A s \in SUBSET (S \cup T0) : IsFiniteSet(s) /\ Numbers(f, s)
    BY <2>1, FS_Subset DEF Numbers
  <2>. QED BY <2>2, SumRemove
<1>1. \A T \in B : IsFiniteSet(T)
  BY FS_Subset
<1>2. ASSUME B # {} PROVE FALSE
  <2>1. PICK T \in B : \A t \in B : Cardinality(T) <= Cardinality(t)
    <3>. HIDE DEF B
    <3>. QED BY <1>1, <1>2, SmallestSet
  <2>2. T \in SUBSET T0 /\ IsFiniteSet(T) /\ Sum(S \cup T) # Sum(S) + Sum(T)
    BY <1>1
  <2>3. T # {}
    <3>1. ASSUME T = {} PROVE FALSE
      <4>1. Sum(T) = 0 /\ S \cup T = S
        BY <3>1, SumEmpty
      <4>2. Sum(S) \in Int
        BY <1>0
      <4>. HIDE DEF Sum, B
      <4>3. Sum(S \cup T) = Sum(S)
        BY <4>1
      <4>. QED BY <2>2, <4>1, <4>2, <4>3
    <3>. QED BY <3>1
  <2>4. PICK x \in T : TRUE
    BY <2>3
  <2>. DEFINE K == T \ {x}
  <2>5. Cardinality(K) < Cardinality(T) /\ Cardinality(T) \in Nat /\ Cardinality(K) \in Nat
    BY <2>2, <2>4, Without
  <2>6. K \notin B
    BY <2>1, <2>5
  <2>7. Sum(S \cup K) = Sum(S) + Sum(K)
    BY <2>2, <2>6
  <2>8. (S \cup T) \ {x} = S \cup K
    BY <2>2, <2>4
  <2>9. Sum(S \cup T) = f[x] + Sum(S \cup K)
    <3>1. IsFiniteSet(S \cup T) /\ Numbers(f, S \cup T) /\ x \in S \cup T
      BY <1>0, <2>2, <2>4
    <3>. HIDE DEF K
    <3>. QED BY <2>8, <3>1, SumRemove
  <2>10. Sum(T) = f[x] + Sum(K)
    <3>1. Numbers(f, T)
      BY <1>0, <2>2
    <3>. QED BY <2>2, <2>4, <3>1, SumRemove
  <2>11. f[x] \in Int /\ Sum(K) \in Int /\ Sum(S) \in Int
    BY <1>0, <2>2, <2>4 DEF Numbers
  <2>. HIDE DEF Sum, K
  <2>. QED BY <2>2, <2>7, <2>9, <2>10, <2>11
<1>3. T0 \notin B
  BY <1>2
<1>. QED BY <1>3

\* Functions that agree on a set have the same sum over it.
LEMMA SumSame ==
  ASSUME NEW f, NEW g, NEW S0, IsFiniteSet(S0), Numbers(f, S0), \A x \in S0 : f[x] = g[x]
  PROVE  SumFunctionOnSet(f, S0) = SumFunctionOnSet(g, S0)
<1>. DEFINE B == {s \in SUBSET S0 : SumFunctionOnSet(f, s) # SumFunctionOnSet(g, s)}
<1>1. \A s \in B : IsFiniteSet(s)
  BY FS_Subset
<1>2. ASSUME B # {} PROVE FALSE
  <2>1. PICK S \in B : \A t \in B : Cardinality(S) <= Cardinality(t)
    <3>. HIDE DEF B
    <3>. QED BY <1>1, <1>2, SmallestSet
  <2>2. S \in SUBSET S0 /\ IsFiniteSet(S) /\ SumFunctionOnSet(f, S) # SumFunctionOnSet(g, S)
    BY <1>1
  <2>3. S # {}
    BY <2>2, SumEmpty
  <2>. DEFINE x == Chosen(S)
              K == S \ {x}
  <2>4. /\ x \in S /\ SumFunctionOnSet(f, S) = f[x] + SumFunctionOnSet(f, K)
        /\ SumFunctionOnSet(g, S) = g[x] + SumFunctionOnSet(g, K)
    BY <2>2, <2>3, SumChosen
  <2>5. Cardinality(K) < Cardinality(S) /\ Cardinality(S) \in Nat /\ Cardinality(K) \in Nat
    <3>. HIDE DEF x
    <3>. QED BY <2>2, <2>4, Without
  <2>6. K \notin B
    BY <2>1, <2>5
  <2>7. SumFunctionOnSet(f, K) = SumFunctionOnSet(g, K) /\ f[x] = g[x]
    BY <2>2, <2>4, <2>6
  <2>. HIDE DEF x, K
  <2>. QED BY <2>2, <2>4, <2>7
<1>3. S0 \notin B
  BY <1>2
<1>. QED BY <1>3

-----------------------------------------------------------------------------
(* Counting *)

\* The elements of A whose class, by h, is i, and those whose class is in I.
ClassOf(A, h, i) == {a \in A : h[a] = i}
ClassesIn(A, h, I) == {a \in A : h[a] \in I}

\* n has the size, or the sum of w, for each class in I.
CountsClasses(n, A, h, I) == \A i \in I : n[i] = Cardinality(ClassOf(A, h, i))
SumsClasses(n, w, A, h, I) == \A i \in I : n[i] = SumFunctionOnSet(w, ClassOf(A, h, i))

\* A set counted class by class: n gives the size of each class of those elements
\* whose class h is in I.
LEMMA CountByClass ==
  ASSUME NEW A, IsFiniteSet(A), NEW h, NEW I0, IsFiniteSet(I0), NEW n,
         CountsClasses(n, A, h, I0)
  PROVE  SumFunctionOnSet(n, I0) = Cardinality(ClassesIn(A, h, I0))
<1>. DEFINE Class(i) == ClassOf(A, h, i)
            In(J) == ClassesIn(A, h, J)
            Sum(J) == SumFunctionOnSet(n, J)
            B == {J \in SUBSET I0 : Sum(J) # Cardinality(In(J))}
<1>1. \A J \in B : IsFiniteSet(J)
  BY FS_Subset
<1>2. ASSUME B # {} PROVE FALSE
  <2>1. PICK J \in B : \A t \in B : Cardinality(J) <= Cardinality(t)
    <3>. HIDE DEF B
    <3>. QED BY <1>1, <1>2, SmallestSet
  <2>2. J \in SUBSET I0 /\ IsFiniteSet(J) /\ Sum(J) # Cardinality(In(J))
    BY <1>1
  <2>3. J # {}
    <3>1. ASSUME J = {} PROVE FALSE
      <4>1. In(J) = {} /\ Sum(J) = 0
        BY <3>1, SumEmpty DEF ClassesIn
      <4>. HIDE DEF In, Sum
      <4>. QED BY <2>2, <4>1, FS_EmptySet
    <3>. QED BY <3>1
  <2>4. PICK i \in J : TRUE
    BY <2>3
  <2>. DEFINE K == J \ {i}
  <2>5. /\ IsFiniteSet(Class(i)) /\ IsFiniteSet(In(K)) /\ IsFiniteSet(In(J))
        /\ Class(i) \cap In(K) = {} /\ In(J) = Class(i) \cup In(K)
    BY FS_Subset DEF ClassOf, ClassesIn
  <2>6. Cardinality(K) < Cardinality(J) /\ Cardinality(J) \in Nat /\ Cardinality(K) \in Nat
    BY <2>2, <2>4, Without
  <2>7. K \notin B
    BY <2>1, <2>6
  <2>8. Sum(K) = Cardinality(In(K))
    BY <2>2, <2>7
  <2>9. Sum(J) = n[i] + Sum(K)
    <3>1. Numbers(n, J)
      <4>1. \A j \in J : IsFiniteSet(Class(j))
        BY FS_Subset DEF ClassOf
      <4>2. \A j \in J : Cardinality(Class(j)) \in Nat
        <5>. HIDE DEF Class
        <5>. QED BY <4>1, FS_CardinalityType
      <4>3. \A j \in J : n[j] = Cardinality(Class(j))
        BY <2>2 DEF CountsClasses
      <4>. HIDE DEF Class
      <4>. QED BY <4>2, <4>3 DEF Numbers
    <3>. QED BY <2>2, <2>4, <3>1, SumRemove
  <2>10. n[i] = Cardinality(Class(i))
    BY <2>2, <2>4 DEF CountsClasses
  <2>. HIDE DEF Class, In, Sum, K
  <2>11. Cardinality(In(J)) = Cardinality(Class(i)) + Cardinality(In(K))
    <3>1. Cardinality(Class(i) \cup In(K))
            = Cardinality(Class(i)) + Cardinality(In(K)) - Cardinality(Class(i) \cap In(K))
      BY <2>5, FS_Union
    <3>2. Cardinality(Class(i)) \in Nat /\ Cardinality(In(K)) \in Nat
          /\ Cardinality(Class(i) \cap In(K)) = 0
      BY <2>5, FS_EmptySet, FS_CardinalityType
    <3>. QED BY <2>5, <3>1, <3>2
  <2>. QED BY <2>2, <2>8, <2>9, <2>10, <2>11
<1>3. I0 \notin B
  BY <1>2
<1>. QED BY <1>3

\* The same for the sum over a set.
LEMMA SumByClass ==
  ASSUME NEW A, IsFiniteSet(A), NEW w, Numbers(w, A), NEW h, NEW I0, IsFiniteSet(I0), NEW n,
         SumsClasses(n, w, A, h, I0)
  PROVE  SumFunctionOnSet(n, I0) = SumFunctionOnSet(w, ClassesIn(A, h, I0))
<1>. DEFINE Class(i) == ClassOf(A, h, i)
            In(J) == ClassesIn(A, h, J)
            Sum(J) == SumFunctionOnSet(n, J)
            B == {J \in SUBSET I0 : Sum(J) # SumFunctionOnSet(w, In(J))}
<1>0. \A s \in SUBSET A : IsFiniteSet(s) /\ Numbers(w, s) /\ SumFunctionOnSet(w, s) \in Int
  <2>1. \A s \in SUBSET A : IsFiniteSet(s) /\ Numbers(w, s)
    BY FS_Subset DEF Numbers
  <2>. QED BY <2>1, SumRemove
<1>1. \A J \in B : IsFiniteSet(J)
  BY FS_Subset
<1>2. ASSUME B # {} PROVE FALSE
  <2>1. PICK J \in B : \A t \in B : Cardinality(J) <= Cardinality(t)
    <3>. HIDE DEF B
    <3>. QED BY <1>1, <1>2, SmallestSet
  <2>2. J \in SUBSET I0 /\ IsFiniteSet(J) /\ Sum(J) # SumFunctionOnSet(w, In(J))
    BY <1>1
  <2>3. J # {}
    <3>1. ASSUME J = {} PROVE FALSE
      <4>1. In(J) = {} /\ Sum(J) = 0
        BY <3>1, SumEmpty DEF ClassesIn
      <4>. HIDE DEF In, Sum
      <4>. QED BY <2>2, <4>1, SumEmpty
    <3>. QED BY <3>1
  <2>4. PICK i \in J : TRUE
    BY <2>3
  <2>. DEFINE K == J \ {i}
  <2>5. /\ Class(i) \in SUBSET A /\ In(K) \in SUBSET A
        /\ Class(i) \cap In(K) = {} /\ In(J) = Class(i) \cup In(K)
    BY DEF ClassOf, ClassesIn
  <2>6. Cardinality(K) < Cardinality(J) /\ Cardinality(J) \in Nat /\ Cardinality(K) \in Nat
    BY <2>2, <2>4, Without
  <2>7. K \notin B
    BY <2>1, <2>6
  <2>8. Sum(K) = SumFunctionOnSet(w, In(K))
    BY <2>2, <2>7
  <2>9. Sum(J) = n[i] + Sum(K)
    <3>1. \A j \in J : Class(j) \in SUBSET A
      BY DEF ClassOf
    <3>2. \A j \in J : n[j] = SumFunctionOnSet(w, Class(j))
      BY <2>2 DEF SumsClasses
    <3>3. \A j \in J : SumFunctionOnSet(w, Class(j)) \in Int
      <4>. HIDE DEF Class
      <4>. QED BY <1>0, <3>1, Zenon
    <3>4. Numbers(n, J)
      <4>. HIDE DEF Class
      <4>. QED BY <3>2, <3>3 DEF Numbers
    <3>. QED BY <2>2, <2>4, <3>4, SumRemove
  <2>10. n[i] = SumFunctionOnSet(w, Class(i))
    BY <2>2, <2>4 DEF SumsClasses
  <2>. HIDE DEF Class, In, Sum, K
  <2>11. SumFunctionOnSet(w, In(J)) = SumFunctionOnSet(w, Class(i)) + SumFunctionOnSet(w, In(K))
    <3>1. Numbers(w, Class(i) \cup In(K)) /\ IsFiniteSet(Class(i)) /\ IsFiniteSet(In(K))
      BY <1>0, <2>5
    <3>. QED BY <2>5, <3>1, SumUnion
  <2>. QED BY <2>2, <2>8, <2>9, <2>10, <2>11
<1>3. I0 \notin B
  BY <1>2
<1>. QED BY <1>3

-----------------------------------------------------------------------------
(* Lists in order *)

\* R orders S strictly and totally.
Orders(R, S) ==
  /\ \A x \in S : <<x, x>> \notin R
  /\ \A x, y \in S : x = y \/ <<x, y>> \in R \/ <<y, x>> \in R
  /\ \A x, y, z \in S : <<x, y>> \in R /\ <<y, z>> \in R => <<x, z>> \in R

InOrder(p, n, R) == \A i, j \in 1 .. n : i < j => <<p[i], p[j]>> \in R

\* A list in order as long as the set holds all its elements.
LEMMA ListCovers ==
  ASSUME NEW S, IsFiniteSet(S), NEW R, Orders(R, S),
         NEW p \in [1 .. Cardinality(S) -> S], InOrder(p, Cardinality(S), R)
  PROVE  \A x \in S : \E i \in 1 .. Cardinality(S) : p[i] = x
<1>. DEFINE n == Cardinality(S)
<1>1. n \in Nat
  BY FS_CardinalityType
<1>2. \A i, j \in 1 .. n : p[i] = p[j] => i = j
  <2>1. ASSUME NEW i \in 1 .. n, NEW j \in 1 .. n, i # j PROVE p[i] # p[j]
    <3>. HIDE DEF n
    <3>1. i < j \/ j < i
      BY <1>1, <2>1
    <3>2. <<p[i], p[j]>> \in R \/ <<p[j], p[i]>> \in R
      BY <3>1 DEF InOrder, n
    <3>. QED BY <3>2 DEF Orders, n
  <2>. QED BY <2>1
<1>3. p \in Injection(1 .. n, S)
  BY <1>2 DEF Injection, IsInjective
<1>4. Cardinality(1 .. n) = n
  <2>. HIDE DEF n
  <2>. QED BY <1>1, FS_Interval
<1>5. p \in Surjection(1 .. n, S)
  <2>1. Cardinality(1 .. n) = Cardinality(S)
    BY <1>4
  <2>. HIDE DEF n
  <2>. QED BY <1>3, <2>1, FS_Injection
<1>. QED BY <1>5 DEF Surjection

\* There is one: each element's place is the number of those up to it.
LEMMA ListExists ==
  ASSUME NEW S, IsFiniteSet(S), NEW R, Orders(R, S)
  PROVE  \E p \in [1 .. Cardinality(S) -> S] : InOrder(p, Cardinality(S), R)
<1>. DEFINE n == Cardinality(S)
            UpTo(x) == {y \in S : y = x \/ <<y, x>> \in R}
            place == [x \in S |-> Cardinality(UpTo(x))]
<1>1. n \in Nat
  BY FS_CardinalityType
<1>2. \A x \in S : UpTo(x) \in SUBSET S /\ x \in UpTo(x)
  OBVIOUS
<1>3. \A x, y \in S : <<x, y>> \in R => UpTo(x) \subseteq UpTo(y) /\ y \notin UpTo(x)
  BY DEF Orders
<1>. HIDE DEF UpTo
<1>4. ASSUME NEW x \in S PROVE IsFiniteSet(UpTo(x)) /\ Cardinality(UpTo(x)) \in 1 .. n
  <2>1. IsFiniteSet(UpTo(x)) /\ Cardinality(UpTo(x)) <= n
    BY <1>2, FS_Subset
  <2>2. Cardinality(UpTo(x)) \in Nat /\ Cardinality(UpTo(x)) # 0
    BY <1>2, <2>1, FS_EmptySet, FS_CardinalityType
  <2>. HIDE DEF n
  <2>. QED BY <1>1, <2>1, <2>2
<1>5. ASSUME NEW x \in S, NEW y \in S, <<x, y>> \in R PROVE place[x] < place[y]
  <2>1. UpTo(x) \in SUBSET UpTo(y) /\ UpTo(x) # UpTo(y)
    BY <1>2, <1>3, <1>5
  <2>2. Cardinality(UpTo(x)) <= Cardinality(UpTo(y)) /\ Cardinality(UpTo(x)) # Cardinality(UpTo(y))
    BY <2>1, <1>4, FS_Subset
  <2>. HIDE DEF n
  <2>. QED BY <2>2, <1>1, <1>4
<1>6. place \in [S -> 1 .. n]
  BY <1>4
<1>. HIDE DEF place
<1>7. \A x, y \in S : place[x] = place[y] => x = y
  <2>1. ASSUME NEW x \in S, NEW y \in S, x # y PROVE place[x] # place[y]
    <3>1. place[x] \in Int /\ place[y] \in Int
      <4>. HIDE DEF n
      <4>. QED BY <1>1, <1>6
    <3>2. place[x] < place[y] \/ place[y] < place[x]
      BY <1>5, <2>1 DEF Orders
    <3>. QED BY <3>1, <3>2
  <2>. QED BY <2>1
<1>8. place \in Surjection(S, 1 .. n)
  <2>1. place \in Injection(S, 1 .. n)
    BY <1>6, <1>7 DEF Injection, IsInjective
  <2>2. IsFiniteSet(1 .. n) /\ Cardinality(1 .. n) = n
    <3>. HIDE DEF n
    <3>. QED BY <1>1, FS_Interval
  <2>3. Cardinality(1 .. n) = Cardinality(S)
    BY <2>2
  <2>. HIDE DEF n
  <2>. QED BY <2>1, <2>2, <2>3, FS_Injection
<1>9. \A i \in 1 .. n : \E x \in S : place[x] = i
  BY <1>8 DEF Surjection
<1>. DEFINE p == [i \in 1 .. n |-> CHOOSE x \in S : place[x] = i]
<1>10. \A i \in 1 .. n : p[i] \in S /\ place[p[i]] = i
  BY <1>9
<1>11. p \in [1 .. n -> S]
  BY <1>10
<1>. HIDE DEF p
<1>12. InOrder(p, n, R)
  <2>1. ASSUME NEW i \in 1 .. n, NEW j \in 1 .. n, i < j PROVE <<p[i], p[j]>> \in R
    <3>1. p[i] \in S /\ p[j] \in S /\ place[p[i]] = i /\ place[p[j]] = j
      BY <1>10
    <3>2. i \in Int /\ j \in Int
      <4>. HIDE DEF n
      <4>. QED BY <1>1
    <3>3. p[i] # p[j] /\ <<p[j], p[i]>> \notin R
      BY <1>5, <2>1, <3>1, <3>2
    <3>. QED BY <3>1, <3>3 DEF Orders
  <2>. QED BY <2>1 DEF InOrder
<1>. QED BY <1>11, <1>12

-----------------------------------------------------------------------------
(* Powers of two *)

\* The library knows 2^n as the number of subsets of n things.
LEMMA PowerOfSubsets ==
  ASSUME NEW n \in Nat
  PROVE  IsFiniteSet(SUBSET (1 .. n)) /\ 2^n = Cardinality(SUBSET (1 .. n)) /\ 2^n \in Nat
<1>1. IsFiniteSet(1 .. n) /\ Cardinality(1 .. n) = n
  BY FS_Interval
<1>2. IsFiniteSet(SUBSET (1 .. n)) /\ Cardinality(SUBSET (1 .. n)) = 2^Cardinality(1 .. n)
  BY <1>1, FS_SUBSET
<1>3. Cardinality(SUBSET (1 .. n)) = 2^n
  BY <1>1, <1>2
<1>. QED BY <1>2, <1>3, FS_CardinalityType

\* One thing more doubles them: each subset is there with it and without it.
LEMMA PowerStep ==
  ASSUME NEW n \in Nat
  PROVE  2^(n + 1) = 2 * 2^n
<1>. DEFINE A == SUBSET (1 .. n)
            B == {s \in SUBSET (1 .. n + 1) : n + 1 \in s}
            f == [s \in A |-> s \cup {n + 1}]
<1>1. IsFiniteSet(A) /\ 2^n = Cardinality(A) /\ 2^n \in Nat
  BY PowerOfSubsets
<1>2. 2^(n + 1) = Cardinality(SUBSET (1 .. n + 1))
  <2>. DEFINE m == n + 1
  <2>1. m \in Nat
    OBVIOUS
  <2>. HIDE DEF m
  <2>2. 2^m = Cardinality(SUBSET (1 .. m))
    BY <2>1, PowerOfSubsets
  <2>. QED BY <2>2 DEF m
<1>3. SUBSET (1 .. n + 1) = A \cup B
  <2>1. ASSUME NEW s \in SUBSET (1 .. n + 1), n + 1 \notin s PROVE s \in A
    BY <2>1
  <2>2. ASSUME NEW s \in A PROVE s \in SUBSET (1 .. n + 1)
    OBVIOUS
  <2>. QED BY <2>1, <2>2
<1>4. A \cap B = {}
  OBVIOUS
<1>5. f \in Bijection(A, B)
  <2>1. \A s \in A : s \cup {n + 1} \in B /\ n + 1 \notin s
    OBVIOUS
  <2>2. f \in [A -> B]
    BY <2>1
  <2>3. \A s, t \in A : f[s] = f[t] => s = t
    <3>1. ASSUME NEW s \in A, NEW t \in A, s \cup {n + 1} = t \cup {n + 1} PROVE s = t
      <4>1. n + 1 \notin s /\ n + 1 \notin t
        BY <2>1
      <4>. HIDE DEF A
      <4>. QED BY <3>1, <4>1
    <3>. QED BY <3>1
  <2>4. \A t \in B : \E s \in A : f[s] = t
    <3>1. ASSUME NEW t \in B PROVE t \ {n + 1} \in A /\ f[t \ {n + 1}] = t
      <4>1. t \ {n + 1} \in A
        OBVIOUS
      <4>2. (t \ {n + 1}) \cup {n + 1} = t
        OBVIOUS
      <4>. QED BY <4>1, <4>2
    <3>. QED BY <3>1
  <2>. HIDE DEF A, B, f
  <2>. QED BY <2>2, <2>3, <2>4 DEF Bijection, Injection, IsInjective, Surjection
<1>6. IsFiniteSet(B) /\ Cardinality(B) = Cardinality(A)
  <2>1. ExistsBijection(A, B)
    BY <1>5 DEF ExistsBijection
  <2>. HIDE DEF A, B
  <2>. QED BY <1>1, <2>1, FS_Bijection
<1>. HIDE DEF A, B
<1>7. Cardinality(A \cup B) = Cardinality(A) + Cardinality(B) - Cardinality(A \cap B)
  BY <1>1, <1>6, FS_Union
<1>8. Cardinality(A \cap B) = 0
  BY <1>4, FS_EmptySet
<1>9. 2^(n + 1) = Cardinality(A) + Cardinality(A) - 0
  BY <1>2, <1>3, <1>6, <1>7, <1>8
<1>. DEFINE x == 2^n
<1>10. 2^(n + 1) = x + x - 0 /\ x \in Nat
  BY <1>1, <1>9
<1>. HIDE DEF x
<1>11. 2^(n + 1) = 2 * x
  BY <1>10
<1>. QED BY <1>11 DEF x

\* So they are the powers of two.
LEMMA PowerZero == 2^0 = 1
OBVIOUS

\* A power of two is positive.
LEMMA PowerPositive ==
  ASSUME NEW n \in Nat
  PROVE  2^n \in Nat \ {0}
<1>1. 2^n = Cardinality(SUBSET (1 .. n)) /\ 2^n \in Nat /\ IsFiniteSet(SUBSET (1 .. n))
  BY PowerOfSubsets
<1>2. SUBSET (1 .. n) # {}
  OBVIOUS
<1>. QED BY <1>1, <1>2, FS_EmptySet

\* Exponents add up.
LEMMA PowerSum ==
  ASSUME NEW a \in Nat, NEW b0 \in Nat
  PROVE  2^(a + b0) = 2^a * 2^b0
<1>. DEFINE B == {b \in Nat : 2^(a + b) # 2^a * 2^b}
<1>1. ASSUME B # {} PROVE FALSE
  <2>1. PICK b \in B : \A m \in B : b <= m
    <3>1. B \subseteq Nat
      OBVIOUS
    <3>. HIDE DEF B
    <3>. QED BY <1>1, <3>1, LeastNat
  <2>2. b \in Nat /\ 2^(a + b) # 2^a * 2^b
    OBVIOUS
  <2>3. 2^a \in Nat /\ 2^b \in Nat
    BY <2>2, PowerPositive
  <2>4. CASE b = 0
    BY <2>2, <2>3, <2>4, PowerZero
  <2>5. CASE b # 0
    <3>. DEFINE c == b - 1
    <3>1. c \in Nat /\ b = c + 1 /\ a + b = (a + c) + 1 /\ a + c \in Nat /\ ~(b <= c)
      BY <2>2, <2>5
    <3>2. c \notin B
      BY <2>1, <3>1
    <3>3. 2^(a + c) = 2^a * 2^c
      BY <3>1, <3>2
    <3>. HIDE DEF c
    <3>4. 2^b = 2 * 2^c /\ 2^(a + b) = 2 * 2^(a + c) /\ 2^c \in Nat
      BY <3>1, PowerStep, PowerPositive
    <3>. DEFINE x == 2^a
                y == 2^c
    <3>5. x \in Nat /\ y \in Nat /\ 2 * (x * y) = x * (2 * y)
      <4>1. x \in Nat /\ y \in Nat
        BY <2>3, <3>4
      <4>. HIDE DEF x, y
      <4>. QED BY <4>1
    <3>. QED BY <2>2, <3>3, <3>4, <3>5
  <2>. QED BY <2>4, <2>5
<1>2. b0 \notin B
  BY <1>1
<1>. QED BY <1>2

\* A greater exponent gives a multiple.
LEMMA PowerSplit ==
  ASSUME NEW a \in Nat, NEW b \in Nat, a <= b
  PROVE  /\ b - a \in Nat /\ 2^b = 2^a * 2^(b - a) /\ 2^a <= 2^b
         /\ a < b => \E x \in Nat \ {0} : 2^(b - a) = 2 * x
<1>. DEFINE c == b - a
<1>1. c \in Nat /\ a + c = b
  OBVIOUS
<1>. HIDE DEF c
<1>2. 2^b = 2^a * 2^c
  BY <1>1, PowerSum
<1>. DEFINE x == 2^a
            y == 2^c
<1>3. x \in Nat \ {0} /\ y \in Nat \ {0}
  BY <1>1, PowerPositive
<1>4. x <= x * y
  <2>. HIDE DEF x, y
  <2>. QED BY <1>3
<1>5. ASSUME a < b PROVE \E z \in Nat \ {0} : 2^c = 2 * z
  <2>. DEFINE d == c - 1
  <2>1. d \in Nat /\ c = d + 1
    BY <1>1, <1>5
  <2>. HIDE DEF d
  <2>2. 2^c = 2 * 2^d /\ 2^d \in Nat \ {0}
    BY <2>1, PowerStep, PowerPositive
  <2>. QED BY <2>2
<1>. QED BY <1>1, <1>2, <1>4, <1>5 DEF c

-----------------------------------------------------------------------------
(* Division *)

\* Quotient and remainder, also of a negative number.
LEMMA DivIs ==
  ASSUME NEW n \in Int, NEW d \in Nat \ {0}
  PROVE  n \div d \in Int /\ n % d \in 0 .. d - 1 /\ n = d * (n \div d) + (n % d)
OBVIOUS

\* Quotient and remainder are the only such numbers, also of a negative one.
LEMMA DivUnique ==
  ASSUME NEW n \in Int, NEW d \in Nat \ {0}, NEW q \in Int, NEW r \in 0 .. d - 1, n = d * q + r
  PROVE  n \div d = q /\ n % d = r
<1>. DEFINE p == n \div d
            s == n % d
<1>1. p \in Int /\ s \in 0 .. d - 1 /\ n = d * p + s
  BY DivIs
<1>. HIDE DEF p, s
<1>2. ASSUME p < q PROVE FALSE
  <2>1. PICK x \in Nat : q = p + 1 + x
    <3>1. q - p - 1 \in Nat /\ q = p + 1 + (q - p - 1)
      BY <1>1, <1>2
    <3>. QED BY <3>1
  <2>2. d * q = d * p + d + d * x /\ d * x \in Nat /\ d * p \in Int
    BY <1>1, <2>1
  <2>. QED BY <1>1, <2>2
<1>3. ASSUME q < p PROVE FALSE
  <2>1. PICK x \in Nat : p = q + 1 + x
    <3>1. p - q - 1 \in Nat /\ p = q + 1 + (p - q - 1)
      BY <1>1, <1>3
    <3>. QED BY <3>1
  <2>2. d * p = d * q + d + d * x /\ d * x \in Nat /\ d * q \in Int
    BY <1>1, <2>1
  <2>. QED BY <1>1, <2>2
<1>4. p = q
  BY <1>1, <1>2, <1>3
<1>5. s = r
  BY <1>1, <1>4
<1>. QED BY <1>4, <1>5 DEF p, s

\* A natural's quotient is one.
LEMMA DivNat ==
  ASSUME NEW n \in Nat, NEW d \in Nat \ {0}
  PROVE  n \div d \in Nat /\ n % d \in 0 .. d - 1 /\ n = d * (n \div d) + (n % d)
OBVIOUS

-----------------------------------------------------------------------------
(* Bits *)

BitAt(n, b) == (n \div 2^b) % 2

\* The number whose bits are the given ones.
Word(bits) == SumFunctionOnSet([b \in Nat |-> 2^b], bits)

Ones(n, k) == {b \in 0 .. k - 1 : BitAt(n, b) = 1}

\* The bits above a bit are half of those from it on.
LEMMA BitStep ==
  ASSUME NEW n \in Nat, NEW b \in Nat
  PROVE  /\ n \div 2^b \in Nat /\ n \div 2^(b + 1) \in Nat /\ BitAt(n, b) \in {0, 1}
         /\ n \div 2^b = 2 * (n \div 2^(b + 1)) + BitAt(n, b)
<1>. DEFINE d == 2^b
            q == n \div d
            r == n % d
            p == q \div 2
            c == q % 2
<1>1. d \in Nat \ {0} /\ 2^(b + 1) = 2 * d
  BY PowerStep, PowerPositive
<1>. HIDE DEF d
<1>2. q \in Nat /\ r \in 0 .. d - 1 /\ n = d * q + r
  BY <1>1, DivNat
<1>. HIDE DEF q, r
<1>3. p \in Nat /\ c \in 0 .. 1 /\ q = 2 * p + c
  BY <1>2
<1>. HIDE DEF p, c
<1>4. n = (2 * d) * p + (d * c + r) /\ d * c + r \in 0 .. 2 * d - 1 /\ 2 * d \in Nat \ {0}
  <2>1. d * q = (2 * d) * p + d * c
    BY <1>1, <1>3
  <2>2. d * c \in {0, d}
    BY <1>1, <1>3
  <2>. QED BY <1>1, <1>2, <1>3, <2>1, <2>2
<1>5. n \div (2 * d) = p
  <2>. DEFINE e == 2 * d
              t == d * c + r
  <2>1. e \in Nat \ {0} /\ t \in 0 .. e - 1 /\ n = e * p + t
    BY <1>4
  <2>. HIDE DEF e, t
  <2>2. n \div e = p
    BY <1>3, <2>1, DivUnique
  <2>. QED BY <2>2 DEF e
<1>6. BitAt(n, b) = c
  BY DEF BitAt, c, q, d
<1>7. n \div 2^b = q
  BY DEF q, d
<1>. QED BY <1>1, <1>2, <1>3, <1>5, <1>6, <1>7

\* Words of bits are sums of powers.
LEMMA WordIs ==
  ASSUME NEW bits, bits \subseteq Nat, IsFiniteSet(bits)
  PROVE  /\ SumFunctionOnSet([b \in bits |-> 2^b], bits) = Word(bits)
         /\ Word(bits) \in Int
         /\ \A b \in bits : Word(bits) = 2^b + Word(bits \ {b})
<1>. DEFINE f == [b \in Nat |-> 2^b]
            g == [b \in bits |-> 2^b]
<1>1. \A b \in Nat : f[b] \in Nat
  BY PowerPositive
<1>2. Numbers(f, bits) /\ Numbers(g, bits) /\ \A b \in bits : f[b] = g[b] /\ f[b] = 2^b
  BY <1>1 DEF Numbers
<1>. HIDE DEF f, g
<1>3. SumFunctionOnSet(f, bits) = SumFunctionOnSet(g, bits)
  BY <1>2, SumSame
<1>4. /\ SumFunctionOnSet(f, bits) \in Int
      /\ \A b \in bits : SumFunctionOnSet(f, bits) = f[b] + SumFunctionOnSet(f, bits \ {b})
  BY <1>2, SumRemove
<1>. QED BY <1>2, <1>3, <1>4 DEF Word, f, g

\* No bits are zero.
LEMMA WordEmpty == Word({}) = 0
BY SumEmpty DEF Word

\* Words without a common bit add up.
LEMMA WordUnion ==
  ASSUME NEW S, NEW T, S \subseteq Nat, T \subseteq Nat, IsFiniteSet(S), IsFiniteSet(T), S \cap T = {}
  PROVE  Word(S \cup T) = Word(S) + Word(T)
<1>. DEFINE f == [b \in Nat |-> 2^b]
<1>1. \A b \in Nat : f[b] \in Nat
  BY PowerPositive
<1>2. Numbers(f, S \cup T)
  BY <1>1 DEF Numbers
<1>. HIDE DEF f
<1>3. SumFunctionOnSet(f, S \cup T) = SumFunctionOnSet(f, S) + SumFunctionOnSet(f, T)
  BY <1>2, SumUnion
<1>. QED BY <1>3 DEF Word, f

\* The bits of a number below k are finitely many.
LEMMA OnesFinite ==
  ASSUME NEW n \in Nat, NEW k \in Nat
  PROVE  Ones(n, k) \subseteq Nat /\ IsFiniteSet(Ones(n, k)) /\ Ones(n, k) \in SUBSET (0 .. k - 1)
<1>1. IsFiniteSet(0 .. k - 1)
  BY FS_Interval
<1>2. Ones(n, k) \in SUBSET (0 .. k - 1)
  BY DEF Ones
<1>. QED BY <1>1, <1>2, FS_Subset

\* The lowest k bits of a number are its remainder.
LEMMA LowWord ==
  ASSUME NEW n \in Nat, NEW k0 \in Nat
  PROVE  n = 2^k0 * (n \div 2^k0) + Word(Ones(n, k0))
<1>. DEFINE B == {k \in Nat : n # 2^k * (n \div 2^k) + Word(Ones(n, k))}
<1>1. ASSUME B # {} PROVE FALSE
  <2>1. PICK k \in B : \A m \in B : k <= m
    <3>1. B \subseteq Nat
      OBVIOUS
    <3>. HIDE DEF B
    <3>. QED BY <1>1, <3>1, LeastNat
  <2>2. k \in Nat /\ n # 2^k * (n \div 2^k) + Word(Ones(n, k))
    OBVIOUS
  <2>3. CASE k = 0
    <3>1. Ones(n, k) = {}
      BY <2>3 DEF Ones
    <3>2. Word(Ones(n, k)) = 0
      BY <3>1, WordEmpty
    <3>3. 2^k = 1 /\ n \div 1 = n
      BY <2>3, PowerZero
    <3>. QED BY <2>2, <3>2, <3>3
  <2>4. CASE k # 0
    <3>. DEFINE c == k - 1
                x == 2^c
                q == n \div 2^c
                p == n \div 2^k
                bit == BitAt(n, c)
                low == Word(Ones(n, c))
    <3>1. c \in Nat /\ k = c + 1 /\ ~(k <= c)
      BY <2>2, <2>4
    <3>2. c \notin B
      BY <2>1, <3>1
    <3>3. n = x * q + low
      BY <3>1, <3>2
    <3>. HIDE DEF c
    <3>4. x \in Nat /\ 2^k = 2 * x
      BY <3>1, PowerStep, PowerPositive
    <3>5. q \in Nat /\ p \in Nat /\ bit \in {0, 1} /\ q = 2 * p + bit
      BY <3>1, BitStep
    <3>6. low \in Int /\ Ones(n, c) \subseteq Nat /\ IsFiniteSet(Ones(n, c)) /\ c \notin Ones(n, c)
      <4>1. Ones(n, c) \subseteq Nat /\ IsFiniteSet(Ones(n, c)) /\ Ones(n, c) \in SUBSET (0 .. c - 1)
        BY <3>1, OnesFinite
      <4>2. c \notin Ones(n, c)
        BY <3>1, <4>1
      <4>. QED BY <4>1, <4>2, WordIs
    <3>7. Word(Ones(n, k)) = low + x * bit
      <4>1. CASE bit = 1
        <5>1. Ones(n, k) = Ones(n, c) \cup {c}
          BY <3>1, <4>1 DEF Ones
        <5>2. IsFiniteSet(Ones(n, c) \cup {c}) /\ Ones(n, c) \cup {c} \subseteq Nat
          BY <3>1, <3>6, FS_AddElement
        <5>3. (Ones(n, c) \cup {c}) \ {c} = Ones(n, c)
          BY <3>6
        <5>. DEFINE both == Ones(n, c) \cup {c}
        <5>4. c \in both /\ both \subseteq Nat /\ IsFiniteSet(both) /\ both \ {c} = Ones(n, c)
          BY <5>2, <5>3
        <5>. HIDE DEF both
        <5>5. Word(both) = 2^c + Word(both \ {c})
          BY <5>4, WordIs
        <5>6. Word(Ones(n, k)) = x + low
          BY <5>1, <5>4, <5>5 DEF both
        <5>. HIDE DEF x, low, bit
        <5>. QED BY <3>4, <3>6, <4>1, <5>6
      <4>2. CASE bit = 0
        <5>1. Ones(n, k) = Ones(n, c)
          BY <3>1, <4>2 DEF Ones
        <5>2. Word(Ones(n, k)) = low
          BY <5>1
        <5>. HIDE DEF x, low, bit
        <5>. QED BY <3>4, <3>6, <4>2, <5>2
      <4>. QED BY <3>5, <4>1, <4>2
    <3>8. n # (2 * x) * p + (low + x * bit)
      BY <2>2, <3>4, <3>7
    <3>. HIDE DEF x, q, p, bit, low
    <3>9. x * q = (2 * x) * p + x * bit
      BY <3>4, <3>5
    <3>10. x * q \in Int /\ (2 * x) * p \in Int /\ x * bit \in Int
      BY <3>4, <3>5
    <3>. QED BY <3>3, <3>6, <3>8, <3>9, <3>10
  <2>. QED BY <2>3, <2>4
<1>2. k0 \notin B
  BY <1>1
<1>. QED BY <1>2

\* A number below 2^k is the word of its bits.
LEMMA WordOfOnes ==
  ASSUME NEW k \in Nat, NEW n \in Nat, n < 2^k
  PROVE  Word(Ones(n, k)) = n
<1>. DEFINE d == 2^k
<1>1. d \in Nat \ {0} /\ n = d * 0 + n /\ n \in 0 .. d - 1
  BY PowerPositive
<1>2. n = d * (n \div d) + Word(Ones(n, k))
  BY LowWord
<1>3. Word(Ones(n, k)) \in Int
  BY OnesFinite, WordIs
<1>. HIDE DEF d
<1>4. n \div d = 0
  BY <1>1, DivUnique
<1>. QED BY <1>1, <1>2, <1>3, <1>4

\* How a bit is read off a number written as a multiple of its power and a remainder.
Splits(n, b, q, r) == q \in Nat /\ r \in 0 .. 2^b - 1 /\ n = 2^b * q + r

\* The bit is the parity of the quotient.
LEMMA BitFrom ==
  ASSUME NEW b \in Nat, NEW n \in Nat, NEW q, NEW r, Splits(n, b, q, r)
  PROVE  n \div 2^b = q /\ BitAt(n, b) = q % 2
<1>. DEFINE d == 2^b
<1>1. d \in Nat \ {0} /\ q \in Nat /\ r \in 0 .. d - 1 /\ n = d * q + r
  BY PowerPositive DEF Splits
<1>. HIDE DEF d
<1>2. n \div d = q
  BY <1>1, DivUnique
<1>. QED BY <1>2 DEF BitAt, d

\* The parity of an even and of an odd number.
LEMMA EvenOdd ==
  ASSUME NEW x \in Nat
  PROVE  (2 * x) % 2 = 0 /\ (2 * x + 1) % 2 = 1
OBVIOUS

\* A smaller power of two divides a greater one an even number of times.
LEMMA PowerDouble ==
  ASSUME NEW a \in Nat, NEW b \in Nat, a < b
  PROVE  \E x \in Nat \ {0} : 2^b = 2^a * (2 * x)
<1>1. a <= b
  OBVIOUS
<1>2. 2^b = 2^a * 2^(b - a) /\ \E x \in Nat \ {0} : 2^(b - a) = 2 * x
  BY <1>1, PowerSplit
<1>. QED BY <1>2

\* The bits of 2^w - 2^a are those from a up to w.
LEMMA BlockBits ==
  ASSUME NEW a \in Nat, NEW w \in Nat, a <= w, NEW b \in Nat
  PROVE  2^w - 2^a \in Nat /\ (BitAt(2^w - 2^a, b) = 1 <=> a <= b /\ b < w)
<1>. DEFINE n == 2^w - 2^a
            d == 2^b
<1>1. 2^a \in Nat \ {0} /\ 2^w \in Nat \ {0} /\ 2^a <= 2^w /\ d \in Nat \ {0}
  BY PowerPositive, PowerSplit
<1>2. n \in Nat
  BY <1>1
<1>3. CASE b < a
  <2>1. b < w
    BY <1>3
  <2>2. PICK x \in Nat, y \in Nat : 2^w = d * (2 * x) /\ 2^a = d * (2 * y)
    <3>1. \E x \in Nat : 2^w = d * (2 * x)
      BY <2>1, PowerDouble
    <3>2. \E y \in Nat : 2^a = d * (2 * y)
      BY <1>3, PowerDouble
    <3>. QED BY <3>1, <3>2
  <2>. DEFINE u == 2^w
              v == 2^a
  <2>3. u \in Nat /\ v \in Nat /\ v <= u /\ u = d * (2 * x) /\ v = d * (2 * y) /\ d \in Nat \ {0} /\ n = u - v
    BY <1>1, <2>2
  <2>. HIDE DEF u, v, n, d
  <2>4. x - y \in Nat
    <3>1. ASSUME y > x PROVE FALSE
      <4>1. PICK z \in Nat : y = x + 1 + z
        <5>1. y - x - 1 \in Nat /\ y = x + 1 + (y - x - 1)
          BY <3>1
        <5>. QED BY <5>1
      <4>2. d * (2 * y) = d * (2 * x) + 2 * d + 2 * (d * z) /\ d * z \in Nat /\ d * (2 * x) \in Nat
        BY <2>3, <4>1
      <4>. QED BY <2>3, <4>2
    <3>. QED BY <3>1
  <2>. DEFINE z == x - y
              q == 2 * z
  <2>5. n = d * q + 0 /\ q \in Nat /\ z \in Nat /\ 0 \in 0 .. d - 1
    BY <2>3, <2>4
  <2>6. BitAt(n, b) = 0
    <3>1. q % 2 = 0
      <4>. HIDE DEF z
      <4>. QED BY <2>5, EvenOdd
    <3>. HIDE DEF z, q
    <3>2. Splits(n, b, q, 0)
      BY <2>5 DEF Splits, d
    <3>. QED BY <1>2, <3>1, <3>2, BitFrom
  <2>. QED BY <1>2, <1>3, <2>6 DEF n
<1>4. CASE a <= b /\ b < w
  <2>1. 2^a <= d
    BY <1>4, PowerSplit
  <2>2. PICK x \in Nat \ {0} : 2^w = d * (2 * x)
    BY <1>4, PowerDouble
  <2>. DEFINE u == 2^w
              v == 2^a
              y == x - 1
              r == d - v
  <2>3. u \in Nat /\ v \in Nat \ {0} /\ v <= d /\ u = d * (2 * x) /\ d \in Nat \ {0} /\ n = u - v
    BY <1>1, <2>1, <2>2
  <2>. HIDE DEF u, v, n
  <2>4. y \in Nat /\ x = y + 1 /\ r \in 0 .. d - 1 /\ d = r + v
    BY <2>3
  <2>5. n = d * (2 * y + 1) + r
    <3>. HIDE DEF y, r, d
    <3>1. d * (2 * x) = d * (2 * y + 1) + d
      BY <2>3, <2>4
    <3>2. d * (2 * y + 1) \in Nat
      BY <2>3, <2>4
    <3>. QED BY <2>3, <2>4, <3>1, <3>2
  <2>6. BitAt(n, b) = 1
    <3>. DEFINE q == 2 * y + 1
    <3>1. q % 2 = 1 /\ q \in Nat /\ n = d * q + r
      <4>. HIDE DEF y, r, d
      <4>. QED BY <2>4, <2>5, EvenOdd
    <3>. HIDE DEF y, r, q
    <3>2. Splits(n, b, q, r)
      BY <2>4, <3>1 DEF Splits
    <3>. QED BY <1>2, <3>1, <3>2, BitFrom
  <2>. QED BY <1>2, <1>4, <2>6 DEF n
<1>5. CASE w <= b
  <2>1. 2^w <= d
    BY <1>5, PowerSplit
  <2>2. n \in 0 .. d - 1 /\ n = d * 0 + n
    BY <1>1, <1>2, <2>1
  <2>3. BitAt(n, b) = 0
    <3>. HIDE DEF n
    <3>1. Splits(n, b, 0, n)
      BY <2>2 DEF Splits
    <3>2. BitAt(n, b) = 0 % 2
      BY <1>2, <3>1, BitFrom
    <3>. QED BY <3>2
  <2>. QED BY <1>2, <1>5, <2>3 DEF n
<1>. QED BY <1>3, <1>4, <1>5

\* A multiple of 2^h has no bit below h.
LEMMA MultipleBits ==
  ASSUME NEW h \in Nat, NEW q \in Nat, NEW b \in Nat, b < h
  PROVE  BitAt(2^h * q, b) = 0
<1>. DEFINE d == 2^b
<1>1. PICK x \in Nat : 2^h = d * (2 * x)
  BY PowerDouble
<1>2. d \in Nat \ {0}
  BY PowerPositive
<1>. DEFINE n == 2^h * q
            y == x * q
            e == 2 * y
<1>3. y \in Nat /\ e \in Nat /\ e % 2 = 0
  <2>1. y \in Nat
    OBVIOUS
  <2>. HIDE DEF y
  <2>. QED BY <2>1, EvenOdd
<1>4. n = d * e + 0 /\ n \in Nat
  <2>1. n = (d * (2 * x)) * q
    BY <1>1
  <2>. HIDE DEF d
  <2>2. (d * (2 * x)) * q = d * (2 * (x * q))
    BY <1>2
  <2>3. n = d * e
    BY <2>1, <2>2
  <2>. HIDE DEF e, n
  <2>. QED BY <1>2, <1>3, <2>3
<1>. HIDE DEF n, y, e
<1>5. Splits(n, b, e, 0)
  BY <1>2, <1>3, <1>4 DEF Splits
<1>6. BitAt(n, b) = 0
  BY <1>3, <1>4, <1>5, BitFrom
<1>. QED BY <1>6 DEF n

\* Numbers of w bits are the same if their bits are.
LEMMA SameBits ==
  ASSUME NEW w \in Nat, NEW m \in 0 .. 2^w - 1, NEW n \in 0 .. 2^w - 1,
         \A b \in 0 .. w - 1 : BitAt(m, b) = 1 <=> BitAt(n, b) = 1
  PROVE  m = n
<1>1. m \in Nat /\ n \in Nat /\ m < 2^w /\ n < 2^w
  BY PowerPositive
<1>2. Ones(m, w) = Ones(n, w)
  BY DEF Ones
<1>. QED BY <1>1, <1>2, WordOfOnes

\* Masking a number of w bits with those from h on takes its remainder away.
LEMMA MaskedWord ==
  ASSUME NEW w \in Nat, NEW h \in Nat, h <= w, NEW n \in 0 .. 2^w - 1
  PROVE  Word({b \in 0 .. w - 1 : BitAt(n, b) = 1 /\ BitAt(2^w - 2^h, b) = 1}) = 2^h * (n \div 2^h)
<1>. DEFINE high == {b \in 0 .. w - 1 : BitAt(n, b) = 1 /\ BitAt(2^w - 2^h, b) = 1}
            low == Ones(n, h)
<1>0. n \in Nat /\ n < 2^w
  BY PowerPositive
<1>1. \A b \in 0 .. w - 1 : BitAt(2^w - 2^h, b) = 1 <=> h <= b
  BY BlockBits
<1>2. Ones(n, w) = high \cup low /\ high \cap low = {}
  BY <1>1 DEF Ones
<1>3. low \subseteq Nat /\ IsFiniteSet(low)
  BY <1>0, OnesFinite
<1>4. high \subseteq Nat /\ IsFiniteSet(high)
  <2>. DEFINE all == 0 .. w - 1
  <2>1. high \subseteq all /\ IsFiniteSet(all) /\ all \subseteq Nat
    BY FS_Interval
  <2>. HIDE DEF high, all
  <2>. QED BY <2>1, FS_Subset
<1>. HIDE DEF high, low
<1>5. Word(high \cup low) = Word(high) + Word(low) /\ Word(high) \in Int /\ Word(low) \in Int
  BY <1>2, <1>3, <1>4, WordUnion, WordIs
<1>6. n = Word(high) + Word(low)
  BY <1>0, <1>2, <1>5, WordOfOnes
<1>. DEFINE z == 2^h * (n \div 2^h)
<1>7. n = z + Word(low) /\ z \in Int
  <2>1. n = z + Word(low)
    BY <1>0, LowWord DEF low
  <2>2. 2^h \in Nat /\ n \div 2^h \in Nat
    BY <1>0, PowerPositive, DivNat
  <2>. QED BY <2>1, <2>2
<1>. HIDE DEF z
<1>8. Word(high) = z
  BY <1>5, <1>6, <1>7
<1>. QED BY <1>8 DEF high, z

\* Setting the bits below h of a multiple of 2^h adds them.
LEMMA FilledWord ==
  ASSUME NEW w \in Nat, NEW h \in Nat, h <= w, NEW q \in Nat, 2^h * q < 2^w
  PROVE  Word({b \in 0 .. w - 1 : BitAt(2^h * q, b) = 1 \/ BitAt(2^h - 1, b) = 1}) = 2^h * q + (2^h - 1)
<1>. DEFINE n == 2^h * q
            m == 2^h - 1
            A == Ones(n, w)
            C == Ones(m, w)
<1>1. 2^h \in Nat \ {0} /\ 2^w \in Nat \ {0} /\ 2^h <= 2^w
  BY PowerPositive, PowerSplit
<1>2. n \in Nat /\ n < 2^w /\ m \in Nat /\ m < 2^w
  BY <1>1
<1>3. \A b \in 0 .. w - 1 : BitAt(m, b) = 1 <=> b < h
  <2>1. m = 2^h - 2^0
    BY PowerZero
  <2>. HIDE DEF m
  <2>. DEFINE zero == 0
  <2>2. zero \in Nat /\ zero <= h
    OBVIOUS
  <2>. HIDE DEF zero
  <2>3. \A b \in Nat : BitAt(2^h - 2^zero, b) = 1 <=> zero <= b /\ b < h
    BY <2>2, BlockBits
  <2>. QED BY <2>1, <2>3 DEF zero
<1>4. \A b \in 0 .. w - 1 : b < h => BitAt(n, b) = 0
  <2>1. \A b \in Nat : b < h => BitAt(2^h * q, b) = 0
    BY MultipleBits
  <2>. QED BY <2>1
<1>. HIDE DEF n, m
<1>5. A \cap C = {} /\ A \cup C = {b \in 0 .. w - 1 : BitAt(n, b) = 1 \/ BitAt(m, b) = 1}
  BY <1>3, <1>4 DEF Ones
<1>6. A \subseteq Nat /\ IsFiniteSet(A) /\ C \subseteq Nat /\ IsFiniteSet(C)
  BY <1>2, OnesFinite
<1>7. Word(A) = n /\ Word(C) = m
  BY <1>2, WordOfOnes
<1>. HIDE DEF A, C
<1>8. Word(A \cup C) = n + m
  BY <1>5, <1>6, <1>7, WordUnion
<1>9. Word({b \in 0 .. w - 1 : BitAt(n, b) = 1 \/ BitAt(m, b) = 1}) = n + m
  BY <1>5, <1>8
<1>. QED BY <1>9 DEF n, m
=============================================================================
