----------------------------- MODULE SumProofs -----------------------------
(***************************************************************************)
(* Facts about the sums with which the accounts of the bus, of the paper   *)
(* trader and of the risk manager are stated.  SumFunctionOnSet(F, T) is   *)
(* evaluated by a recursion over the subsets of T that takes out elements  *)
(* in an unspecified order; for a finite T the function it recurses with   *)
(* exists and any element may be taken out first.                          *)
(*                                                                         *)
(* Induction is by sets of numbers and of sets, from the fact that a set   *)
(* of natural numbers has a least element.                                 *)
(***************************************************************************)
EXTENDS Integers, Functions, FiniteSetTheorems, WellFoundedInduction, TLAPS

\* A nonempty set of natural numbers has a least element.
LEMMA LeastNatural ==
    ASSUME NEW S \in SUBSET Nat, S # {}
    PROVE  \E n \in S : \A m \in S : n <= m
<1> DEFINE LT == {ss \in Nat \X Nat : ss[1] < ss[2]}
<1>1. IsWellFoundedOn(LT, Nat)
    BY NatLessThanWellFounded DEF OpToRel
<1> HIDE DEF LT
<1>2. PICK n \in S : \A m \in S : ~(<<m, n>> \in LT)
    BY <1>1, WFMin
<1>3. \A m \in S : ~(m < n)
    BY <1>2 DEF LT
<1>4. QED BY <1>3

\* A set of numbers that has 0 and the successor of each of its members has them all.
LEMMA NumberInduction ==
    ASSUME NEW P, 0 \in P, \A n \in Nat : n \in P => n + 1 \in P
    PROVE  Nat \subseteq P
<1> SUFFICES ASSUME Nat \ P # {} PROVE FALSE
    OBVIOUS
<1>1. PICK n \in Nat \ P : \A m \in Nat \ P : n <= m
    BY LeastNatural
<1>2. n # 0 /\ n - 1 \in Nat /\ ~(n <= n - 1) /\ n - 1 + 1 = n
    BY <1>1
<1>3. n - 1 \in P
    BY <1>1, <1>2
<1>4. QED BY <1>1, <1>2, <1>3

\* A set of sets that has every S whose subsets of one element less it has.
LEMMA SubsetInduction ==
    ASSUME NEW T, IsFiniteSet(T), NEW P,
           {} \in P,
           \A S \in SUBSET T : S # {} /\ (\A x \in S : S \ {x} \in P) => S \in P
    PROVE  SUBSET T \subseteq P
<1> DEFINE N == {n \in Nat : \A S \in SUBSET T : Cardinality(S) <= n => S \in P}
<1>1. \A S \in SUBSET T : IsFiniteSet(S) /\ Cardinality(S) \in Nat
    BY FS_Subset, FS_CardinalityType
<1>2. \A S \in SUBSET T : Cardinality(S) = 0 => S = {}
    BY <1>1, FS_EmptySet
<1>3. 0 \in N
    BY <1>1, <1>2
<1>4. ASSUME NEW n \in N PROVE n + 1 \in N
    <2>1. SUFFICES ASSUME NEW S \in SUBSET T, Cardinality(S) <= n + 1, S # {} PROVE S \in P
        OBVIOUS
    <2>2. ASSUME NEW x \in S PROVE S \ {x} \in P
        <3>1. Cardinality(S \ {x}) = Cardinality(S) - 1
            BY <1>1, FS_RemoveElement
        <3>2. Cardinality(S \ {x}) <= n
            BY <1>1, <2>1, <3>1
        <3>3. QED BY <3>2
    <2>3. QED BY <2>1, <2>2
<1> HIDE DEF N
<1>5. Nat \subseteq N
    BY <1>3, <1>4, NumberInduction
<1>6. \A S \in SUBSET T : Cardinality(S) \in N
    BY <1>1, <1>5
<1>7. QED BY <1>1, <1>6 DEF N

----------------------------------------------------------------------------

Chosen(s) == CHOOSE x \in s : TRUE

\* g is the function with which the sum of F over T recurses.
Recursion(g, F, T) ==
    g = [s \in SUBSET T |-> IF s = {} THEN 0 ELSE F[Chosen(s)] + g[s \ {Chosen(s)}]]

\* That function exists.
LEMMA RecursionExists ==
    ASSUME NEW F, NEW T, IsFiniteSet(T)
    PROVE  \E g : Recursion(g, F, T)
<1> DEFINE Small(n) == {s \in SUBSET T : Cardinality(s) <= n}
           Below(g, n) == g = [s \in Small(n) |-> IF s = {} THEN 0
                                                  ELSE F[Chosen(s)] + g[s \ {Chosen(s)}]]
           N == {n \in Nat : \E g : Below(g, n)}
<1>1. \A s \in SUBSET T : IsFiniteSet(s) /\ Cardinality(s) \in Nat
    BY FS_Subset, FS_CardinalityType
<1>2. 0 \in N
    <2> DEFINE g == [s \in Small(0) |-> 0]
    <2>1. \A s \in Small(0) : s = {}
        BY <1>1, FS_EmptySet
    <2>2. Below(g, 0)
        BY <2>1
    <2> HIDE DEF Below
    <2>3. QED BY <2>2
<1>3. ASSUME NEW n \in N PROVE n + 1 \in N
    <2>1. PICK g : Below(g, n)
        OBVIOUS
    <2> DEFINE h == [s \in Small(n + 1) |-> IF s = {} THEN 0
                                            ELSE F[Chosen(s)] + g[s \ {Chosen(s)}]]
    <2>2. \A s \in Small(n) : h[s] = g[s]
        <3>1. \A s \in Small(n) : s \in Small(n + 1)
            BY <1>1
        <3>2. \A s \in Small(n) : g[s] = IF s = {} THEN 0 ELSE F[Chosen(s)] + g[s \ {Chosen(s)}]
            BY <2>1
        <3> HIDE DEF Small
        <3>3. QED BY <3>1, <3>2
    <2>3. \A s \in Small(n + 1) : s # {} => s \ {Chosen(s)} \in Small(n)
        <3>1. SUFFICES ASSUME NEW s \in Small(n + 1), s # {} PROVE s \ {Chosen(s)} \in Small(n)
            OBVIOUS
        <3>2. Chosen(s) \in s
            BY <3>1 DEF Chosen
        <3>3. Cardinality(s \ {Chosen(s)}) = Cardinality(s) - 1
            BY <1>1, <3>2, FS_RemoveElement
        <3>4. QED BY <1>1, <3>1, <3>3
    <2>4. Below(h, n + 1)
        <3> HIDE DEF Small
        <3>1. \A s \in Small(n + 1) :
                 (IF s = {} THEN 0 ELSE F[Chosen(s)] + g[s \ {Chosen(s)}])
                    = (IF s = {} THEN 0 ELSE F[Chosen(s)] + h[s \ {Chosen(s)}])
            BY <2>2, <2>3
        <3>2. QED BY <3>1
    <2> HIDE DEF Below
    <2>5. QED BY <2>4
<1> HIDE DEF N
<1>4. Cardinality(T) \in N
    BY <1>1, <1>2, <1>3, NumberInduction DEF N
<1>5. PICK g : Below(g, Cardinality(T))
    BY <1>4 DEF N
<1>6. Small(Cardinality(T)) = SUBSET T
    BY FS_Subset
<1>7. QED BY <1>5, <1>6 DEF Recursion

\* The sum over T is what that function gives for T.
LEMMA SumByRecursion ==
    ASSUME NEW F, NEW T, IsFiniteSet(T)
    PROVE  \E g : Recursion(g, F, T) /\ SumFunctionOnSet(F, T) = g[T]
<1> DEFINE c == CHOOSE g : Recursion(g, F, T)
<1>1. Recursion(c, F, T)
    BY RecursionExists
<1>2. SumFunctionOnSet(F, T) = c[T]
    BY DEF SumFunctionOnSet, FoldFunctionOnSet, MapThenFoldSet, Recursion, Chosen
<1> HIDE DEF c
<1>3. QED BY <1>1, <1>2

\* The functions of two sets agree on the subsets of both.
LEMMA RecursionsAgree ==
    ASSUME NEW F, NEW T, IsFiniteSet(T), NEW U \in SUBSET T,
           NEW g, Recursion(g, F, T), NEW h, Recursion(h, F, U)
    PROVE  \A s \in SUBSET U : g[s] = h[s]
<1> DEFINE P == {s \in SUBSET U : g[s] = h[s]}
<1>1. /\ \A s \in SUBSET U : g[s] = IF s = {} THEN 0 ELSE F[Chosen(s)] + g[s \ {Chosen(s)}]
      /\ \A s \in SUBSET U : h[s] = IF s = {} THEN 0 ELSE F[Chosen(s)] + h[s \ {Chosen(s)}]
    BY DEF Recursion
<1>2. {} \in P
    BY <1>1
<1>3. ASSUME NEW S \in SUBSET U, S # {}, \A x \in S : S \ {x} \in P PROVE S \in P
    <2>1. Chosen(S) \in S
        BY <1>3 DEF Chosen
    <2>2. g[S \ {Chosen(S)}] = h[S \ {Chosen(S)}]
        BY <1>3, <2>1
    <2>3. QED BY <1>1, <1>3, <2>2
<1>4. IsFiniteSet(U)
    BY FS_Subset
<1> HIDE DEF P
<1>5. SUBSET U \subseteq P
    BY <1>2, <1>3, <1>4, SubsetInduction
<1>6. QED BY <1>5 DEF P

\* The sum over the empty set.
LEMMA SumOverEmpty == ASSUME NEW F PROVE SumFunctionOnSet(F, {}) = 0
<1>1. PICK g : Recursion(g, F, {}) /\ SumFunctionOnSet(F, {}) = g[{}]
    BY SumByRecursion, FS_EmptySet
<1>2. g[{}] = 0
    BY <1>1 DEF Recursion
<1>3. QED BY <1>1, <1>2

\* The chosen element is taken out first.
LEMMA SumTakesChosen ==
    ASSUME NEW F, NEW T, IsFiniteSet(T), T # {}
    PROVE  SumFunctionOnSet(F, T) = F[Chosen(T)] + SumFunctionOnSet(F, T \ {Chosen(T)})
<1> DEFINE U == T \ {Chosen(T)}
<1>1. PICK g : Recursion(g, F, T) /\ SumFunctionOnSet(F, T) = g[T]
    BY SumByRecursion
<1>2. IsFiniteSet(U) /\ U \in SUBSET T
    BY FS_Subset
<1> HIDE DEF U
<1>3. PICK h : Recursion(h, F, U) /\ SumFunctionOnSet(F, U) = h[U]
    BY <1>2, SumByRecursion
<1>4. g[U] = h[U]
    BY <1>1, <1>2, <1>3, RecursionsAgree
<1>5. g[T] = F[Chosen(T)] + g[U]
    BY <1>1 DEF Recursion, U
<1>6. QED BY <1>1, <1>3, <1>4, <1>5 DEF U

\* The sum over any part of a finite set of integers is an integer.
LEMMA SumIsInteger ==
    ASSUME NEW F, NEW T, IsFiniteSet(T), \A x \in T : F[x] \in Int
    PROVE  \A S \in SUBSET T : SumFunctionOnSet(F, S) \in Int
<1> DEFINE P == {S \in SUBSET T : SumFunctionOnSet(F, S) \in Int}
<1>1. {} \in P
    BY SumOverEmpty
<1>2. ASSUME NEW S \in SUBSET T, S # {}, \A x \in S : S \ {x} \in P PROVE S \in P
    <2> DEFINE c == Chosen(S)
    <2>1. c \in S
        BY <1>2 DEF Chosen
    <2>2. IsFiniteSet(S)
        BY FS_Subset
    <2>3. SumFunctionOnSet(F, S) = F[c] + SumFunctionOnSet(F, S \ {c})
        BY <1>2, <2>2, SumTakesChosen
    <2>4. F[c] \in Int /\ SumFunctionOnSet(F, S \ {c}) \in Int
        BY <1>2, <2>1
    <2> HIDE DEF c
    <2>5. QED BY <2>3, <2>4
<1> HIDE DEF P
<1>3. SUBSET T \subseteq P
    BY <1>1, <1>2, SubsetInduction
<1>4. QED BY <1>3 DEF P

\* Any element may be taken out first.
LEMMA SumSplits ==
    ASSUME NEW F, NEW T, IsFiniteSet(T), \A x \in T : F[x] \in Int, NEW y \in T
    PROVE  SumFunctionOnSet(F, T) = F[y] + SumFunctionOnSet(F, T \ {y})
<1> DEFINE Sum(S) == SumFunctionOnSet(F, S)
           P == {S \in SUBSET T : \A z \in S : Sum(S) = F[z] + Sum(S \ {z})}
<1>1. {} \in P
    OBVIOUS
<1>2. \A S \in SUBSET T : Sum(S) \in Int
    BY SumIsInteger
<1>3. ASSUME NEW S \in SUBSET T, S # {}, \A x \in S : S \ {x} \in P PROVE S \in P
    <2> DEFINE c == Chosen(S)
    <2>1. c \in S
        BY <1>3 DEF Chosen
    <2>2. IsFiniteSet(S)
        BY FS_Subset
    <2>3. Sum(S) = F[c] + Sum(S \ {c})
        BY <1>3, <2>2, SumTakesChosen
    <2> HIDE DEF c, Sum
    <2>4. ASSUME NEW z \in S PROVE Sum(S) = F[z] + Sum(S \ {z})
        <3>1. CASE z = c
            BY <2>3, <3>1
        <3>2. CASE z # c
            <4> DEFINE R == (S \ {c}) \ {z}
            <4>1. z \in S \ {c} /\ c \in S \ {z} /\ R = (S \ {z}) \ {c}
                BY <2>1, <3>2
            <4>2. Sum(S \ {c}) = F[z] + Sum(R)
                BY <1>3, <2>1, <4>1
            <4>3. Sum(S \ {z}) = F[c] + Sum(R)
                BY <1>3, <4>1
            <4>4. F[z] \in Int /\ F[c] \in Int /\ Sum(R) \in Int
                BY <1>2, <2>1
            <4> HIDE DEF R
            <4>5. QED BY <2>3, <4>2, <4>3, <4>4
        <3>3. QED BY <3>1, <3>2
    <2>5. QED BY <2>4
<1> HIDE DEF P
<1>4. SUBSET T \subseteq P
    BY <1>1, <1>3, SubsetInduction
<1>5. QED BY <1>4 DEF P

\* Two functions that agree on a set have the same sum over it.
LEMMA SumsAgree ==
    ASSUME NEW F, NEW G, NEW T, IsFiniteSet(T), \A x \in T : F[x] = G[x]
    PROVE  SumFunctionOnSet(F, T) = SumFunctionOnSet(G, T)
<1> DEFINE P == {S \in SUBSET T : SumFunctionOnSet(F, S) = SumFunctionOnSet(G, S)}
<1>1. {} \in P
    BY SumOverEmpty
<1>2. ASSUME NEW S \in SUBSET T, S # {}, \A x \in S : S \ {x} \in P PROVE S \in P
    <2>1. Chosen(S) \in S
        BY <1>2 DEF Chosen
    <2>2. IsFiniteSet(S)
        BY FS_Subset
    <2>3. /\ SumFunctionOnSet(F, S) = F[Chosen(S)] + SumFunctionOnSet(F, S \ {Chosen(S)})
          /\ SumFunctionOnSet(G, S) = G[Chosen(S)] + SumFunctionOnSet(G, S \ {Chosen(S)})
        BY <1>2, <2>2, SumTakesChosen
    <2>4. QED BY <1>2, <2>1, <2>3
<1> HIDE DEF P
<1>3. SUBSET T \subseteq P
    BY <1>1, <1>2, SubsetInduction
<1>4. QED BY <1>3 DEF P

\* A sum of zeros is zero.
LEMMA SumOfZeros ==
    ASSUME NEW F, NEW T, IsFiniteSet(T), \A x \in T : F[x] = 0
    PROVE  SumFunctionOnSet(F, T) = 0
<1> DEFINE P == {S \in SUBSET T : SumFunctionOnSet(F, S) = 0}
<1>1. {} \in P
    BY SumOverEmpty
<1>2. ASSUME NEW S \in SUBSET T, S # {}, \A x \in S : S \ {x} \in P PROVE S \in P
    <2>1. Chosen(S) \in S
        BY <1>2 DEF Chosen
    <2>2. IsFiniteSet(S)
        BY FS_Subset
    <2>3. SumFunctionOnSet(F, S) = F[Chosen(S)] + SumFunctionOnSet(F, S \ {Chosen(S)})
        BY <1>2, <2>2, SumTakesChosen
    <2>4. F[Chosen(S)] = 0 /\ SumFunctionOnSet(F, S \ {Chosen(S)}) = 0
        BY <1>2, <2>1
    <2>5. QED BY <2>3, <2>4
<1> HIDE DEF P
<1>3. SUBSET T \subseteq P
    BY <1>1, <1>2, SubsetInduction
<1>4. QED BY <1>3 DEF P

\* Adding k at one element adds k to the sum.
LEMMA SumAddsAtOne ==
    ASSUME NEW F, NEW G, NEW T, IsFiniteSet(T), NEW y \in T, NEW k \in Int,
           \A x \in T : F[x] \in Int, G[y] = F[y] + k, \A x \in T \ {y} : G[x] = F[x]
    PROVE  SumFunctionOnSet(G, T) = SumFunctionOnSet(F, T) + k
<1> DEFINE U == T \ {y}
<1>1. IsFiniteSet(U) /\ U \in SUBSET T
    BY FS_Subset
<1>2. \A x \in T : G[x] \in Int
    OBVIOUS
<1>3. SumFunctionOnSet(F, T) = F[y] + SumFunctionOnSet(F, U)
    BY SumSplits
<1>4. SumFunctionOnSet(G, T) = G[y] + SumFunctionOnSet(G, U)
    BY <1>2, SumSplits
<1>5. SumFunctionOnSet(G, U) = SumFunctionOnSet(F, U)
    <2> HIDE DEF U
    <2>1. \A x \in U : G[x] = F[x]
        BY DEF U
    <2>2. QED BY <1>1, <2>1, SumsAgree
<1>6. F[y] \in Int /\ SumFunctionOnSet(F, U) \in Int
    BY <1>1, SumIsInteger
<1> HIDE DEF U
<1>7. QED BY <1>3, <1>4, <1>5, <1>6

\* Adding one at each element of W adds the number of these elements.
LEMMA SumAddsOnes ==
    ASSUME NEW F, NEW G, NEW T, IsFiniteSet(T), NEW W \in SUBSET T,
           \A x \in T : F[x] \in Int,
           \A x \in T : G[x] = F[x] + (IF x \in W THEN 1 ELSE 0)
    PROVE  SumFunctionOnSet(G, T) = SumFunctionOnSet(F, T) + Cardinality(W)
<1> DEFINE SF(S) == SumFunctionOnSet(F, S)
           SG(S) == SumFunctionOnSet(G, S)
           n(S) == Cardinality(S \cap W)
           P == {S \in SUBSET T : SG(S) = SF(S) + n(S)}
<1>1. {} \in P
    <2>1. SF({}) = 0 /\ SG({}) = 0
        BY SumOverEmpty
    <2>2. n({}) = 0
        BY FS_EmptySet
    <2>3. QED BY <2>1, <2>2
<1>2. \A S \in SUBSET T : IsFiniteSet(S) /\ IsFiniteSet(S \cap W) /\ n(S) \in Nat
    BY FS_Subset, FS_CardinalityType
<1>3. ASSUME NEW S \in SUBSET T, S # {}, \A x \in S : S \ {x} \in P PROVE S \in P
    <2> DEFINE c == Chosen(S)
               U == S \ {c}
    <2>1. c \in S /\ c \in T /\ U \in SUBSET T
        BY <1>3 DEF Chosen
    <2>2. SF(S) = F[c] + SF(U) /\ SG(S) = G[c] + SG(U)
        BY <1>2, <1>3, SumTakesChosen
    <2>3. F[c] \in Int /\ SF(U) \in Int
        BY <2>1, SumIsInteger
    <2>4. n(S) = n(U) + (IF c \in W THEN 1 ELSE 0)
        <3>1. U \cap W = (S \cap W) \ {c}
            OBVIOUS
        <3>2. Cardinality((S \cap W) \ {c})
                = IF c \in S \cap W THEN Cardinality(S \cap W) - 1 ELSE Cardinality(S \cap W)
            BY <1>2, FS_RemoveElement
        <3> HIDE DEF c, U
        <3>3. n(U) = IF c \in W THEN n(S) - 1 ELSE n(S)
            BY <2>1, <3>1, <3>2
        <3> HIDE DEF n
        <3>4. n(S) \in Nat /\ n(U) \in Nat
            BY <1>2, <2>1
        <3>5. QED BY <3>3, <3>4
    <2>5. SG(U) = SF(U) + n(U) /\ n(U) \in Nat
        BY <1>2, <1>3, <2>1
    <2>6. G[c] = F[c] + (IF c \in W THEN 1 ELSE 0)
        BY <2>1
    <2> HIDE DEF c, U, n, SF, SG
    <2>7. SG(S) = SF(S) + n(S)
        BY <2>2, <2>3, <2>4, <2>5, <2>6
    <2>8. QED BY <2>7
<1>4. T \in P
    <2> HIDE DEF P
    <2>1. QED BY <1>1, <1>3, SubsetInduction
<1>5. T \cap W = W
    OBVIOUS
<1>6. QED BY <1>4, <1>5

\* One more element adds its value.
LEMMA SumExtends ==
    ASSUME NEW F, NEW G, NEW T, IsFiniteSet(T), NEW k, k \notin T, NEW U, U = T \cup {k},
           \A x \in T : F[x] \in Int /\ G[x] = F[x], G[k] \in Int
    PROVE  SumFunctionOnSet(G, U) = SumFunctionOnSet(F, T) + G[k]
<1>1. IsFiniteSet(U) /\ U \ {k} = T /\ k \in U
    BY FS_AddElement
<1>2. \A x \in U : G[x] \in Int
    OBVIOUS
<1>3. SumFunctionOnSet(G, U) = G[k] + SumFunctionOnSet(G, T)
    BY <1>1, <1>2, SumSplits
<1>4. SumFunctionOnSet(G, T) = SumFunctionOnSet(F, T)
    BY SumsAgree
<1>5. SumFunctionOnSet(F, T) \in Int
    BY SumIsInteger
<1>6. QED BY <1>3, <1>4, <1>5

\* A part of a sum of natural numbers is at most the whole.
LEMMA SumMonotone ==
    ASSUME NEW F, NEW T, IsFiniteSet(T), \A x \in T : F[x] \in Nat, NEW U \in SUBSET T
    PROVE  SumFunctionOnSet(F, U) <= SumFunctionOnSet(F, T)
<1> DEFINE S(V) == SumFunctionOnSet(F, V)
           P == {V \in SUBSET T : \A W \in SUBSET V : S(W) <= S(V)}
<1>1. \A V \in SUBSET T : IsFiniteSet(V) /\ S(V) \in Int
    BY FS_Subset, SumIsInteger
<1>2. {} \in P
    <2>1. S({}) = 0
        BY SumOverEmpty
    <2> HIDE DEF S
    <2>2. QED BY <2>1
<1>3. ASSUME NEW V \in SUBSET T, V # {}, \A x \in V : V \ {x} \in P PROVE V \in P
    <2> SUFFICES ASSUME NEW W \in SUBSET V PROVE S(W) <= S(V)
        OBVIOUS
    <2>1. CASE W = V
        <3>1. S(V) \in Int
            BY <1>1
        <3> HIDE DEF S
        <3>2. QED BY <2>1, <3>1
    <2>2. ASSUME NEW x \in V, x \notin W PROVE S(W) <= S(V)
        <3>1. S(W) <= S(V \ {x})
            BY <1>3, <2>2
        <3>2. S(V) = F[x] + S(V \ {x})
            BY <1>1, SumSplits
        <3>3. S(W) \in Int /\ S(V \ {x}) \in Int /\ F[x] \in Nat
            BY <1>1
        <3> HIDE DEF S
        <3>4. QED BY <3>1, <3>2, <3>3
    <2>3. QED BY <2>1, <2>2
<1> HIDE DEF P
<1>4. SUBSET T \subseteq P
    BY <1>2, <1>3, SubsetInduction
<1>5. QED BY <1>4 DEF P

\* Renaming the elements one to one does not change a sum.
LEMMA SumRenames ==
    ASSUME NEW F, NEW G, NEW h, NEW T, IsFiniteSet(T),
           \A x \in T : G[x] = F[h[x]] /\ F[h[x]] \in Int,
           \A x, y \in T : h[x] = h[y] => x = y
    PROVE  SumFunctionOnSet(G, T) = SumFunctionOnSet(F, {h[x] : x \in T})
<1> DEFINE Image(V) == {h[x] : x \in V}
           P == {V \in SUBSET T : SumFunctionOnSet(G, V) = SumFunctionOnSet(F, Image(V))}
<1>1. {} \in P
    <2>1. Image({}) = {}
        OBVIOUS
    <2> HIDE DEF Image
    <2>2. QED BY <2>1, SumOverEmpty
<1>2. ASSUME NEW V \in SUBSET T, V # {}, \A x \in V : V \ {x} \in P PROVE V \in P
    <2>1. PICK x \in V : TRUE
        BY <1>2
    <2> DEFINE U == V \ {x}
    <2>2. IsFiniteSet(V) /\ IsFiniteSet(U)
        BY FS_Subset
    <2>3. IsFiniteSet(Image(U))
        <3> DEFINE f == [y \in U |-> h[y]]
        <3>1. f \in Surjection(U, Image(U))
            BY DEF Surjection
        <3> HIDE DEF U, f, Image
        <3>2. QED BY <2>2, <3>1, FS_Surjection
    <2>4. Image(V) = Image(U) \cup {h[x]} /\ h[x] \notin Image(U)
        OBVIOUS
    <2>5. \A y \in Image(U) : F[y] \in Int /\ F[y] = F[y]
        OBVIOUS
    <2>6. SumFunctionOnSet(G, U) = SumFunctionOnSet(F, Image(U))
        BY <1>2
    <2>7. SumFunctionOnSet(G, V) = G[x] + SumFunctionOnSet(G, U)
        BY <2>2, SumSplits
    <2>8. G[x] = F[h[x]] /\ F[h[x]] \in Int
        OBVIOUS
    <2> HIDE DEF U, Image
    <2>9. SumFunctionOnSet(F, Image(V)) = SumFunctionOnSet(F, Image(U)) + F[h[x]]
        BY <2>3, <2>4, <2>5, <2>8, SumExtends
    <2>10. SumFunctionOnSet(F, Image(U)) \in Int
        BY <2>3, <2>5, SumIsInteger
    <2>11. QED BY <2>6, <2>7, <2>8, <2>9, <2>10
<1> HIDE DEF P
<1>3. SUBSET T \subseteq P
    BY <1>1, <1>2, SubsetInduction
<1>4. QED BY <1>3 DEF P
============================================================================
