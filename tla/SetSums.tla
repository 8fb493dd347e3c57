------------------------------ MODULE SetSums ------------------------------
(***************************************************************************)
(* Sums over finite sets of integers.  MapThenSumSet of the community      *)
(* modules is a recursive function on the subsets of a set, which takes    *)
(* the members in the order of a choice.  Here that function is shown to   *)
(* exist and to be unique, and the sum to be the same in any order.        *)
(* Induction over a set is the choice of a smallest counterexample, from   *)
(* the least number of a set of numbers.                                   *)
(***************************************************************************)
EXTENDS Integers, FiniteSetTheorems, WellFoundedInduction, TLAPS

\* A nonempty set of natural numbers has a least member.
LEMMA LeastNumber ==
  ASSUME NEW S \in SUBSET Nat, S # {}
  PROVE  \E n \in S : \A m \in S : n <= m
<1> DEFINE R == {p \in Nat \X Nat : p[1] < p[2]}
<1>1. IsWellFoundedOn(R, Nat)
  BY NatLessThanWellFounded DEF OpToRel
<1>2. PICK n \in S : \A m \in S : ~(<<m, n>> \in R)
  BY <1>1, WFMin
<1>3. ASSUME NEW m \in S
      PROVE  n <= m
  <2>1. m \in Nat /\ n \in Nat /\ <<m, n>> \notin R
    BY <1>2
  <2>2. ~(m < n)
    BY <2>1
  <2> QED
    BY <2>1, <2>2
<1> QED
  BY <1>3

\* Among subsets of a finite set one is the smallest: it stands for induction.
LEMMA SmallestSet ==
  ASSUME NEW S, IsFiniteSet(S), NEW C \in SUBSET SUBSET S, C # {}
  PROVE  \E T \in C : \A U \in C : U \subseteq T => U = T
<1> DEFINE Sizes == {Cardinality(T) : T \in C}
<1>1. \A T \in C : IsFiniteSet(T) /\ Cardinality(T) \in Nat
  BY FS_Subset, FS_CardinalityType
<1>2. PICK n \in Sizes : \A m \in Sizes : n <= m
  <2>1. Sizes \in SUBSET Nat /\ Sizes # {}
    BY <1>1
  <2> HIDE DEF Sizes
  <2> QED
    BY <2>1, LeastNumber
<1>3. PICK T \in C : Cardinality(T) = n
  OBVIOUS
<1>4. ASSUME NEW U \in C, U \subseteq T
      PROVE  U = T
  <2>1. Cardinality(T) <= Cardinality(U)
    BY <1>2, <1>3
  <2>2. Cardinality(U) <= Cardinality(T) /\ (Cardinality(T) = Cardinality(U) => T = U)
    BY <1>1, <1>4, FS_Subset
  <2> QED
    BY <1>1, <2>1, <2>2
<1> QED
  BY <1>4

\* The sums of `f` over the subsets of S, added up in the order of a choice, by
\* the equation that defines them in the library.
Picked(T) == CHOOSE x \in T : TRUE
Adds(g, f, S) ==
    g = [T \in SUBSET S |-> IF T = {} THEN 0 ELSE f[Picked(T)] + g[T \ {Picked(T)}]]
SumOf(f, S) == (CHOOSE g : Adds(g, f, S))[S]

\* The choice of a nonempty set is one of its members.
LEMMA PickedIn ==
  ASSUME NEW T, T # {}
  PROVE  Picked(T) \in T
BY DEF Picked

\* The equation of the recursive function has one solution at most.
LEMMA SumsAreUnique ==
  ASSUME NEW S, IsFiniteSet(S), NEW f, NEW g, NEW h, Adds(g, f, S), Adds(h, f, S)
  PROVE  g = h
<1> DEFINE C == {T \in SUBSET S : g[T] # h[T]}
<1>1. ASSUME C # {}
      PROVE  FALSE
  <2>1. PICK T \in C : \A U \in C : U \subseteq T => U = T
    <3>1. C \in SUBSET SUBSET S
      OBVIOUS
    <3> HIDE DEF C
    <3> QED
      BY <1>1, <3>1, SmallestSet
  <2>2. T \in SUBSET S /\ g[T] # h[T]
    OBVIOUS
  <2>3. T # {}
    BY <2>2 DEF Adds
  <2> DEFINE U == T \ {Picked(T)}
  <2>4. U \in SUBSET S /\ U \subseteq T /\ U # T
    BY <2>2, <2>3, PickedIn
  <2>5. g[U] = h[U]
    BY <2>1, <2>4
  <2>6. g[T] = f[Picked(T)] + g[U]
    BY <2>2, <2>3 DEF Adds
  <2>7. h[T] = f[Picked(T)] + h[U]
    BY <2>2, <2>3 DEF Adds
  <2> QED
    BY <2>2, <2>5, <2>6, <2>7
<1>2. \A T \in SUBSET S : g[T] = h[T]
  BY <1>1
<1>3. DOMAIN g = SUBSET S /\ DOMAIN h = SUBSET S /\ g = [T \in DOMAIN g |-> g[T]]
      /\ h = [T \in DOMAIN h |-> h[T]]
  BY DEF Adds
<1> QED
  BY <1>2, <1>3

\* The sums over S tell those over its subsets.
LEMMA SumOfPart ==
  ASSUME NEW S, IsFiniteSet(S), NEW T \in SUBSET S, NEW f, NEW g, Adds(g, f, S)
  PROVE  SumOf(f, T) = g[T] /\ \E h : Adds(h, f, T)
<1> DEFINE r == [U \in SUBSET T |-> g[U]]
<1>1. Adds(r, f, T)
  <2>1. ASSUME NEW U \in SUBSET T
        PROVE  r[U] = IF U = {} THEN 0 ELSE f[Picked(U)] + r[U \ {Picked(U)}]
    <3>1. U \in SUBSET S /\ U \ {Picked(U)} \in SUBSET T
      OBVIOUS
    <3> QED
      BY <3>1 DEF Adds
  <2> QED
    BY <2>1 DEF Adds
<1>2. Adds(CHOOSE h : Adds(h, f, T), f, T)
  BY <1>1
<1>3. IsFiniteSet(T)
  BY FS_Subset
<1>4. (CHOOSE h : Adds(h, f, T)) = r
  BY <1>1, <1>2, <1>3, SumsAreUnique
<1> QED
  BY <1>1, <1>4 DEF SumOf

\* The equation has a solution.
LEMMA SumsExist ==
  ASSUME NEW S, IsFiniteSet(S), NEW f
  PROVE  \E g : Adds(g, f, S)
<1> DEFINE C == {T \in SUBSET S : ~\E g : Adds(g, f, T)}
<1>1. ASSUME NEW T \in SUBSET S, \A U \in SUBSET T : U # T => \E g : Adds(g, f, U)
      PROVE  \E g : Adds(g, f, T)
  <2> DEFINE g == [U \in SUBSET T |->
                     IF U = {} THEN 0 ELSE f[Picked(U)] + SumOf(f, U \ {Picked(U)})]
  <2>1. ASSUME NEW U \in SUBSET T, U # T
        PROVE  g[U] = SumOf(f, U)
    <3>1. PICK h : Adds(h, f, U)
      BY <1>1, <2>1
    <3>2. IsFiniteSet(U)
      BY FS_Subset
    <3>3. SumOf(f, U) = h[U] /\ SumOf(f, U \ {Picked(U)}) = h[U \ {Picked(U)}]
      BY <3>1, <3>2, SumOfPart
    <3> HIDE DEF g
    <3>4. h[U] = IF U = {} THEN 0 ELSE f[Picked(U)] + h[U \ {Picked(U)}]
      BY <3>1 DEF Adds
    <3> USE DEF g
    <3> QED
      BY <3>3, <3>4
  <2>2. ASSUME NEW U \in SUBSET T
        PROVE  g[U] = IF U = {} THEN 0 ELSE f[Picked(U)] + g[U \ {Picked(U)}]
    <3>1. CASE U # {}
      <4>1. U \ {Picked(U)} \in SUBSET T /\ U \ {Picked(U)} # T
        BY <3>1, PickedIn
      <4>2. g[U \ {Picked(U)}] = SumOf(f, U \ {Picked(U)})
        BY <2>1, <4>1
      <4> QED
        BY <4>2
    <3> QED
      BY <3>1
  <2>3. g = [U \in SUBSET T |-> IF U = {} THEN 0 ELSE f[Picked(U)] + g[U \ {Picked(U)}]]
    BY <2>2
  <2> QED
    BY <2>3 DEF Adds
<1>2. C = {}
  <2>1. ASSUME C # {}
        PROVE  FALSE
    <3>1. PICK T \in C : \A U \in C : U \subseteq T => U = T
      <4>1. C \in SUBSET SUBSET S
        OBVIOUS
      <4> HIDE DEF C
      <4> QED
        BY <2>1, <4>1, SmallestSet
    <3>2. \A U \in SUBSET T : U # T => \E g : Adds(g, f, U)
      BY <3>1
    <3> QED
      BY <1>1, <3>2
  <2> QED
    BY <2>1
<1> QED
  BY <1>2

\* The sum by its recursion.
LEMMA SumStep ==
  ASSUME NEW S, IsFiniteSet(S), NEW f
  PROVE  /\ S = {} => SumOf(f, S) = 0
         /\ S # {} => SumOf(f, S) = f[Picked(S)] + SumOf(f, S \ {Picked(S)})
<1>1. PICK g : Adds(g, f, S)
  BY SumsExist
<1>2. SumOf(f, S) = g[S] /\ SumOf(f, S \ {Picked(S)}) = g[S \ {Picked(S)}]
  BY <1>1, SumOfPart
<1>3. g[S] = IF S = {} THEN 0 ELSE f[Picked(S)] + g[S \ {Picked(S)}]
  BY <1>1 DEF Adds
<1> QED
  BY <1>2, <1>3

\* Integers add up to an integer.
LEMMA SumType ==
  ASSUME NEW S, IsFiniteSet(S), NEW f, \A x \in S : f[x] \in Int
  PROVE  SumOf(f, S) \in Int
<1> DEFINE C == {T \in SUBSET S : SumOf(f, T) \notin Int}
<1>1. ASSUME C # {}
      PROVE  FALSE
  <2>1. PICK T \in C : \A U \in C : U \subseteq T => U = T
    <3>1. C \in SUBSET SUBSET S
      OBVIOUS
    <3> HIDE DEF C
    <3> QED
      BY <1>1, <3>1, SmallestSet
  <2>2. IsFiniteSet(T)
    BY FS_Subset
  <2>3. CASE T # {}
    <3>1. Picked(T) \in T /\ T \ {Picked(T)} \in SUBSET S /\ T \ {Picked(T)} # T
      BY <2>3, PickedIn
    <3>2. SumOf(f, T \ {Picked(T)}) \in Int /\ f[Picked(T)] \in Int
      BY <2>1, <3>1
    <3>3. SumOf(f, T) = f[Picked(T)] + SumOf(f, T \ {Picked(T)})
      BY <2>2, <2>3, SumStep
    <3>4. SumOf(f, T) \in Int
      BY <3>2, <3>3
    <3> QED
      BY <3>4
  <2>4. CASE T = {}
    BY <2>2, <2>4, SumStep
  <2> QED
    BY <2>3, <2>4
<1> QED
  BY <1>1

\* Natural numbers add up to a natural number.
LEMMA NatSum ==
  ASSUME NEW S, IsFiniteSet(S), NEW f, \A x \in S : f[x] \in Nat
  PROVE  SumOf(f, S) \in Nat
<1> DEFINE C == {T \in SUBSET S : SumOf(f, T) \notin Nat}
<1>1. ASSUME C # {}
      PROVE  FALSE
  <2>1. PICK T \in C : \A U \in C : U \subseteq T => U = T
    <3>1. C \in SUBSET SUBSET S
      OBVIOUS
    <3> HIDE DEF C
    <3> QED
      BY <1>1, <3>1, SmallestSet
  <2>2. IsFiniteSet(T)
    BY FS_Subset
  <2>3. CASE T # {}
    <3>1. Picked(T) \in T /\ T \ {Picked(T)} \in SUBSET S /\ T \ {Picked(T)} # T
      BY <2>3, PickedIn
    <3>2. SumOf(f, T \ {Picked(T)}) \in Nat /\ f[Picked(T)] \in Nat
      BY <2>1, <3>1
    <3>3. SumOf(f, T) = f[Picked(T)] + SumOf(f, T \ {Picked(T)})
      BY <2>2, <2>3, SumStep
    <3>4. SumOf(f, T) \in Nat
      BY <3>2, <3>3
    <3> QED
      BY <3>4
  <2>4. CASE T = {}
    BY <2>2, <2>4, SumStep
  <2> QED
    BY <2>3, <2>4
<1> QED
  BY <1>1

\* The order in which the members are taken does not matter.
LEMMA SumTakesAny ==
  ASSUME NEW S, IsFiniteSet(S), NEW f, \A x \in S : f[x] \in Int, NEW x \in S
  PROVE  SumOf(f, S) = f[x] + SumOf(f, S \ {x})
<1> DEFINE C == {T \in SUBSET S : \E y \in T : SumOf(f, T) # f[y] + SumOf(f, T \ {y})}
<1>1. ASSUME C # {}
      PROVE  FALSE
  <2>1. PICK T \in C : \A U \in C : U \subseteq T => U = T
    <3>1. C \in SUBSET SUBSET S
      OBVIOUS
    <3> HIDE DEF C
    <3> QED
      BY <1>1, <3>1, SmallestSet
  <2>2. PICK y \in T : SumOf(f, T) # f[y] + SumOf(f, T \ {y})
    OBVIOUS
  <2>3. \A U \in SUBSET S : IsFiniteSet(U) /\ SumOf(f, U) \in Int
    BY FS_Subset, SumType
  <2> DEFINE c == Picked(T)
             U == T \ {c}
             V == T \ {y}
             W == U \ {y}
  <2>4. /\ c \in T /\ U \in SUBSET S /\ V \in SUBSET S /\ U # T /\ V # T
        /\ f[c] \in Int /\ f[y] \in Int
    BY PickedIn
  <2>5. SumOf(f, T) = f[c] + SumOf(f, U)
    BY <2>3, <2>4, SumStep
  <2>6. c # y
    BY <2>2, <2>5
  <2>7. SumOf(f, U) = f[y] + SumOf(f, W)
    BY <2>1, <2>4, <2>6
  <2>8. SumOf(f, V) = f[c] + SumOf(f, V \ {c})
    BY <2>1, <2>4, <2>6
  <2>9. V \ {c} = W /\ W \in SUBSET S
    OBVIOUS
  <2> HIDE DEF c, U, V, W, C
  <2>10. SumOf(f, W) \in Int /\ SumOf(f, U) \in Int /\ SumOf(f, V) \in Int /\ SumOf(f, T) \in Int
    BY <2>3, <2>4, <2>9 DEF C
  <2>11. SumOf(f, V) = f[c] + SumOf(f, W)
    BY <2>8, <2>9
  <2>12. f[c] + (f[y] + SumOf(f, W)) = f[y] + (f[c] + SumOf(f, W))
    BY <2>4, <2>10
  <2> QED
    BY <2>2, <2>5, <2>7, <2>11, <2>12 DEF V
<1>2. S \notin C
  BY <1>1
<1> QED
  BY <1>2

\* A sum depends on the values over its set only.
LEMMA SumOfSame ==
  ASSUME NEW S, IsFiniteSet(S), NEW f, NEW h, \A x \in S : f[x] = h[x]
  PROVE  SumOf(f, S) = SumOf(h, S)
<1> DEFINE C == {T \in SUBSET S : SumOf(f, T) # SumOf(h, T)}
<1>1. ASSUME C # {}
      PROVE  FALSE
  <2>1. PICK T \in C : \A U \in C : U \subseteq T => U = T
    <3>1. C \in SUBSET SUBSET S
      OBVIOUS
    <3> HIDE DEF C
    <3> QED
      BY <1>1, <3>1, SmallestSet
  <2>2. IsFiniteSet(T)
    BY FS_Subset
  <2>3. CASE T # {}
    <3>1. Picked(T) \in T /\ T \ {Picked(T)} \in SUBSET S /\ T \ {Picked(T)} # T
      BY <2>3, PickedIn
    <3>2. SumOf(f, T \ {Picked(T)}) = SumOf(h, T \ {Picked(T)}) /\ f[Picked(T)] = h[Picked(T)]
      BY <2>1, <3>1
    <3> QED
      BY <2>2, <2>3, <3>2, SumStep
  <2>4. CASE T = {}
    BY <2>2, <2>4, SumStep
  <2> QED
    BY <2>3, <2>4
<1> QED
  BY <1>1

\* One member more, the other ones unchanged.
LEMMA SumGrows ==
  ASSUME NEW S, IsFiniteSet(S), NEW f, NEW h, NEW x, x \notin S,
         \A y \in S : f[y] = h[y] /\ f[y] \in Int, h[x] \in Int
  PROVE  SumOf(h, S \cup {x}) = h[x] + SumOf(f, S)
<1>1. IsFiniteSet(S \cup {x}) /\ (S \cup {x}) \ {x} = S
  BY FS_AddElement
<1>2. SumOf(h, S \cup {x}) = h[x] + SumOf(h, S)
  BY <1>1, SumTakesAny
<1> QED
  BY <1>2, SumOfSame

\* A larger set of natural numbers has no smaller sum.
LEMMA SumOfLarger ==
  ASSUME NEW S, IsFiniteSet(S), NEW f, \A x \in S : f[x] \in Nat, NEW R \in SUBSET S
  PROVE  SumOf(f, R) <= SumOf(f, S)
<1> DEFINE C == {T \in SUBSET S : R \subseteq T /\ ~(SumOf(f, R) <= SumOf(f, T))}
<1>1. ASSUME C # {}
      PROVE  FALSE
  <2>1. PICK T \in C : \A U \in C : U \subseteq T => U = T
    <3>1. C \in SUBSET SUBSET S
      OBVIOUS
    <3> HIDE DEF C
    <3> QED
      BY <1>1, <3>1, SmallestSet
  <2>2. IsFiniteSet(T) /\ IsFiniteSet(R)
    BY FS_Subset
  <2>3. SumOf(f, R) \in Nat
    BY <2>2, NatSum
  <2>4. T # R
    BY <2>1, <2>3
  <2>5. PICK x \in T : x \notin R
    BY <2>1, <2>4
  <2>6. SumOf(f, T) = f[x] + SumOf(f, T \ {x})
    BY <2>2, SumTakesAny
  <2>7. f[x] \in Nat /\ SumOf(f, T \ {x}) \in Nat
    <3>1. IsFiniteSet(T \ {x})
      BY <2>2, FS_Subset
    <3> QED
      BY <3>1, NatSum
  <2>8. SumOf(f, R) <= SumOf(f, T \ {x})
    BY <2>1, <2>5
  <2>9. ~(SumOf(f, R) <= SumOf(f, T))
    BY <2>1
  <2> HIDE DEF C
  <2> QED
    BY <2>3, <2>6, <2>7, <2>8, <2>9
<1> QED
  <2>1. S \in SUBSET S
    OBVIOUS
  <2> QED
    BY <1>1, <2>1

\* Among finitely many natural numbers one is the largest.
LEMMA LargestValue ==
  ASSUME NEW S, IsFiniteSet(S), S # {}, NEW f, \A x \in S : f[x] \in Nat
  PROVE  \E x \in S : \A y \in S : f[y] <= f[x]
<1> DEFINE Tops(T) == {x \in T : \A y \in T : f[y] <= f[x]}
           C == {T \in SUBSET S : T # {} /\ Tops(T) = {}}
<1>1. ASSUME C # {}
      PROVE  FALSE
  <2>1. PICK T \in C : \A U \in C : U \subseteq T => U = T
    <3>1. C \in SUBSET SUBSET S
      OBVIOUS
    <3> HIDE DEF C
    <3> QED
      BY <1>1, <3>1, SmallestSet
  <2>2. PICK x \in T : TRUE
    BY <2>1
  <2>3. T \subseteq S /\ f[x] \in Nat /\ x \notin Tops(T)
    BY <2>1, <2>2
  <2>4. PICK y \in T : ~(f[y] <= f[x])
    BY <2>2, <2>3
  <2>5. y \in T \ {x} /\ f[y] \in Nat
    BY <2>3, <2>4
  <2>6. T \ {x} \notin C
    BY <2>1, <2>2
  <2>7. PICK z \in T \ {x} : \A u \in T \ {x} : f[u] <= f[z]
    BY <2>3, <2>5, <2>6
  <2>8. f[z] \in Nat /\ f[y] <= f[z]
    BY <2>3, <2>5, <2>7
  <2>9. f[x] <= f[z]
    BY <2>3, <2>4, <2>5, <2>8
  <2>10. z \in Tops(T)
    BY <2>7, <2>9
  <2> QED
    BY <2>1, <2>10
<1> QED
  BY <1>1
=============================================================================
