--------------------------------- MODULE Sums ---------------------------------
(***************************************************************************)
(* Sums over finite sets, SumFunctionOnSet of the community modules: what  *)
(* the proofs about the ledgers need to know of them.  The sum is a fold,  *)
(* a recursive function on the subsets, and a recursive function is what   *)
(* its equation says only if some function satisfies the equation.         *)
(***************************************************************************)
EXTENDS Functions, FiniteSetTheorems, WellFoundedInduction, TLAPS

\* The least of some numbers.
LEMMA LeastOf ==
  ASSUME NEW S \in SUBSET Nat, S # {}
  PROVE  \E n \in S : \A m \in S : n <= m
  <1>1. PICK n \in S : \A m \in S : ~(<<m, n>> \in OpToRel(<, Nat))
    BY WFMin, NatLessThanWellFounded
  <1>2. \A m \in S : ~(m < n)
    BY <1>1 DEF OpToRel
  <1> QED
    BY <1>2

\* Finitely many numbers have a greatest one: a smallest set of them without one would be one element
\* larger than a set that has one.
LEMMA GreatestOf ==
  ASSUME NEW S \in SUBSET Nat, IsFiniteSet(S), S # {}
  PROVE  \E n \in S : \A m \in S : m <= n
  <1> DEFINE Open(T) == T # {} /\ \A n \in T : \E m \in T : ~(m <= n)
             sizes == {Cardinality(T) : T \in {T \in SUBSET S : Open(T)}}
  <1> SUFFICES ASSUME Open(S) PROVE FALSE
    OBVIOUS
  <1>1. \A T \in SUBSET S : IsFiniteSet(T) /\ Cardinality(T) \in Nat
    BY FS_Subset, FS_CardinalityType
  <1>2. sizes \in SUBSET Nat /\ sizes # {}
    <2>1. Cardinality(S) \in sizes
      OBVIOUS
    <2> QED
      BY <1>1, <2>1
  <1>3. PICK k \in sizes : \A j \in sizes : k <= j
    <2> HIDE DEF sizes
    <2> QED
      BY <1>2, LeastOf
  <1>4. PICK T \in SUBSET S : Open(T) /\ Cardinality(T) = k
    BY <1>3
  <1>5. PICK x \in T : TRUE
    BY <1>4
  <1>6. IsFiniteSet(T) /\ Cardinality(T \ {x}) = k - 1 /\ k \in Nat
    BY <1>1, <1>4, <1>5, FS_RemoveElement
  <1>7. ~Open(T \ {x})
    <2>1. Open(T \ {x}) => k - 1 \in sizes
      BY <1>6
    <2> HIDE DEF sizes, Open
    <2> QED
      BY <1>3, <1>6, <2>1
  <1>8. CASE T \ {x} = {}
    <2>1. T = {x} /\ x \in Nat
      BY <1>5, <1>8
    <2> QED
      BY <1>4, <2>1
  <1>9. CASE T \ {x} # {}
    <2>1. PICK n \in T \ {x} : \A m \in T \ {x} : m <= n
      BY <1>7, <1>9
    <2>2. n \in Nat /\ x \in Nat /\ T \subseteq Nat
      BY <1>5, <2>1
    <2>3. CASE x <= n
      BY <1>4, <2>1, <2>3
    <2>4. CASE n <= x
      BY <1>4, <1>5, <2>1, <2>2, <2>4
    <2> QED
      BY <2>2, <2>3, <2>4
  <1> QED
    BY <1>8, <1>9

\* Induction over the numbers, for a set of numbers.
LEMMA AllNumbers ==
  ASSUME NEW Good, 0 \in Good, \A n \in Nat : n \in Good => n + 1 \in Good
  PROVE  Nat \subseteq Good
  <1> SUFFICES ASSUME Nat \ Good # {} PROVE FALSE
    OBVIOUS
  <1>1. PICK n \in Nat \ Good : \A m \in Nat \ Good : n <= m
    BY LeastOf
  <1>2. n - 1 \in Nat /\ n - 1 \notin Nat \ Good
    BY <1>1
  <1> QED
    BY <1>1, <1>2

\* Induction over the subsets of a finite set, for a set of subsets: T is good if all that is less than T is.
LEMMA AllSubsets ==
  ASSUME NEW S, IsFiniteSet(S), NEW Good,
         \A T \in SUBSET S : (\A U \in SUBSET T : U # T => U \in Good) => T \in Good
  PROVE  S \in Good
  <1> DEFINE bad == {T \in SUBSET S : T \notin Good}
             sizes == {Cardinality(T) : T \in bad}
  <1> SUFFICES ASSUME S \notin Good PROVE FALSE
    OBVIOUS
  <1>1. \A T \in SUBSET S : IsFiniteSet(T) /\ Cardinality(T) \in Nat
    BY FS_Subset, FS_CardinalityType
  <1>2. sizes \in SUBSET Nat /\ sizes # {}
    <2>1. Cardinality(S) \in sizes
      OBVIOUS
    <2> QED
      BY <1>1, <2>1
  <1>3. PICK k \in sizes : \A j \in sizes : k <= j
    <2> HIDE DEF sizes
    <2> QED
      BY <1>2, LeastOf
  <1>4. PICK T \in bad : Cardinality(T) = k
    BY <1>3
  <1>5. PICK U \in SUBSET T : U # T /\ U \notin Good
    BY <1>4
  <1>6. Cardinality(U) \in sizes
    BY <1>4, <1>5
  <1>7. Cardinality(U) < Cardinality(T)
    <2>1. IsFiniteSet(T) /\ U \subseteq T /\ U # T
      BY <1>1, <1>4, <1>5
    <2> QED
      BY <2>1, FS_Subset, FS_CardinalityType
  <1>8. k \in Nat /\ Cardinality(U) \in Nat
    BY <1>1, <1>4, <1>5
  <1> HIDE DEF sizes
  <1> QED
    BY <1>3, <1>4, <1>6, <1>7, <1>8

\* The same, one element at a time.
LEMMA OneByOne ==
  ASSUME NEW S, IsFiniteSet(S), NEW Good, {} \in Good,
         \A T \in SUBSET S : \A x \in T : T \ {x} \in Good => T \in Good
  PROVE  S \in Good
  <1>1. ASSUME NEW T \in SUBSET S, \A U \in SUBSET T : U # T => U \in Good
        PROVE  T \in Good
    <2>1. CASE T = {}
      BY <2>1
    <2>2. CASE T # {}
      <3>1. PICK x \in T : TRUE
        BY <2>2
      <3>2. T \ {x} \in SUBSET T /\ T \ {x} # T
        BY <3>1
      <3> QED
        BY <1>1, <3>1, <3>2
    <2> QED
      BY <2>1, <2>2
  <1> QED
    BY <1>1, AllSubsets

-----------------------------------------------------------------------------
(* The equation of the sum *)

Any(T) == CHOOSE x \in T : TRUE

\* What g says of T is the sum of f, if it is for less than T.
AddsUpTo(g, f, T) == g[T] = IF T = {} THEN 0 ELSE f[Any(T)] + g[T \ {Any(T)}]

AddsUp(g, f, S) == g = [T \in SUBSET S |-> IF T = {} THEN 0 ELSE f[Any(T)] + g[T \ {Any(T)}]]

LEMMA SumIsChosen ==
  ASSUME NEW f, NEW S
  PROVE  SumFunctionOnSet(f, S) = (CHOOSE g : AddsUp(g, f, S))[S]
  BY DEF SumFunctionOnSet, FoldFunctionOnSet, MapThenFoldSet, AddsUp, Any

LEMMA AnyIsElement ==
  ASSUME NEW T, T # {}
  PROVE  Any(T) \in T
  BY DEF Any

LEMMA SomethingAddsUp ==
  ASSUME NEW f, NEW S, IsFiniteSet(S)
  PROVE  \E g : AddsUp(g, f, S)
  <1> DEFINE Upto(g, n) == \A T \in SUBSET S : Cardinality(T) <= n => AddsUpTo(g, f, T)
             Good == {n \in Nat : \E g : g = [T \in SUBSET S |-> g[T]] /\ Upto(g, n)}
             next(g) == [T \in SUBSET S |-> IF T = {} THEN 0 ELSE f[Any(T)] + g[T \ {Any(T)}]]
  <1>1. \A T \in SUBSET S : /\ IsFiniteSet(T) /\ Cardinality(T) \in Nat
                            /\ Cardinality(T) <= Cardinality(S) /\ Cardinality(S) \in Nat
    BY FS_Subset, FS_CardinalityType
  <1>2. 0 \in Good
    <2> DEFINE g == [T \in SUBSET S |-> 0]
    <2>1. ASSUME NEW T \in SUBSET S, Cardinality(T) <= 0 PROVE AddsUpTo(g, f, T)
      <3>1. T = {}
        BY <1>1, <2>1, FS_EmptySet
      <3> QED
        BY <3>1 DEF AddsUpTo
    <2>2. g = [T \in SUBSET S |-> g[T]]
      OBVIOUS
    <2> HIDE DEF g
    <2> QED
      BY <2>1, <2>2
  <1>3. ASSUME NEW n \in Nat, n \in Good PROVE n + 1 \in Good
    <2>1. PICK g : Upto(g, n)
      BY <1>3
    <2>2. ASSUME NEW T \in SUBSET S, Cardinality(T) <= n + 1 PROVE AddsUpTo(next(g), f, T)
      <3>1. CASE T = {}
        BY <3>1 DEF AddsUpTo
      <3>2. CASE T # {}
        <4> DEFINE x == Any(T)
                   U == T \ {x}
        <4>1. x \in T
          BY <3>2, AnyIsElement
        <4> HIDE DEF x
        <4>2. U \in SUBSET S /\ Cardinality(U) = Cardinality(T) - 1 /\ Cardinality(T) \in Nat
          BY <1>1, <2>2, <4>1, FS_RemoveElement
        <4>3. AddsUpTo(g, f, U)
          BY <1>1, <2>1, <2>2, <4>2
        <4>4. next(g)[U] = g[U]
          BY <4>2, <4>3 DEF AddsUpTo
        <4>5. next(g)[T] = f[x] + g[U]
          BY <2>2, <3>2 DEF x
        <4> HIDE DEF next
        <4> QED
          BY <3>2, <4>4, <4>5 DEF AddsUpTo, x
      <3> QED
        BY <3>1, <3>2
    <2> DEFINE h == next(g)
    <2>3. h = [T \in SUBSET S |-> h[T]] /\ n + 1 \in Nat
      OBVIOUS
    <2> HIDE DEF next
    <2>4. Upto(h, n + 1)
      BY <2>2
    <2> HIDE DEF h
    <2> QED
      BY <2>3, <2>4
  <1>4. Nat \subseteq Good
    <2> HIDE DEF Good
    <2> QED
      BY <1>2, <1>3, AllNumbers
  <1>5. PICK g : g = [T \in SUBSET S |-> g[T]] /\ Upto(g, Cardinality(S))
    BY <1>1, <1>4
  <1>6. \A T \in SUBSET S : AddsUpTo(g, f, T)
    BY <1>1, <1>5
  <1>7. g = next(g)
    BY <1>5, <1>6 DEF AddsUpTo
  <1> QED
    BY <1>7 DEF AddsUp

\* Two functions that satisfy the equation, of one set and of a larger one, agree on the first.
LEMMA AddsUpOnce ==
  ASSUME NEW f, NEW S, NEW T, IsFiniteSet(T), T \subseteq S, NEW g, NEW h, AddsUp(g, f, S), AddsUp(h, f, T)
  PROVE  g[T] = h[T]
  <1> DEFINE Good == {U \in SUBSET T : g[U] = h[U]}
  <1>1. \A U \in SUBSET T : AddsUpTo(g, f, U) /\ AddsUpTo(h, f, U)
    <2> SUFFICES ASSUME NEW U \in SUBSET T PROVE AddsUpTo(g, f, U) /\ AddsUpTo(h, f, U)
      OBVIOUS
    <2>1. U \in SUBSET S
      OBVIOUS
    <2>2. AddsUpTo(g, f, U)
      BY <2>1 DEF AddsUp, AddsUpTo
    <2>3. AddsUpTo(h, f, U)
      BY DEF AddsUp, AddsUpTo
    <2> QED
      BY <2>2, <2>3
  <1>2. ASSUME NEW U \in SUBSET T, \A V \in SUBSET U : V # U => V \in Good
        PROVE  U \in Good
    <2>1. CASE U = {}
      BY <1>1, <2>1 DEF AddsUpTo
    <2>2. CASE U # {}
      <3>1. Any(U) \in U
        BY <2>2, AnyIsElement
      <3>2. U \ {Any(U)} \in Good
        BY <1>2, <3>1
      <3> QED
        BY <1>1, <2>2, <3>2 DEF AddsUpTo
    <2> QED
      BY <2>1, <2>2
  <1>3. T \in Good
    <2> HIDE DEF Good
    <2> QED
      BY <1>2, AllSubsets
  <1> QED
    BY <1>3

\* The sum of nothing is 0; that of something, one of its elements and the rest.
LEMMA SumEquation ==
  ASSUME NEW f, NEW S, IsFiniteSet(S)
  PROVE  SumFunctionOnSet(f, S) =
           IF S = {} THEN 0 ELSE f[Any(S)] + SumFunctionOnSet(f, S \ {Any(S)})
  <1> DEFINE g == CHOOSE g : AddsUp(g, f, S)
             U == S \ {Any(S)}
             h == CHOOSE h : AddsUp(h, f, U)
  <1>1. AddsUp(g, f, S) /\ SumFunctionOnSet(f, S) = g[S]
    BY SomethingAddsUp, SumIsChosen
  <1>2. IsFiniteSet(U) /\ U \subseteq S
    BY FS_Subset
  <1>3. AddsUp(h, f, U) /\ SumFunctionOnSet(f, U) = h[U]
    <2> HIDE DEF U
    <2> QED
      BY <1>2, SomethingAddsUp, SumIsChosen
  <1> HIDE DEF g, h, U
  <1>4. g[U] = h[U]
    BY <1>1, <1>2, <1>3, AddsUpOnce
  <1>5. g[S] = IF S = {} THEN 0 ELSE f[Any(S)] + g[U]
    BY <1>1 DEF AddsUp, U
  <1> QED
    BY <1>1, <1>3, <1>4, <1>5 DEF U

-----------------------------------------------------------------------------
(* Sums of integers *)

LEMMA SumOfNothing ==
  ASSUME NEW f
  PROVE  SumFunctionOnSet(f, {}) = 0
  BY SumEquation, FS_EmptySet

LEMMA SumIsInt ==
  ASSUME NEW f, NEW S, IsFiniteSet(S), \A x \in S : f[x] \in Int
  PROVE  SumFunctionOnSet(f, S) \in Int
  <1> DEFINE Good == {T \in SUBSET S : SumFunctionOnSet(f, T) \in Int}
  <1>1. ASSUME NEW T \in SUBSET S, \A U \in SUBSET T : U # T => U \in Good
        PROVE  T \in Good
    <2>1. IsFiniteSet(T)
      BY FS_Subset
    <2>2. CASE T = {}
      BY <2>2, SumOfNothing
    <2>3. CASE T # {}
      <3>1. Any(T) \in T /\ T \ {Any(T)} \in Good
        BY <1>1, <2>3, AnyIsElement
      <3> QED
        BY <2>1, <2>3, <3>1, SumEquation
    <2> QED
      BY <2>2, <2>3
  <1> HIDE DEF Good
  <1>2. S \in Good
    BY <1>1, AllSubsets
  <1> QED
    BY <1>2 DEF Good

\* Any element may be the one that is added last.
LEMMA SumWithout ==
  ASSUME NEW f, NEW S, IsFiniteSet(S), \A x \in S : f[x] \in Int, NEW e \in S
  PROVE  SumFunctionOnSet(f, S) = f[e] + SumFunctionOnSet(f, S \ {e})
  <1> DEFINE Good == {T \in SUBSET S :
                        \A x \in T : SumFunctionOnSet(f, T) = f[x] + SumFunctionOnSet(f, T \ {x})}
  <1>1. ASSUME NEW T \in SUBSET S, \A U \in SUBSET T : U # T => U \in Good, NEW x \in T
        PROVE  SumFunctionOnSet(f, T) = f[x] + SumFunctionOnSet(f, T \ {x})
    <2> DEFINE a == Any(T)
               U == T \ {x, a}
    <2>1. IsFiniteSet(T) /\ a \in T /\ T # {}
      BY AnyIsElement, FS_Subset
    <2>2. SumFunctionOnSet(f, T) = f[a] + SumFunctionOnSet(f, T \ {a})
      BY <2>1, SumEquation
    <2> HIDE DEF a
    <2>3. CASE x # a
      <3>1. T \ {a} \in Good /\ x \in T \ {a} /\ (T \ {a}) \ {x} = U
        BY <1>1, <2>1, <2>3
      <3>2. T \ {x} \in Good /\ a \in T \ {x} /\ (T \ {x}) \ {a} = U
        BY <1>1, <2>1, <2>3
      <3> HIDE DEF U
      <3>3. SumFunctionOnSet(f, T \ {a}) = f[x] + SumFunctionOnSet(f, U)
        BY <3>1
      <3>4. SumFunctionOnSet(f, T \ {x}) = f[a] + SumFunctionOnSet(f, U)
        BY <3>2
      <3>5. SumFunctionOnSet(f, U) \in Int /\ f[x] \in Int /\ f[a] \in Int
        <4>1. IsFiniteSet(U) /\ U \subseteq S
          BY <2>1, FS_Subset DEF U
        <4> QED
          BY <2>1, <4>1, SumIsInt
      <3> QED
        BY <2>2, <3>3, <3>4, <3>5
    <2> QED
      BY <2>2, <2>3
  <1>2. \A T \in SUBSET S : (\A U \in SUBSET T : U # T => U \in Good) => T \in Good
    BY <1>1
  <1> HIDE DEF Good
  <1>3. S \in Good
    BY <1>2, AllSubsets
  <1> QED
    BY <1>3 DEF Good

LEMMA SumWith ==
  ASSUME NEW f, NEW S, IsFiniteSet(S), NEW e, e \notin S, \A x \in S \cup {e} : f[x] \in Int
  PROVE  SumFunctionOnSet(f, S \cup {e}) = f[e] + SumFunctionOnSet(f, S)
  <1>1. IsFiniteSet(S \cup {e}) /\ (S \cup {e}) \ {e} = S
    BY FS_AddElement
  <1> QED
    BY <1>1, SumWithout

\* Only the values on the set matter.
LEMMA SumSame ==
  ASSUME NEW f, NEW g, NEW S, IsFiniteSet(S), \A x \in S : f[x] \in Int /\ g[x] = f[x]
  PROVE  SumFunctionOnSet(g, S) = SumFunctionOnSet(f, S)
  <1> DEFINE Good == {T \in SUBSET S : SumFunctionOnSet(g, T) = SumFunctionOnSet(f, T)}
  <1>1. {} \in Good
    BY SumOfNothing
  <1>2. ASSUME NEW T \in SUBSET S, NEW x \in T, T \ {x} \in Good PROVE T \in Good
    <2>1. IsFiniteSet(T) /\ \A y \in T : f[y] \in Int /\ g[y] \in Int /\ g[y] = f[y]
      BY FS_Subset
    <2>2. SumFunctionOnSet(g, T \ {x}) = SumFunctionOnSet(f, T \ {x})
      BY <1>2
    <2> QED
      BY <2>1, <2>2, SumWithout
  <1> HIDE DEF Good
  <1>3. S \in Good
    BY <1>1, <1>2, OneByOne
  <1> QED
    BY <1>3 DEF Good

LEMMA SumPlus ==
  ASSUME NEW f, NEW g, NEW h, NEW S, IsFiniteSet(S),
         \A x \in S : f[x] \in Int /\ g[x] \in Int /\ h[x] = f[x] + g[x]
  PROVE  SumFunctionOnSet(h, S) = SumFunctionOnSet(f, S) + SumFunctionOnSet(g, S)
  <1> DEFINE Good == {T \in SUBSET S : SumFunctionOnSet(h, T) = SumFunctionOnSet(f, T) + SumFunctionOnSet(g, T)}
  <1>1. {} \in Good
    BY SumOfNothing
  <1>2. ASSUME NEW T \in SUBSET S, NEW x \in T, T \ {x} \in Good PROVE T \in Good
    <2> DEFINE U == T \ {x}
    <2>1. IsFiniteSet(T) /\ IsFiniteSet(U)
          /\ \A y \in T : f[y] \in Int /\ g[y] \in Int /\ h[y] \in Int /\ h[y] = f[y] + g[y]
      BY FS_Subset
    <2>2. SumFunctionOnSet(h, U) = SumFunctionOnSet(f, U) + SumFunctionOnSet(g, U)
      BY <1>2
    <2>3. /\ SumFunctionOnSet(f, T) = f[x] + SumFunctionOnSet(f, U)
          /\ SumFunctionOnSet(g, T) = g[x] + SumFunctionOnSet(g, U)
          /\ SumFunctionOnSet(h, T) = h[x] + SumFunctionOnSet(h, U)
      BY <2>1, SumWithout
    <2>4. SumFunctionOnSet(f, U) \in Int /\ SumFunctionOnSet(g, U) \in Int
      <3>1. \A y \in U : f[y] \in Int /\ g[y] \in Int
        BY <2>1
      <3> HIDE DEF U
      <3> QED
        BY <2>1, <3>1, SumIsInt
    <2> HIDE DEF U
    <2> QED
      BY <2>1, <2>2, <2>3, <2>4
  <1> HIDE DEF Good
  <1>3. S \in Good
    BY <1>1, <1>2, OneByOne
  <1> QED
    BY <1>3 DEF Good

LEMMA SumOfZeros ==
  ASSUME NEW f, NEW S, IsFiniteSet(S), \A x \in S : f[x] = 0
  PROVE  SumFunctionOnSet(f, S) = 0
  <1> DEFINE Good == {T \in SUBSET S : SumFunctionOnSet(f, T) = 0}
  <1>1. {} \in Good
    BY SumOfNothing
  <1>2. ASSUME NEW T \in SUBSET S, NEW x \in T, T \ {x} \in Good PROVE T \in Good
    <2>1. IsFiniteSet(T) /\ \A y \in T : f[y] = 0
      BY FS_Subset
    <2>2. SumFunctionOnSet(f, T) = f[x] + SumFunctionOnSet(f, T \ {x})
      BY <2>1, SumWithout
    <2> QED
      BY <1>2, <2>1, <2>2
  <1> HIDE DEF Good
  <1>3. S \in Good
    BY <1>1, <1>2, OneByOne
  <1> QED
    BY <1>3 DEF Good

LEMMA SumNegated ==
  ASSUME NEW f, NEW g, NEW S, IsFiniteSet(S), \A x \in S : f[x] \in Int /\ g[x] = -f[x]
  PROVE  SumFunctionOnSet(g, S) = -SumFunctionOnSet(f, S)
  <1> DEFINE zero == [x \in S |-> 0]
  <1>1. SumFunctionOnSet(zero, S) = 0
    BY SumOfZeros
  <1>2. \A x \in S : f[x] \in Int /\ g[x] \in Int /\ zero[x] = f[x] + g[x]
    OBVIOUS
  <1> HIDE DEF zero
  <1>3. SumFunctionOnSet(zero, S) = SumFunctionOnSet(f, S) + SumFunctionOnSet(g, S)
    BY <1>2, SumPlus
  <1>4. SumFunctionOnSet(f, S) \in Int /\ SumFunctionOnSet(g, S) \in Int
    BY <1>2, SumIsInt
  <1> QED
    BY <1>1, <1>3, <1>4

\* What is 0 may be left out.
LEMMA SumOfPart ==
  ASSUME NEW f, NEW S, IsFiniteSet(S), NEW P \in SUBSET S, \A x \in S : f[x] \in Int, \A x \in S \ P : f[x] = 0
  PROVE  SumFunctionOnSet(f, S) = SumFunctionOnSet(f, P)
  <1> DEFINE Good == {T \in SUBSET S : SumFunctionOnSet(f, T) = SumFunctionOnSet(f, T \cap P)}
  <1>1. {} \in Good
    <2>1. {} \cap P = {}
      OBVIOUS
    <2> QED
      BY <2>1
  <1>2. ASSUME NEW T \in SUBSET S, NEW x \in T, T \ {x} \in Good PROVE T \in Good
    <2>1. IsFiniteSet(T) /\ IsFiniteSet(T \cap P) /\ \A y \in T : f[y] \in Int
      BY FS_Subset
    <2> DEFINE U == T \ {x}
    <2>2. SumFunctionOnSet(f, T) = f[x] + SumFunctionOnSet(f, U)
      BY <2>1, SumWithout
    <2>3. SumFunctionOnSet(f, U) = SumFunctionOnSet(f, U \cap P)
      BY <1>2
    <2>4. CASE x \in P
      <3>1. SumFunctionOnSet(f, T \cap P) = f[x] + SumFunctionOnSet(f, (T \cap P) \ {x})
        BY <2>1, <2>4, SumWithout
      <3>2. (T \cap P) \ {x} = U \cap P
        OBVIOUS
      <3> HIDE DEF U
      <3>3. SumFunctionOnSet(f, T) = SumFunctionOnSet(f, T \cap P)
        BY <2>2, <2>3, <3>1, <3>2
      <3> QED
        BY <3>3
    <2>5. CASE x \notin P
      <3>1. f[x] = 0 /\ U \cap P = T \cap P
        BY <2>5
      <3>2. SumFunctionOnSet(f, T \cap P) \in Int
        <4>1. \A y \in T \cap P : f[y] \in Int
          BY <2>1
        <4> QED
          BY <2>1, <4>1, SumIsInt
      <3>3. SumFunctionOnSet(f, U) = SumFunctionOnSet(f, T \cap P)
        BY <2>3, <3>1
      <3> HIDE DEF U
      <3>4. SumFunctionOnSet(f, T) = SumFunctionOnSet(f, T \cap P)
        BY <2>2, <3>1, <3>2, <3>3
      <3> QED
        BY <3>4
    <2> QED
      BY <2>4, <2>5
  <1> HIDE DEF Good
  <1>3. S \in Good
    BY <1>1, <1>2, OneByOne
  <1>4. S \cap P = P
    OBVIOUS
  <1> QED
    BY <1>3, <1>4 DEF Good

\* The sum of a single value.
LEMMA SumOfOne ==
  ASSUME NEW f, NEW S, IsFiniteSet(S), NEW e \in S, f[e] \in Int, \A x \in S \ {e} : f[x] = 0
  PROVE  SumFunctionOnSet(f, S) = f[e]
  <1>1. \A x \in S : f[x] \in Int
    OBVIOUS
  <1>2. SumFunctionOnSet(f, S) = f[e] + SumFunctionOnSet(f, S \ {e})
    BY <1>1, SumWithout
  <1>3. SumFunctionOnSet(f, S \ {e}) = 0
    BY SumOfZeros, FS_Subset
  <1> QED
    BY <1>2, <1>3

LEMMA SumBetween ==
  ASSUME NEW f, NEW S, IsFiniteSet(S), NEW low \in Int, NEW high \in Int,
         \A x \in S : f[x] \in Int /\ low <= f[x] /\ f[x] <= high
  PROVE  /\ Cardinality(S) * low <= SumFunctionOnSet(f, S)
         /\ SumFunctionOnSet(f, S) <= Cardinality(S) * high
  <1> DEFINE Fits(T) == /\ Cardinality(T) * low <= SumFunctionOnSet(f, T)
                        /\ SumFunctionOnSet(f, T) <= Cardinality(T) * high
             Good == {T \in SUBSET S : Fits(T)}
  <1>1. {} \in Good
    BY SumOfNothing, FS_EmptySet
  <1>2. ASSUME NEW T \in SUBSET S, NEW x \in T, T \ {x} \in Good PROVE T \in Good
    <2> DEFINE U == T \ {x}
               n == Cardinality(U)
    <2>1. IsFiniteSet(T) /\ IsFiniteSet(U) /\ \A y \in T : f[y] \in Int
      BY FS_Subset
    <2>2. n \in Nat /\ Cardinality(T) = n + 1
      BY <2>1, FS_CardinalityType, FS_RemoveElement
    <2>3. SumFunctionOnSet(f, T) = f[x] + SumFunctionOnSet(f, U)
      BY <2>1, SumWithout
    <2>4. SumFunctionOnSet(f, U) \in Int
      <3>1. \A y \in U : f[y] \in Int
        BY <2>1
      <3> HIDE DEF U
      <3> QED
        BY <2>1, <3>1, SumIsInt
    <2>5. n * low <= SumFunctionOnSet(f, U) /\ SumFunctionOnSet(f, U) <= n * high
      BY <1>2
    <2> HIDE DEF n, U
    <2>6. (n + 1) * low = n * low + low /\ (n + 1) * high = n * high + high
          /\ n * low \in Int /\ n * high \in Int
      BY <2>2
    <2>7. f[x] \in Int /\ low <= f[x] /\ f[x] <= high
      OBVIOUS
    <2>8. Fits(T)
      BY <2>2, <2>3, <2>4, <2>5, <2>6, <2>7
    <2> QED
      BY <2>8
  <1> HIDE DEF Good
  <1>3. S \in Good
    BY <1>1, <1>2, OneByOne
  <1> QED
    BY <1>3 DEF Good

\* How many there are of something.
LEMMA SumCounts ==
  ASSUME NEW f, NEW S, IsFiniteSet(S), NEW P \in SUBSET S, \A x \in S : f[x] = IF x \in P THEN 1 ELSE 0
  PROVE  SumFunctionOnSet(f, S) = Cardinality(P)
  <1>1. IsFiniteSet(P) /\ Cardinality(P) \in Nat
    BY FS_Subset, FS_CardinalityType
  <1>2. SumFunctionOnSet(f, S) = SumFunctionOnSet(f, P)
    BY SumOfPart
  <1>3. \A x \in P : f[x] \in Int /\ 1 <= f[x] /\ f[x] <= 1
    OBVIOUS
  <1>4. Cardinality(P) * 1 <= SumFunctionOnSet(f, P) /\ SumFunctionOnSet(f, P) <= Cardinality(P) * 1
        /\ SumFunctionOnSet(f, P) \in Int
    BY <1>1, <1>3, SumBetween, SumIsInt
  <1> QED
    BY <1>1, <1>2, <1>4

\* The totals of the rows and of the columns of a table of numbers; column is the same table by its columns.
Table(f, S, rows, column, T, columns) ==
  /\ IsFiniteSet(S) /\ IsFiniteSet(T)
  /\ \A x \in S, y \in T : f[x][y] \in Int /\ column[y][x] = f[x][y]
  /\ \A x \in S : rows[x] = SumFunctionOnSet(f[x], T)
  /\ \A y \in T : columns[y] = SumFunctionOnSet(column[y], S)

\* Both add up to the same.
LEMMA SumSwap ==
  ASSUME NEW f, NEW S, NEW T, NEW rows, NEW column, NEW columns, Table(f, S, rows, column, T, columns)
  PROVE  SumFunctionOnSet(rows, S) = SumFunctionOnSet(columns, T)
  <1> USE DEF Table
  <1> DEFINE over(U) == [y \in T |-> SumFunctionOnSet(column[y], U)]
             Good == {U \in SUBSET S : SumFunctionOnSet(rows, U) = SumFunctionOnSet(over(U), T)}
  <1>1. {} \in Good
    <2>1. \A y \in T : over({})[y] = 0
      BY SumOfNothing
    <2> HIDE DEF over
    <2> QED
      BY <2>1, SumOfNothing, SumOfZeros
  <1>2. ASSUME NEW U \in SUBSET S, NEW x \in U, U \ {x} \in Good PROVE U \in Good
    <2> DEFINE V == U \ {x}
    <2>1. IsFiniteSet(U) /\ IsFiniteSet(V) /\ V \in SUBSET S
      BY FS_Subset
    <2>2. \A z \in S : rows[z] \in Int
      BY SumIsInt
    <2>3. SumFunctionOnSet(rows, U) = rows[x] + SumFunctionOnSet(rows, V)
      BY <2>1, <2>2, SumWithout
    <2>4. ASSUME NEW y \in T
          PROVE  f[x][y] \in Int /\ over(V)[y] \in Int /\ over(U)[y] = f[x][y] + over(V)[y]
      <3>1. /\ \A z \in U : column[y][z] \in Int
            /\ \A z \in V : column[y][z] \in Int
            /\ column[y][x] = f[x][y]
        OBVIOUS
      <3> HIDE DEF V
      <3>2. SumFunctionOnSet(column[y], V) \in Int
        BY <2>1, <3>1, SumIsInt
      <3>3. SumFunctionOnSet(column[y], U) = column[y][x] + SumFunctionOnSet(column[y], V)
        BY <2>1, <3>1, SumWithout DEF V
      <3> QED
        BY <3>1, <3>2, <3>3
    <2> HIDE DEF V, over
    <2>5. SumFunctionOnSet(over(U), T) = SumFunctionOnSet(f[x], T) + SumFunctionOnSet(over(V), T)
      BY <2>4, SumPlus
    <2>6. SumFunctionOnSet(rows, V) = SumFunctionOnSet(over(V), T)
      BY <1>2 DEF V
    <2>7. SumFunctionOnSet(rows, U) = SumFunctionOnSet(over(U), T)
      BY <2>3, <2>5, <2>6
    <2> QED
      BY <2>7
  <1>3. S \in Good
    <2> HIDE DEF Good
    <2> QED
      BY <1>1, <1>2, OneByOne
  <1>4. SumFunctionOnSet(rows, S) = SumFunctionOnSet(over(S), T)
    BY <1>3
  <1>5. \A y \in T : over(S)[y] = columns[y] /\ over(S)[y] \in Int
    <2> SUFFICES ASSUME NEW y \in T PROVE over(S)[y] = columns[y] /\ over(S)[y] \in Int
      OBVIOUS
    <2>1. \A x \in S : column[y][x] \in Int
      OBVIOUS
    <2>2. SumFunctionOnSet(column[y], S) \in Int
      BY <2>1, SumIsInt
    <2> QED
      BY <2>2
  <1> HIDE DEF over
  <1> QED
    BY <1>4, <1>5, SumSame

\* The same values under other names.
LEMMA SumRenamed ==
  ASSUME NEW S, IsFiniteSet(S), NEW name, \A x, y \in S : name[x] = name[y] => x = y,
         NEW f, NEW g, \A x \in S : g[x] \in Int /\ f[name[x]] = g[x]
  PROVE  SumFunctionOnSet(f, {name[x] : x \in S}) = SumFunctionOnSet(g, S)
  <1> DEFINE Named(T) == {name[x] : x \in T}
             Good == {T \in SUBSET S : IsFiniteSet(Named(T)) /\ SumFunctionOnSet(f, Named(T)) = SumFunctionOnSet(g, T)}
  <1>1. {} \in Good
    <2>1. Named({}) = {}
      OBVIOUS
    <2> HIDE DEF Named
    <2> QED
      BY <2>1, FS_EmptySet, SumOfNothing
  <1>2. ASSUME NEW T \in SUBSET S, NEW x \in T, T \ {x} \in Good PROVE T \in Good
    <2> DEFINE U == T \ {x}
    <2>1. IsFiniteSet(T) /\ \A y \in T : g[y] \in Int
      BY FS_Subset
    <2>2. IsFiniteSet(Named(U)) /\ SumFunctionOnSet(f, Named(U)) = SumFunctionOnSet(g, U)
      BY <1>2
    <2>3. Named(T) = Named(U) \cup {name[x]} /\ name[x] \notin Named(U)
      OBVIOUS
    <2>4. \A n \in Named(U) \cup {name[x]} : f[n] \in Int
      OBVIOUS
    <2>5. SumFunctionOnSet(g, T) = g[x] + SumFunctionOnSet(g, U)
      BY <2>1, SumWithout
    <2> HIDE DEF Named, U
    <2>6. SumFunctionOnSet(f, Named(T)) = f[name[x]] + SumFunctionOnSet(f, Named(U))
      BY <2>2, <2>3, <2>4, SumWith
    <2>7. IsFiniteSet(Named(T))
      BY <2>2, <2>3, FS_AddElement
    <2> QED
      BY <2>2, <2>5, <2>6, <2>7
  <1>3. S \in Good
    <2> HIDE DEF Good
    <2> QED
      BY <1>1, <1>2, OneByOne
  <1> QED
    BY <1>3

\* Of finitely many numbers, as many as one asks for have fewer than that before them.
LEMMA SomeAreFirst ==
  ASSUME NEW S \in SUBSET Nat, IsFiniteSet(S), NEW k \in Nat, k <= Cardinality(S)
  PROVE  Cardinality({n \in S : Cardinality({m \in S : m < n}) < k}) = k
  <1> DEFINE rank(n, T) == Cardinality({m \in T : m < n})
             first(T, j) == {n \in T : rank(n, T) < j}
             Good == {T \in SUBSET S : \A j \in Nat : j <= Cardinality(T) => Cardinality(first(T, j)) = j}
  <1>1. \A T \in SUBSET S : IsFiniteSet(T) /\ Cardinality(T) \in Nat /\ T \in SUBSET Nat
    BY FS_Subset, FS_CardinalityType
  <1>2. ASSUME NEW T \in SUBSET S, \A U \in SUBSET T : U # T => U \in Good,
               NEW j \in Nat, j <= Cardinality(T)
        PROVE  Cardinality(first(T, j)) = j
    <2>1. CASE T = {}
      <3>1. first(T, j) = {} /\ Cardinality({}) = 0
        BY <2>1, FS_EmptySet
      <3>2. j = 0
        BY <1>2, <2>1, <3>1
      <3> HIDE DEF first
      <3> QED
        BY <3>1, <3>2
    <2>2. CASE T # {}
      <3>1. PICK n \in T : \A m \in T : m <= n
        BY <1>1, <2>2, GreatestOf
      <3> DEFINE U == T \ {n}
      <3>2. n \in Nat /\ U \in SUBSET T /\ U # T /\ T \subseteq Nat
        BY <1>1, <3>1
      <3>3. Cardinality(U) = Cardinality(T) - 1 /\ Cardinality(T) \in Nat /\ Cardinality(U) \in Nat
        BY <1>1, <3>1, <3>2, FS_RemoveElement
      <3>4. \A m \in T : {i \in T : i < m} = {i \in U : i < m} /\ {i \in T : i < m} \in SUBSET U
        BY <3>1, <3>2
      <3>5. \A m \in T : rank(m, T) = rank(m, U) /\ rank(m, T) \in Nat /\ rank(m, T) <= Cardinality(U)
        <4> TAKE m \in T
        <4> DEFINE less == {i \in T : i < m}
        <4>1. less = {i \in U : i < m} /\ less \in SUBSET U
          BY <3>4
        <4>2. Cardinality(less) \in Nat /\ Cardinality(less) <= Cardinality(U)
          BY <1>1, <3>2, <4>1, FS_Subset
        <4> QED
          BY <4>1, <4>2
      <3>6. rank(n, T) = Cardinality(U)
        <4>1. \A i \in T : i < n <=> i # n
          BY <3>1, <3>2
        <4>2. {i \in T : i < n} = U
          BY <3>1, <3>2, <4>1
        <4> QED
          BY <4>2
      <3> HIDE DEF rank, U
      <3>7. CASE j = Cardinality(T)
        <4>1. \A m \in T : rank(m, T) < j
          BY <3>3, <3>5, <3>7
        <4>2. first(T, j) = T
          BY <4>1
        <4> QED
          BY <3>7, <4>2
      <3>8. CASE j # Cardinality(T)
        <4>1. j <= Cardinality(U)
          BY <1>2, <3>3, <3>8
        <4>2. first(T, j) = first(U, j)
          <5>1. \A m \in T : rank(m, T) < j <=> m \in U /\ rank(m, U) < j
            BY <3>1, <3>3, <3>5, <3>6, <4>1 DEF U
          <5>2. U \subseteq T
            BY DEF U
          <5> QED
            BY <5>1, <5>2
        <4>3. U \in Good
          BY <1>2, <3>2
        <4>4. Cardinality(first(U, j)) = j
          BY <4>1, <4>3
        <4> QED
          BY <4>2, <4>4
      <3> QED
        BY <3>7, <3>8
    <2> QED
      BY <2>1, <2>2
  <1>3. \A T \in SUBSET S : (\A U \in SUBSET T : U # T => U \in Good) => T \in Good
    BY <1>2
  <1>4. S \in Good
    <2> HIDE DEF Good
    <2> QED
      BY <1>3, AllSubsets
  <1> QED
    BY <1>4

=============================================================================
