----------------------------- MODULE Arithmetic -----------------------------
(***************************************************************************)
(* What the proofs of the other modules need of Solidity's integer         *)
(* division, of products of unsigned integers, and of sums over a finite   *)
(* set (SumFunction of the community module Functions).                    *)
(*                                                                         *)
(* SumFunction is a fold, defined by recursion on the set.  Its facts are  *)
(* proved by taking a smallest set that violates them, which exists since  *)
(* the strict subsets of a finite set are well-founded.                    *)
(***************************************************************************)
EXTENDS Functions, Integers, FiniteSetTheorems, TLAPS

(* What a floor division returns.                                          *)
LEMMA FloorDivision ==
    ASSUME NEW n \in Nat, NEW d \in Nat \ {0}
    PROVE  /\ n \div d \in Nat
           /\ (n \div d) * d <= n
           /\ n < (n \div d) * d + d
  BY SMT

LEMMA ProductType == ASSUME NEW a \in Nat, NEW b \in Nat PROVE a * b \in Nat
  BY SMT

(* A product order can be cancelled.                                       *)
LEMMA CancelFactor ==
    ASSUME NEW p \in Nat, NEW q \in Nat, NEW x \in Nat \ {0}, p * x <= q * x
    PROVE  p <= q
  BY SMT

(* A floor division does not fall when the dividend grows.                 *)
LEMMA DivisionMonotone ==
    ASSUME NEW a \in Nat, NEW b \in Nat, NEW d \in Nat \ {0}, a <= b
    PROVE  a \div d <= b \div d
  BY SMT

(* Products grow with their factors.                                       *)
LEMMA ProductMonotone ==
    ASSUME NEW a \in Nat, NEW b \in Nat, NEW c \in Nat, a <= b
    PROVE  a * c <= b * c
  BY SMT

(* Products distribute.                                                    *)
LEMMA Distribution ==
    ASSUME NEW a \in Int, NEW b \in Int, NEW c \in Int
    PROVE  /\ a * b \in Int /\ a * c \in Int
           /\ a * (b + c) = a * b + a * c
           /\ a * (b - c) = a * b - a * c
           /\ b * a = a * b
  BY SMT

-----------------------------------------------------------------------------
(* The recursion that defines a sum has one solution.                      *)

\* The value at T of a solution g: take an element out, add the rest.
Parts(f, g, T) ==
    IF T = {} THEN 0
    ELSE LET x == CHOOSE x \in T : TRUE IN f[x] + g[T \ {x}]

(* A sum is the value of a chosen solution.                                *)
LEMMA SumUnfolded ==
    ASSUME NEW f, NEW S
    PROVE  SumFunctionOnSet(f, S) =
              (CHOOSE g : g = [T \in SUBSET S |-> Parts(f, g, T)])[S]
  BY SMT DEF SumFunctionOnSet, FoldFunctionOnSet, MapThenFoldSet, Parts

(* A set of naturals that is not empty has a least element.                *)
LEMMA Least ==
    ASSUME NEW T, T \subseteq Nat, T # {}
    PROVE  \E n \in T : \A m \in T : n <= m
<1>1. PICK n \in T : \A m \in T : ~(<<m, n>> \in OpToRel(<, Nat))
  BY WFMin, NatLessThanWellFounded, Zenon
<1>2. ASSUME NEW m \in T PROVE n <= m
  <2>1. <<m, n>> \in Nat \X Nat /\ <<m, n>>[1] = m /\ <<m, n>>[2] = n
    OBVIOUS
  <2>2. ~(<<m, n>>[1] < <<m, n>>[2])
    BY <1>1, <2>1, Zenon DEF OpToRel
  <2> QED
    BY <2>1, <2>2
<1> QED
  BY <1>2

\* The subsets of S with at most n elements.
Small(S, n) == {T \in SUBSET S : Cardinality(T) <= n}

\* g solves the recursion on the sets in D, or on all subsets of S.
Solves(g, f, D) == g = [T \in D |-> Parts(f, g, T)]
SolvesOver(g, f, S) == Solves(g, f, SUBSET S)

(* A solution on the small subsets gives one on those of one more element. *)
LEMMA OneMoreElement ==
    ASSUME NEW f, NEW S, IsFiniteSet(S), NEW n \in Nat,
           NEW g, Solves(g, f, Small(S, n))
    PROVE  \E h : Solves(h, f, Small(S, n + 1))
<1> DEFINE h == [T \in Small(S, n + 1) |-> Parts(f, g, T)]
<1>1. ASSUME NEW T \in Small(S, n + 1), NEW x \in T
      PROVE  T \ {x} \in Small(S, n) /\ T \ {x} \in Small(S, n + 1)
  <2>1. IsFiniteSet(T) /\ Cardinality(T) \in Nat /\ Cardinality(T) <= n + 1
    BY FS_Subset, FS_CardinalityType DEF Small
  <2>2. Cardinality(T \ {x}) = Cardinality(T) - 1
    BY <2>1, FS_RemoveElement
  <2> QED
    BY <2>1, <2>2 DEF Small
<1>2. ASSUME NEW U \in Small(S, n) \cap Small(S, n + 1) PROVE g[U] = h[U]
  <2>1. g[U] = Parts(f, g, U)
    BY DEF Solves
  <2> QED
    BY <2>1
<1>3. ASSUME NEW T \in Small(S, n + 1) PROVE h[T] = Parts(f, h, T)
  <2>1. CASE T = {}
    BY <2>1 DEF Parts
  <2>2. CASE T # {}
    <3> DEFINE x == CHOOSE x \in T : TRUE
    <3>1. x \in T
      BY <2>2
    <3>2. g[T \ {x}] = h[T \ {x}]
      BY <1>1, <1>2, <3>1
    <3> QED
      BY <2>2, <3>2 DEF Parts
  <2> QED
    BY <2>1, <2>2
<1> QED
  BY <1>3 DEF Solves

(* So there is one on all subsets of a finite set.                         *)
LEMMA Solvable ==
    ASSUME NEW f, NEW S, IsFiniteSet(S)
    PROVE  \E g : Solves(g, f, SUBSET S)
<1> DEFINE Bad == {n \in Nat : ~ \E g : Solves(g, f, Small(S, n))}
<1>1. 0 \notin Bad
  <2>1. ASSUME NEW T \in Small(S, 0) PROVE T = {}
    BY FS_Subset, FS_CardinalityType, FS_EmptySet DEF Small
  <2>2. Solves([T \in Small(S, 0) |-> 0], f, Small(S, 0))
    BY <2>1 DEF Solves, Parts
  <2> QED
    BY <2>2
<1>2. Bad = {}
  <2> SUFFICES ASSUME Bad # {} PROVE FALSE
    OBVIOUS
  <2>1. PICK n \in Bad : \A m \in Bad : n <= m
    BY Least
  <2>2. n - 1 \in Nat /\ n - 1 \notin Bad
    BY <1>1, <2>1
  <2>3. PICK g : Solves(g, f, Small(S, n - 1))
    BY <2>2
  <2>4. \E h : Solves(h, f, Small(S, (n - 1) + 1))
    BY <2>2, <2>3, OneMoreElement
  <2> QED
    BY <2>1, <2>2, <2>4
<1>3. Cardinality(S) \in Nat /\ Small(S, Cardinality(S)) = SUBSET S
  BY FS_CardinalityType, FS_Subset DEF Small
<1>4. Cardinality(S) \notin Bad
  BY <1>2
<1>5. \E g : Solves(g, f, Small(S, Cardinality(S)))
  BY <1>3, <1>4
<1> QED
  BY <1>3, <1>5

(* Among the subsets of a finite set that violate something there is one   *)
(* that stops violating it when any one element is taken away.             *)
LEMMA SmallestViolation ==
    ASSUME NEW S, IsFiniteSet(S), NEW Bad, Bad \subseteq SUBSET S, Bad # {}
    PROVE  \E T \in Bad : \A x \in T : T \ {x} \notin Bad
<1>1. IsWellFoundedOn(StrictSubsetOrdering(S), SUBSET S)
  BY FS_StrictSubsetOrderingWellFounded, FS_FiniteSubsetsOfFinite
<1>2. PICK T \in Bad : \A U \in Bad : ~(<<U, T>> \in StrictSubsetOrdering(S))
  BY <1>1, WFMin, Zenon
<1>3. ASSUME NEW x \in T, T \ {x} \in Bad PROVE FALSE
  <2>1. <<T \ {x}, T>> \in StrictSubsetOrdering(S)
    BY <1>3 DEF StrictSubsetOrdering
  <2> QED
    BY <1>2, <1>3, <2>1
<1> QED
  BY <1>3

(* Two solutions agree where both are defined.                             *)
LEMMA SolvedOnce ==
    ASSUME NEW f, NEW S, IsFiniteSet(S), NEW U \in SUBSET S,
           NEW g, SolvesOver(g, f, S), NEW h, SolvesOver(h, f, U)
    PROVE  g[U] = h[U]
<1> DEFINE Bad == {T \in SUBSET U : g[T] # h[T]}
<1>1. IsFiniteSet(U)
  BY FS_Subset
<1>2. Bad = {}
  <2> SUFFICES ASSUME Bad # {} PROVE FALSE
    OBVIOUS
  <2>1. PICK T \in Bad : \A x \in T : T \ {x} \notin Bad
    <3>1. Bad \subseteq SUBSET U
      OBVIOUS
    <3> QED
      BY <1>1, <3>1, SmallestViolation
  <2>2. g[T] = Parts(f, g, T) /\ h[T] = Parts(f, h, T)
    BY DEF SolvesOver, Solves
  <2>3. \A x \in T : g[T \ {x}] = h[T \ {x}]
    BY <2>1
  <2>4. Parts(f, g, T) = Parts(f, h, T)
    <3>1. CASE T = {}
      BY <3>1 DEF Parts
    <3>2. CASE T # {}
      <4> DEFINE x == CHOOSE x \in T : TRUE
      <4>1. x \in T
        BY <3>2
      <4>2. g[T \ {x}] = h[T \ {x}]
        BY <2>3, <4>1
      <4> QED
        BY <3>2, <4>2 DEF Parts
    <3> QED
      BY <3>1, <3>2
  <2> QED
    BY <2>1, <2>2, <2>4
<1> QED
  BY <1>2

\* The element that a sum over S takes out first.
Chosen(S) == CHOOSE x \in S : TRUE

(* A sum over a finite set satisfies its recursion.                        *)
LEMMA SumEquation ==
    ASSUME NEW f, NEW S, IsFiniteSet(S)
    PROVE  /\ S = {} => SumFunctionOnSet(f, S) = 0
           /\ S # {} => SumFunctionOnSet(f, S) =
                          f[Chosen(S)] + SumFunctionOnSet(f, S \ {Chosen(S)})
<1> DEFINE Solution(T) == CHOOSE g : SolvesOver(g, f, T)
<1>1. ASSUME NEW T \in SUBSET S
      PROVE  SumFunctionOnSet(f, T) = Solution(T)[T] /\ SolvesOver(Solution(T), f, T)
  <2>1. IsFiniteSet(T)
    BY FS_Subset
  <2>2. SolvesOver(Solution(T), f, T)
    BY <2>1, Solvable DEF SolvesOver
  <2>3. SumFunctionOnSet(f, T) = Solution(T)[T]
    BY SumUnfolded, Zenon DEF SolvesOver, Solves
  <2> QED
    BY <2>2, <2>3
<1> HIDE DEF Solution
<1>2. Solution(S)[S] = Parts(f, Solution(S), S)
  <2>1. SolvesOver(Solution(S), f, S) /\ S \in SUBSET S
    BY <1>1
  <2> QED
    BY <2>1 DEF SolvesOver, Solves
<1>3. CASE S = {}
  BY <1>1, <1>2, <1>3 DEF Parts
<1>4. CASE S # {}
  <2> DEFINE U == S \ {Chosen(S)}
  <2>1. Solution(S)[U] = Solution(U)[U]
    <3>1. U \in SUBSET S /\ S \in SUBSET S
      OBVIOUS
    <3>2. SolvesOver(Solution(S), f, S) /\ SolvesOver(Solution(U), f, U)
      BY <1>1, <3>1
    <3> HIDE DEF U
    <3>3. ASSUME NEW g, NEW h, SolvesOver(g, f, S), SolvesOver(h, f, U)
          PROVE  g[U] = h[U]
      BY <3>1, <3>3, SolvedOnce
    <3> QED
      BY <3>2, <3>3
  <2> QED
    BY <1>1, <1>2, <1>4, <2>1 DEF Parts, Chosen
<1> QED
  BY <1>3, <1>4

-----------------------------------------------------------------------------
(* Sums of integers over a finite set.                                     *)

(* Two functions that agree on a set have the same sum over it, and it is  *)
(* an integer.                                                             *)
LEMMA SumOnSame ==
    ASSUME NEW S, IsFiniteSet(S), NEW f, NEW g, \A x \in S : f[x] = g[x] /\ f[x] \in Int
    PROVE  /\ SumFunctionOnSet(f, S) = SumFunctionOnSet(g, S)
           /\ SumFunctionOnSet(f, S) \in Int
<1> DEFINE P(T) == /\ SumFunctionOnSet(f, T) = SumFunctionOnSet(g, T)
                   /\ SumFunctionOnSet(f, T) \in Int
           Bad == {T \in SUBSET S : ~P(T)}
<1> SUFFICES ASSUME Bad # {} PROVE FALSE
  OBVIOUS
<1>1. PICK T \in Bad : \A x \in T : T \ {x} \notin Bad
  <2>1. Bad \subseteq SUBSET S
    OBVIOUS
  <2> QED
    BY <2>1, SmallestViolation
<1>2. IsFiniteSet(T) /\ T \in SUBSET S
  BY FS_Subset
<1>3. CASE T = {}
  <2>1. SumFunctionOnSet(f, T) = 0 /\ SumFunctionOnSet(g, T) = 0
    BY <1>2, <1>3, SumEquation
  <2> QED
    BY <2>1
<1>4. CASE T # {}
  <2>1. Chosen(T) \in T
    BY <1>4 DEF Chosen
  <2>2. P(T \ {Chosen(T)})
    BY <1>1, <2>1
  <2>3. /\ SumFunctionOnSet(f, T) = f[Chosen(T)] + SumFunctionOnSet(f, T \ {Chosen(T)})
        /\ SumFunctionOnSet(g, T) = g[Chosen(T)] + SumFunctionOnSet(g, T \ {Chosen(T)})
    BY <1>2, <1>4, SumEquation
  <2>4. f[Chosen(T)] = g[Chosen(T)] /\ f[Chosen(T)] \in Int
    BY <1>2, <2>1
  <2> QED
    BY <2>2, <2>3, <2>4
<1> QED
  BY <1>3, <1>4

(* Any element may be taken out first.                                     *)
LEMMA SumRemove ==
    ASSUME NEW S, IsFiniteSet(S), NEW f, \A x \in S : f[x] \in Int, NEW x \in S
    PROVE  SumFunctionOnSet(f, S) = f[x] + SumFunctionOnSet(f, S \ {x})
<1> DEFINE P(T) == \A y \in T : SumFunctionOnSet(f, T) = f[y] + SumFunctionOnSet(f, T \ {y})
           Bad == {T \in SUBSET S : ~P(T)}
<1> SUFFICES ASSUME Bad # {} PROVE FALSE
  OBVIOUS
<1>1. PICK T \in Bad : \A y \in T : T \ {y} \notin Bad
  <2>1. Bad \subseteq SUBSET S
    OBVIOUS
  <2> QED
    BY <2>1, SmallestViolation
<1>2. IsFiniteSet(T) /\ T \in SUBSET S
  BY FS_Subset
<1>3. PICK y \in T : ~(SumFunctionOnSet(f, T) = f[y] + SumFunctionOnSet(f, T \ {y}))
  OBVIOUS
<1> DEFINE c == Chosen(T)
<1>4. c \in T /\ SumFunctionOnSet(f, T) = f[c] + SumFunctionOnSet(f, T \ {c})
  BY <1>2, <1>3, SumEquation DEF Chosen
<1>5. c # y
  BY <1>3, <1>4
<1>6. y \in T \ {c} /\ c \in T \ {y} /\ (T \ {c}) \ {y} = (T \ {y}) \ {c}
  BY <1>4, <1>5
<1>7. SumFunctionOnSet(f, T \ {c}) = f[y] + SumFunctionOnSet(f, (T \ {c}) \ {y})
  BY <1>1, <1>4, <1>6
<1>8. SumFunctionOnSet(f, T \ {y}) = f[c] + SumFunctionOnSet(f, (T \ {c}) \ {y})
  BY <1>1, <1>6
<1>9. /\ f[c] \in Int /\ f[y] \in Int
      /\ SumFunctionOnSet(f, (T \ {c}) \ {y}) \in Int
  <2>1. IsFiniteSet((T \ {c}) \ {y}) /\ \A z \in (T \ {c}) \ {y} : f[z] = f[z] /\ f[z] \in Int
    BY <1>2, FS_Subset
  <2>2. SumFunctionOnSet(f, (T \ {c}) \ {y}) \in Int
    BY <2>1, SumOnSame
  <2> QED
    BY <1>2, <1>4, <2>2
<1> HIDE DEF c
<1> QED
  BY <1>3, <1>4, <1>7, <1>8, <1>9

(* A linear combination of two functions carries over to their sums.       *)
LEMMA SumOnLinear ==
    ASSUME NEW S, IsFiniteSet(S), NEW f, NEW g, NEW h, NEW k \in Int,
           \A x \in S : f[x] \in Int /\ g[x] \in Int /\ h[x] \in Int /\ f[x] = g[x] + k * h[x]
    PROVE  SumFunctionOnSet(f, S) = SumFunctionOnSet(g, S) + k * SumFunctionOnSet(h, S)
<1> DEFINE P(T) == SumFunctionOnSet(f, T) = SumFunctionOnSet(g, T) + k * SumFunctionOnSet(h, T)
           Bad == {T \in SUBSET S : ~P(T)}
<1> SUFFICES ASSUME Bad # {} PROVE FALSE
  OBVIOUS
<1>1. PICK T \in Bad : \A y \in T : T \ {y} \notin Bad
  <2>1. Bad \subseteq SUBSET S
    OBVIOUS
  <2> QED
    BY <2>1, SmallestViolation
<1>2. IsFiniteSet(T) /\ T \in SUBSET S
  BY FS_Subset
<1>3. CASE T = {}
  <2>1. SumFunctionOnSet(f, T) = 0 /\ SumFunctionOnSet(g, T) = 0 /\ SumFunctionOnSet(h, T) = 0
    BY <1>2, <1>3, SumEquation
  <2> QED
    BY <2>1
<1>4. CASE T # {}
  <2> DEFINE c == Chosen(T)
             U == T \ {c}
  <2>1. c \in T /\ c \in S
    BY <1>2, <1>4 DEF Chosen
  <2>2. P(U)
    BY <1>1, <1>2, <2>1
  <2>3. /\ SumFunctionOnSet(f, T) = f[c] + SumFunctionOnSet(f, U)
        /\ SumFunctionOnSet(g, T) = g[c] + SumFunctionOnSet(g, U)
        /\ SumFunctionOnSet(h, T) = h[c] + SumFunctionOnSet(h, U)
    BY <1>2, <1>4, SumEquation
  <2>4. IsFiniteSet(U) /\ \A z \in U : /\ f[z] = f[z] /\ f[z] \in Int
                                       /\ g[z] = g[z] /\ g[z] \in Int
                                       /\ h[z] = h[z] /\ h[z] \in Int
    BY <1>2, FS_Subset
  <2>5. /\ SumFunctionOnSet(f, U) \in Int /\ SumFunctionOnSet(g, U) \in Int
        /\ SumFunctionOnSet(h, U) \in Int
    BY <2>4, SumOnSame
  <2>6. f[c] = g[c] + k * h[c] /\ f[c] \in Int /\ g[c] \in Int /\ h[c] \in Int
    BY <2>1
  <2>7. k * (h[c] + SumFunctionOnSet(h, U)) = k * h[c] + k * SumFunctionOnSet(h, U)
    BY <2>5, <2>6
  <2>8. k * h[c] \in Int /\ k * SumFunctionOnSet(h, U) \in Int
    BY <2>5, <2>6
  <2>9. P(T)
    <3> HIDE DEF c, U
    <3> QED
      BY <2>2, <2>3, <2>5, <2>6, <2>7, <2>8
  <2> QED
    BY <2>9
<1> QED
  BY <1>3, <1>4

(* An order between two functions carries over to their sums.              *)
LEMMA SumOnOrder ==
    ASSUME NEW S, IsFiniteSet(S), NEW f, NEW g,
           \A x \in S : f[x] \in Int /\ g[x] \in Int /\ f[x] <= g[x]
    PROVE  SumFunctionOnSet(f, S) <= SumFunctionOnSet(g, S)
<1> DEFINE P(T) == SumFunctionOnSet(f, T) <= SumFunctionOnSet(g, T)
           Bad == {T \in SUBSET S : ~P(T)}
<1> SUFFICES ASSUME Bad # {} PROVE FALSE
  OBVIOUS
<1>1. PICK T \in Bad : \A y \in T : T \ {y} \notin Bad
  <2>1. Bad \subseteq SUBSET S
    OBVIOUS
  <2> QED
    BY <2>1, SmallestViolation
<1>2. IsFiniteSet(T) /\ T \in SUBSET S
  BY FS_Subset
<1>3. CASE T = {}
  <2>1. SumFunctionOnSet(f, T) = 0 /\ SumFunctionOnSet(g, T) = 0
    BY <1>2, <1>3, SumEquation
  <2> QED
    BY <2>1
<1>4. CASE T # {}
  <2> DEFINE c == Chosen(T)
             U == T \ {c}
  <2>1. c \in T /\ c \in S
    BY <1>2, <1>4 DEF Chosen
  <2>2. P(U)
    BY <1>1, <1>2, <2>1
  <2>3. /\ SumFunctionOnSet(f, T) = f[c] + SumFunctionOnSet(f, U)
        /\ SumFunctionOnSet(g, T) = g[c] + SumFunctionOnSet(g, U)
    BY <1>2, <1>4, SumEquation
  <2>4. IsFiniteSet(U) /\ \A z \in U : /\ f[z] = f[z] /\ f[z] \in Int
                                       /\ g[z] = g[z] /\ g[z] \in Int
    BY <1>2, FS_Subset
  <2>5. SumFunctionOnSet(f, U) \in Int /\ SumFunctionOnSet(g, U) \in Int
    BY <2>4, SumOnSame
  <2>6. f[c] <= g[c] /\ f[c] \in Int /\ g[c] \in Int
    BY <2>1
  <2> HIDE DEF c, U
  <2> QED
    BY <2>2, <2>3, <2>5, <2>6
<1> QED
  BY <1>3, <1>4

(* The same facts about the sum of all of a function.                      *)
LEMMA SumType ==
    ASSUME NEW S, IsFiniteSet(S), NEW f \in [S -> Int]
    PROVE  SumFunction(f) \in Int /\ SumFunction(f) = SumFunctionOnSet(f, S)
<1>1. SumFunction(f) = SumFunctionOnSet(f, S)
  BY Zenon DEF SumFunction
<1>2. \A x \in S : f[x] = f[x] /\ f[x] \in Int
  OBVIOUS
<1> QED
  BY <1>1, <1>2, SumOnSame

(* A linear combination.                                                   *)
LEMMA SumLinear ==
    ASSUME NEW S, IsFiniteSet(S), NEW f \in [S -> Int], NEW g \in [S -> Int],
           NEW h \in [S -> Int], NEW k \in Int, \A x \in S : f[x] = g[x] + k * h[x]
    PROVE  SumFunction(f) = SumFunction(g) + k * SumFunction(h)
<1>1. \A x \in S : f[x] \in Int /\ g[x] \in Int /\ h[x] \in Int /\ f[x] = g[x] + k * h[x]
  OBVIOUS
<1>2. SumFunctionOnSet(f, S) = SumFunctionOnSet(g, S) + k * SumFunctionOnSet(h, S)
  BY <1>1, SumOnLinear
<1> QED
  BY <1>2, SumType

(* A sum of sums, and of differences.                                      *)
LEMMA SumAdd ==
    ASSUME NEW S, IsFiniteSet(S), NEW f \in [S -> Int], NEW g \in [S -> Int],
           NEW h \in [S -> Int], \A x \in S : f[x] = g[x] + h[x]
    PROVE  SumFunction(f) = SumFunction(g) + SumFunction(h)
<1>1. \A x \in S : f[x] = g[x] + 1 * h[x]
  OBVIOUS
<1>2. SumFunction(f) = SumFunction(g) + 1 * SumFunction(h)
  BY <1>1, SumLinear
<1> QED
  BY <1>2, SumType

LEMMA SumSubtract ==
    ASSUME NEW S, IsFiniteSet(S), NEW f \in [S -> Int], NEW g \in [S -> Int],
           NEW h \in [S -> Int], \A x \in S : f[x] = g[x] - h[x]
    PROVE  SumFunction(f) = SumFunction(g) - SumFunction(h)
<1>1. \A x \in S : g[x] = f[x] + h[x]
  OBVIOUS
<1>2. SumFunction(g) = SumFunction(f) + SumFunction(h)
  BY <1>1, SumAdd
<1> QED
  BY <1>2, SumType

(* An order of terms; nothing but zeros.                                   *)
LEMMA SumOrder ==
    ASSUME NEW S, IsFiniteSet(S), NEW f \in [S -> Int], NEW g \in [S -> Int],
           \A x \in S : f[x] <= g[x]
    PROVE  SumFunction(f) <= SumFunction(g)
<1>1. \A x \in S : f[x] \in Int /\ g[x] \in Int /\ f[x] <= g[x]
  OBVIOUS
<1>2. SumFunctionOnSet(f, S) <= SumFunctionOnSet(g, S)
  BY <1>1, SumOnOrder
<1> QED
  BY <1>2, SumType

LEMMA SumZero ==
    ASSUME NEW S, IsFiniteSet(S), NEW f \in [S -> Int], \A x \in S : f[x] = 0
    PROVE  SumFunction(f) = 0
<1>1. \A x \in S : f[x] = f[x] + 1 * f[x]
  OBVIOUS
<1>2. SumFunction(f) = SumFunction(f) + 1 * SumFunction(f)
  BY <1>1, SumLinear
<1> QED
  BY <1>2, SumType

(* A common factor.                                                        *)
LEMMA SumScale ==
    ASSUME NEW S, IsFiniteSet(S), NEW f \in [S -> Int], NEW h \in [S -> Int], NEW k \in Int,
           \A x \in S : f[x] = k * h[x]
    PROVE  SumFunction(f) = k * SumFunction(h)
<1> DEFINE zero == [x \in S |-> 0]
<1>1. zero \in [S -> Int] /\ SumFunction(zero) = 0
  <2>1. zero \in [S -> Int] /\ \A x \in S : zero[x] = 0
    OBVIOUS
  <2> HIDE DEF zero
  <2> QED
    BY <2>1, SumZero
<1>2. \A x \in S : f[x] = zero[x] + k * h[x]
  <2>1. ASSUME NEW x \in S PROVE f[x] = zero[x] + k * h[x]
    <3>1. f[x] = k * h[x] /\ f[x] \in Int /\ zero[x] = 0
      OBVIOUS
    <3> QED
      BY <3>1
  <2> QED
    BY <2>1
<1> HIDE DEF zero
<1>3. SumFunction(f) = SumFunction(zero) + k * SumFunction(h)
  BY <1>1, <1>2, SumLinear
<1>4. SumFunction(f) \in Int /\ SumFunction(h) \in Int
  BY SumType
<1> QED
  BY <1>1, <1>3, <1>4

(* A sum of naturals is a natural that no term exceeds.                    *)
LEMMA SumNatural ==
    ASSUME NEW S, IsFiniteSet(S), NEW f \in [S -> Nat]
    PROVE  SumFunction(f) \in Nat /\ \A x \in S : f[x] <= SumFunction(f)
<1>1. f \in [S -> Int]
  OBVIOUS
<1>2. ASSUME NEW T \in SUBSET S PROVE SumFunctionOnSet(f, T) \in Nat
  <2> DEFINE zero == [x \in T |-> 0]
             part == [x \in T |-> f[x]]
  <2>1. IsFiniteSet(T)
    BY FS_Subset
  <2>2. /\ zero \in [T -> Int] /\ part \in [T -> Int]
        /\ \A x \in T : zero[x] = 0 /\ zero[x] <= part[x] /\ f[x] = part[x] /\ f[x] \in Int
    OBVIOUS
  <2> HIDE DEF zero, part
  <2>3. SumFunction(zero) = 0 /\ SumFunction(zero) <= SumFunction(part)
    BY <2>1, <2>2, SumZero, SumOrder
  <2>4. SumFunctionOnSet(f, T) = SumFunction(part) /\ SumFunction(part) \in Int
    BY <2>1, <2>2, SumOnSame, SumType
  <2> QED
    BY <2>3, <2>4
<1>3. SumFunction(f) = SumFunctionOnSet(f, S)
  BY <1>1, SumType
<1>4. ASSUME NEW x \in S PROVE f[x] <= SumFunctionOnSet(f, S)
  <2>1. \A y \in S : f[y] \in Int
    OBVIOUS
  <2>2. SumFunctionOnSet(f, S) = f[x] + SumFunctionOnSet(f, S \ {x})
    BY <2>1, SumRemove
  <2>3. SumFunctionOnSet(f, S \ {x}) \in Nat /\ f[x] \in Nat
    BY <1>2
  <2> QED
    BY <2>2, <2>3
<1> QED
  BY <1>2, <1>3, <1>4

(* A change at one point changes the sum by as much.                       *)
LEMMA SumChange ==
    ASSUME NEW S, IsFiniteSet(S), NEW f \in [S -> Int], NEW g \in [S -> Int], NEW x \in S,
           \A y \in S \ {x} : g[y] = f[y]
    PROVE  SumFunction(g) = SumFunction(f) + (g[x] - f[x])
<1>1. IsFiniteSet(S \ {x})
  BY FS_Subset
<1>2. \A y \in S \ {x} : g[y] = f[y] /\ g[y] \in Int
  OBVIOUS
<1>3. /\ SumFunctionOnSet(g, S \ {x}) = SumFunctionOnSet(f, S \ {x})
      /\ SumFunctionOnSet(g, S \ {x}) \in Int
  BY <1>1, <1>2, SumOnSame
<1>4. (\A y \in S : f[y] \in Int) /\ (\A y \in S : g[y] \in Int)
  OBVIOUS
<1>5. /\ SumFunctionOnSet(f, S) = f[x] + SumFunctionOnSet(f, S \ {x})
      /\ SumFunctionOnSet(g, S) = g[x] + SumFunctionOnSet(g, S \ {x})
  BY <1>4, SumRemove
<1> QED
  BY <1>3, <1>4, <1>5, SumType
(* The elements of A, counted by the value f gives them, are all of A.     *)
LEMMA CountByValue ==
    ASSUME NEW A, IsFiniteSet(A), NEW S, IsFiniteSet(S), NEW f, \A i \in A : f[i] \in S
    PROVE  /\ \A s \in S : Cardinality({i \in A : f[i] = s}) \in Nat
           /\ SumFunction([s \in S |-> Cardinality({i \in A : f[i] = s})]) = Cardinality(A)
<1> DEFINE Of(T, s) == {i \in T : f[i] = s}
           Counts(T) == [s \in S |-> Cardinality(Of(T, s))]
           Bad == {T \in SUBSET A : SumFunction(Counts(T)) # Cardinality(T)}
<1>1. ASSUME NEW T \in SUBSET A
      PROVE  /\ IsFiniteSet(T) /\ Counts(T) \in [S -> Int] /\ Cardinality(T) \in Nat
             /\ \A s \in S : Cardinality(Of(T, s)) \in Nat /\ IsFiniteSet(Of(T, s))
  <2>1. IsFiniteSet(T)
    BY FS_Subset
  <2>2. ASSUME NEW s \in S PROVE IsFiniteSet(Of(T, s)) /\ Cardinality(Of(T, s)) \in Nat
    <3>1. Of(T, s) \in SUBSET T
      OBVIOUS
    <3> HIDE DEF Of
    <3> QED
      BY <2>1, <3>1, FS_Subset, FS_CardinalityType
  <2> HIDE DEF Of
  <2> QED
    BY <2>1, <2>2, FS_CardinalityType
<1>2. Bad = {}
  <2> SUFFICES ASSUME Bad # {} PROVE FALSE
    OBVIOUS
  <2>1. PICK T \in Bad : \A x \in T : T \ {x} \notin Bad
    <3>1. Bad \subseteq SUBSET A
      OBVIOUS
    <3> HIDE DEF Bad
    <3> QED
      BY <3>1, SmallestViolation
  <2>2. T \in SUBSET A /\ SumFunction(Counts(T)) # Cardinality(T)
    BY <2>1
  <2>3. CASE T = {}
    <3>1. \A s \in S : Of(T, s) = {}
      BY <2>3
    <3>2. Cardinality(T) = 0 /\ \A s \in S : Counts(T)[s] = 0
      BY <2>3, <3>1, FS_EmptySet
    <3> HIDE DEF Counts
    <3>3. SumFunction(Counts(T)) = 0
      BY <1>1, <2>2, <3>2, SumZero
    <3> QED
      BY <2>2, <3>2, <3>3
  <2>4. CASE T # {}
    <3>1. PICK x \in T : TRUE
      BY <2>4
    <3> DEFINE U == T \ {x}
               v == f[x]
    <3>2. U \in SUBSET A /\ v \in S /\ SumFunction(Counts(U)) = Cardinality(U)
      BY <2>1, <2>2
    <3>3. Cardinality(U) = Cardinality(T) - 1
      BY <1>1, <2>2, FS_RemoveElement
    <3>4. \A s \in S \ {v} : Counts(T)[s] = Counts(U)[s]
      <4>1. ASSUME NEW s \in S \ {v} PROVE Of(T, s) = Of(U, s)
        OBVIOUS
      <4> HIDE DEF Of
      <4> QED
        BY <4>1
    <3>5. Counts(U)[v] = Counts(T)[v] - 1
      <4>1. Of(U, v) = Of(T, v) \ {x} /\ x \in Of(T, v)
        OBVIOUS
      <4>2. IsFiniteSet(Of(T, v))
        BY <1>1, <2>2, <3>2
      <4> HIDE DEF Of, U, v
      <4>3. ASSUME NEW B, NEW y, IsFiniteSet(B), y \in B
            PROVE  Cardinality(B \ {y}) = Cardinality(B) - 1
        BY <4>3, FS_RemoveElement
      <4>4. Cardinality(Of(U, v)) = Cardinality(Of(T, v)) - 1
        BY <4>1, <4>2, <4>3, Zenon
      <4> QED
        BY <3>2, <4>4
    <3> HIDE DEF U, v, Counts
    <3>6. Counts(T) \in [S -> Int] /\ Counts(U) \in [S -> Int] /\ Cardinality(T) \in Nat
      BY <1>1, <2>2, <3>2
    <3> DEFINE g == Counts(T)
               h == Counts(U)
    <3>7. SumFunction(g) = SumFunction(h) + (g[v] - h[v])
      <4>1. g \in [S -> Int] /\ h \in [S -> Int] /\ \A s \in S \ {v} : g[s] = h[s]
        BY <3>4, <3>6
      <4> HIDE DEF g, h
      <4> QED
        BY <3>2, <4>1, SumChange
    <3>8. g[v] \in Int
      BY <3>2, <3>6
    <3> QED
      BY <2>2, <3>2, <3>3, <3>5, <3>6, <3>7, <3>8
  <2> QED
    BY <2>3, <2>4
<1>3. A \in SUBSET A
  OBVIOUS
<1>4. SumFunction(Counts(A)) = Cardinality(A)
  BY <1>2, <1>3
<1> QED
  BY <1>1, <1>3, <1>4
=============================================================================
