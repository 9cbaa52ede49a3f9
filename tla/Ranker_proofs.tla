--------------------------- MODULE Ranker_proofs ---------------------------
(***************************************************************************)
(* A contest is judged by the ICPC rules whatever order its submissions    *)
(* were listed in, and the standings add the contests up, each problem as  *)
(* often as its handle is listed, rank the rows and show each on one page, *)
(* for any contests, handles, feeds and merges.  Sums and ranks are        *)
(* recursive: what they come to is shown by induction over finite sets and *)
(* over the first numbers, both from the order of the finite sets by       *)
(* inclusion.                                                              *)
(***************************************************************************)
EXTENDS Ranker, FiniteSetTheorems, WellFoundedInduction, TLAPS

-----------------------------------------------------------------------------
(* Sums over finite sets.                                                  *)

\* A set of finite sets has one that contains no other: the library states it of the
\* ordering, and all induction over finite data below goes back to it.
LEMMA SmallestSet ==
    ASSUME NEW S, NEW F, F \subseteq FiniteSubsetsOf(S), F # {}
    PROVE  \E m \in F : \A U \in F : U \subseteq m => U = m
  <1>1. PICK m \in F : \A U \in F : ~(<<U, m>> \in StrictSubsetOrdering(S))
    BY FS_StrictSubsetOrderingWellFounded, WFMin
  <1>2. ASSUME NEW U \in F, U \subseteq m, U # m PROVE FALSE
    <2>1. U \in SUBSET S /\ m \in SUBSET S BY DEF FiniteSubsetsOf
    <2>2. <<U, m>> \in StrictSubsetOrdering(S) BY <1>2, <2>1 DEF StrictSubsetOrdering
    <2> QED BY <1>1, <2>2
  <1> QED BY <1>2

\* A set of numbers has a least one.
LEMMA LeastNumber ==
    ASSUME NEW T \in SUBSET Nat, T # {}
    PROVE  \E m \in T : \A k \in T : m <= k
  <1> DEFINE F == {1 .. n : n \in T}
  <1>1. ASSUME NEW n \in T PROVE 1 .. n \in FiniteSubsetsOf(Nat)
    <2>1. IsFiniteSet(1 .. n) BY FS_Interval
    <2>2. 1 .. n \in SUBSET Nat OBVIOUS
    <2> QED BY <2>1, <2>2 DEF FiniteSubsetsOf
  <1>2. F # {} /\ F \subseteq FiniteSubsetsOf(Nat) BY <1>1
  <1> HIDE DEF F
  <1>3. PICK m \in F : \A U \in F : U \subseteq m => U = m BY <1>2, SmallestSet
  <1>4. PICK n \in T : m = 1 .. n BY DEF F
  <1>5. ASSUME NEW k \in T, k < n PROVE FALSE
    <2>1. 1 .. k \subseteq 1 .. n /\ 1 .. k # 1 .. n BY <1>5
    <2>2. 1 .. k \in F BY DEF F
    <2> QED BY <1>3, <1>4, <2>1, <2>2
  <1> QED BY <1>5

\* A function for each turn of a recursion over the first numbers.
Steps(N, X) == [1 .. N -> [X -> X]]

Follows(f, N, x, turn) == f[0] = x /\ \A n \in 1 .. N : f[n] = turn[n][f[n - 1]]

\* Such a recursion defines a function.
LEMMA Recursion ==
    ASSUME NEW N \in Nat, NEW X, NEW x \in X, NEW turn \in Steps(N, X)
    PROVE  \E f : f \in [0 .. N -> X] /\ Follows(f, N, x, turn)
  <1> DEFINE Good(m) == \E f : f \in [0 .. m -> X] /\ Follows(f, m, x, turn)
             Bad == {m \in 0 .. N : ~Good(m)}
  <1> HIDE DEF Good
  <1>1. Bad \in SUBSET Nat /\ N \in 0 .. N OBVIOUS
  <1>2. \A m \in Bad : m \in 0 .. N /\ ~Good(m) OBVIOUS
  <1>3. \A m \in 0 .. N : m \notin Bad => Good(m) OBVIOUS
  <1> HIDE DEF Bad
  <1>4. ASSUME Bad # {} PROVE FALSE
    <2>1. PICK m \in Bad : \A k \in Bad : m <= k BY <1>1, <1>4, LeastNumber
    <2>2. m \in 0 .. N /\ ~Good(m) BY <1>2
    <2>3. CASE m = 0
      <3>1. [n \in 0 .. 0 |-> x] \in [0 .. 0 -> X] OBVIOUS
      <3>2. Follows([n \in 0 .. 0 |-> x], 0, x, turn) BY DEF Follows
      <3> QED BY <2>2, <2>3, <3>1, <3>2 DEF Good
    <2>4. CASE m # 0
      <3>1. m - 1 \in 0 .. N /\ ~(m <= m - 1) BY <2>2, <2>4
      <3>2. Good(m - 1) BY <1>3, <2>1, <3>1
      <3>3. PICK f : f \in [0 .. m - 1 -> X] /\ Follows(f, m - 1, x, turn)
        BY <3>2 DEF Good
      <3> DEFINE g == [n \in 0 .. m |-> IF n = m THEN turn[m][f[m - 1]] ELSE f[n]]
      <3>4. g \in [0 .. m -> X]
        <4>1. f[m - 1] \in X BY <3>1, <3>3
        <4>2. turn[m] \in [X -> X] BY <2>2, <2>4 DEF Steps
        <4>3. \A n \in 0 .. m : n # m => n \in 0 .. m - 1 BY <2>2
        <4>4. \A n \in 0 .. m : n # m => f[n] \in X BY <3>3, <4>3
        <4> QED BY <4>1, <4>2, <4>4
      <3>5. \A n \in 1 .. m : g[n] = turn[n][g[n - 1]]
        <4> TAKE n \in 1 .. m
        <4>1. n - 1 \in 0 .. m /\ n - 1 # m /\ n \in 0 .. m BY <2>2
        <4>2. n # m => n \in 1 .. m - 1 BY <2>2
        <4>3. g[n - 1] = f[n - 1] BY <4>1
        <4>4. n # m => f[n] = turn[n][f[n - 1]] BY <3>3, <4>2 DEF Follows
        <4> QED BY <4>1, <4>3, <4>4
      <3>6. g[0] = x
        <4>1. 0 \in 0 .. m BY <2>2
        <4> QED BY <2>4, <3>3, <4>1 DEF Follows
      <3> HIDE DEF g
      <3>7. Good(m) BY <3>4, <3>5, <3>6 DEF Good, Follows
      <3> QED BY <2>2, <3>7
    <2> QED BY <2>3, <2>4
  <1>5. Good(N) BY <1>1, <1>3, <1>4
  <1> QED BY <1>5 DEF Good

\* What holds before the first turn and is kept by each holds after all of them.
LEMMA Induction ==
    ASSUME NEW N \in Nat, NEW T \in SUBSET (0 .. N), 0 \in T,
           \A n \in 1 .. N : n - 1 \in T => n \in T
    PROVE  T = 0 .. N
  <1> DEFINE Bad == (0 .. N) \ T
  <1>1. SUFFICES ASSUME Bad # {} PROVE FALSE OBVIOUS
  <1>2. Bad \in SUBSET Nat OBVIOUS
  <1>3. PICK m \in Bad : \A k \in Bad : m <= k
    <2> HIDE DEF Bad
    <2> QED BY <1>1, <1>2, LeastNumber
  <1>4. m \in 1 .. N /\ m - 1 \in 0 .. N /\ ~(m <= m - 1) OBVIOUS
  <1> QED BY <1>3, <1>4


\* The same for the parts of a finite set.
Grows(Good, S) ==
    \A T \in SUBSET S : T # {} /\ (\A x \in T : T \ {x} \in Good) => T \in Good

LEMMA SetInduction ==
    ASSUME NEW S, IsFiniteSet(S), NEW Good, {} \in Good, Grows(Good, S)
    PROVE  \A T \in SUBSET S : T \in Good
  <1> DEFINE Bad == {T \in SUBSET S : T \notin Good}
  <1>1. SUFFICES ASSUME Bad # {} PROVE FALSE OBVIOUS
  <1>2. Bad \subseteq FiniteSubsetsOf(S)
    BY FS_Subset DEF FiniteSubsetsOf
  <1>3. PICK m \in Bad : \A U \in Bad : U \subseteq m => U = m
    <2> HIDE DEF Bad
    <2> QED BY <1>1, <1>2, SmallestSet
  <1>4. m \in SUBSET S /\ m \notin Good /\ m # {} OBVIOUS
  <1>5. ASSUME NEW x \in m PROVE m \ {x} \in Good
    <2>1. m \ {x} \in SUBSET S /\ m \ {x} \subseteq m /\ m \ {x} # m BY <1>4
    <2> QED BY <1>3, <2>1
  <1> QED BY <1>4, <1>5 DEF Grows

\* Finitely many numbers, and a total for each part of them.
Numbers(fun, S) == IsFiniteSet(S) /\ \A x \in S : fun[x] \in Nat

Totals(S) == [SUBSET S -> Nat]

LEMMA FewerNumbers ==
    ASSUME NEW fun, NEW S, Numbers(fun, S), NEW T, T \subseteq S
    PROVE  Numbers(fun, T)
  BY FS_Subset DEF Numbers

\* The equation that defines the sum over a set.
Adds(iter, fun, S) ==
    \A s \in SUBSET S :
        iter[s] = IF s = {} THEN 0
                  ELSE LET x == CHOOSE x \in s : TRUE IN fun[x] + iter[s \ {x}]

\* There is a function that solves it,
LEMMA SumExists ==
    ASSUME NEW fun, NEW S, Numbers(fun, S)
    PROVE  \E iter : iter \in Totals(S) /\ Adds(iter, fun, S)
  <1> DEFINE N == Cardinality(S)
             X == Totals(S)
             Next1(g) == [s \in SUBSET S |-> IF s = {} THEN 0
                          ELSE LET x == CHOOSE x \in s : TRUE IN fun[x] + g[s \ {x}]]
             turn == [n \in 1 .. N |-> [g \in X |-> Next1(g)]]
             zero == [s \in SUBSET S |-> 0]
  <1>0. IsFiniteSet(S) /\ \A x \in S : fun[x] \in Nat BY DEF Numbers
  <1>1. N \in Nat BY <1>0, FS_CardinalityType
  <1>2. zero \in X BY DEF Totals
  <1>3. ASSUME NEW g \in X PROVE Next1(g) \in X
    <2>1. ASSUME NEW s \in SUBSET S, s # {}
          PROVE  LET x == CHOOSE x \in s : TRUE IN fun[x] + g[s \ {x}] \in Nat
      <3> DEFINE x == CHOOSE x \in s : TRUE
      <3>1. x \in s BY <2>1
      <3> HIDE DEF x
      <3>2. fun[x] \in Nat /\ s \ {x} \in SUBSET S BY <1>0, <3>1
      <3>3. g[s \ {x}] \in Nat BY <3>2 DEF Totals
      <3>4. fun[x] + g[s \ {x}] \in Nat BY <3>2, <3>3
      <3> QED BY <3>4 DEF x
    <2> QED BY <2>1 DEF Totals
  <1>4. turn \in Steps(N, X)
    <2> HIDE DEF X, N, Next1
    <2> QED BY <1>3 DEF Steps
  <1>5. \A n \in 1 .. N, g \in X : turn[n][g] = Next1(g) OBVIOUS
  <1> HIDE DEF N, turn, zero, X
  <1>6. PICK f : f \in [0 .. N -> X] /\ Follows(f, N, zero, turn)
    BY <1>1, <1>2, <1>4, Recursion
  <1> DEFINE iter == [s \in SUBSET S |-> f[Cardinality(s)][s]]
  <1>7. ASSUME NEW s \in SUBSET S PROVE Cardinality(s) \in 0 .. N /\ IsFiniteSet(s)
    BY <1>0, <1>1, FS_Subset, FS_CardinalityType DEF N
  <1>8. iter \in Totals(S)
    <2>1. ASSUME NEW s \in SUBSET S PROVE f[Cardinality(s)][s] \in Nat
      BY <1>6, <1>7 DEF X, Totals
    <2> QED BY <2>1 DEF Totals
  <1>9. Adds(iter, fun, S)
    <2> SUFFICES ASSUME NEW s \in SUBSET S
                 PROVE  iter[s] = IF s = {} THEN 0
                                  ELSE LET x == CHOOSE x \in s : TRUE
                                       IN fun[x] + iter[s \ {x}]
      BY DEF Adds
    <2>1. CASE s = {}
      <3>1. iter[s] = f[0][s] BY <2>1, FS_EmptySet
      <3>2. f[0] = zero BY <1>6 DEF Follows
      <3> QED BY <2>1, <3>1, <3>2 DEF zero
    <2>2. CASE s # {}
      <3> DEFINE x == CHOOSE x \in s : TRUE
                 n == Cardinality(s)
      <3>1. x \in s BY <2>2
      <3>2. Cardinality(s \ {x}) = n - 1 BY <1>7, <3>1, FS_RemoveElement
      <3>3. n # 0 BY <1>7, <2>2, FS_EmptySet
      <3>4. n \in 1 .. N /\ n - 1 \in 0 .. N BY <1>1, <1>7, <3>3
      <3>5. iter[s] = f[n][s] OBVIOUS
      <3> HIDE DEF n
      <3>6. f[n] = turn[n][f[n - 1]] /\ f[n - 1] \in X BY <1>6, <3>4 DEF Follows
      <3>7. f[n] = Next1(f[n - 1]) BY <1>5, <3>4, <3>6
      <3>8. f[n][s] = fun[x] + f[n - 1][s \ {x}] BY <2>2, <3>7
      <3>9. iter[s \ {x}] = f[n - 1][s \ {x}] BY <3>2
      <3> QED BY <2>2, <3>5, <3>8, <3>9
    <2> QED BY <2>1, <2>2
  <1> QED BY <1>8, <1>9

\* so the sum is one.
LEMMA SumAdds ==
    ASSUME NEW fun, NEW S, Numbers(fun, S)
    PROVE  \E iter : SumFunctionOnSet(fun, S) = iter[S] /\ Adds(iter, fun, S)
  <1> DEFINE Iter(iter) == iter = [s \in SUBSET S |-> IF s = {} THEN 0
                          ELSE LET x == CHOOSE x \in s : TRUE IN fun[x] + iter[s \ {x}]]
  <1>1. PICK f : f \in Totals(S) /\ Adds(f, fun, S) BY SumExists
  <1>2. Iter(f) BY <1>1 DEF Adds, Totals
  <1> DEFINE iter == CHOOSE g : Iter(g)
  <1>3. Iter(iter)
    <2> HIDE DEF Iter
    <2> QED BY <1>2
  <1>4. SumFunctionOnSet(fun, S) = iter[S]
    BY DEF SumFunctionOnSet, FoldFunctionOnSet, MapThenFoldSet
  <1> HIDE DEF iter
  <1>5. Adds(iter, fun, S) BY <1>3 DEF Adds
  <1> QED BY <1>4, <1>5

\* A solution does not depend on the element that is chosen,
LEMMA AnyFirst ==
    ASSUME NEW fun, NEW S, Numbers(fun, S),
           NEW iter \in Totals(S), Adds(iter, fun, S)
    PROVE  \A x \in S : iter[S] = fun[x] + iter[S \ {x}]
  <1> DEFINE Split(T) == \A x \in T : iter[T] = fun[x] + iter[T \ {x}]
             Good == {T \in SUBSET S : Split(T)}
  <1>1. {} \in Good OBVIOUS
  <1>2. ASSUME NEW T \in SUBSET S, T # {}, \A x \in T : T \ {x} \in Good
        PROVE  T \in Good
    <2> DEFINE c == CHOOSE c \in T : TRUE
    <2>1. c \in T BY <1>2
    <2>2. iter[T] = fun[c] + iter[T \ {c}] BY <1>2 DEF Adds
    <2> HIDE DEF c
    <2>3. ASSUME NEW x \in T, x # c PROVE iter[T] = fun[x] + iter[T \ {x}]
      <3>1. x \in T \ {c} /\ c \in T \ {x} BY <2>1, <2>3
      <3>2. iter[T \ {c}] = fun[x] + iter[(T \ {c}) \ {x}] BY <1>2, <2>1, <3>1
      <3>3. iter[T \ {x}] = fun[c] + iter[(T \ {x}) \ {c}] BY <1>2, <3>1
      <3>4. (T \ {c}) \ {x} = (T \ {x}) \ {c} OBVIOUS
      <3> DEFINE R == (T \ {c}) \ {x}
      <3>5. R \in SUBSET S OBVIOUS
      <3> HIDE DEF R
      <3>6. iter[R] \in Nat /\ fun[x] \in Nat /\ fun[c] \in Nat
        BY <2>1, <3>5 DEF Totals, Numbers
      <3>7. iter[T \ {c}] = fun[x] + iter[R] /\ iter[T \ {x}] = fun[c] + iter[R]
        BY <3>2, <3>3, <3>4 DEF R
      <3> QED BY <2>2, <3>6, <3>7
    <2> QED BY <2>2, <2>3
  <1> HIDE DEF Good
  <1>3. Grows(Good, S) BY <1>2 DEF Grows
  <1>4. IsFiniteSet(S) /\ S \in SUBSET S BY DEF Numbers
  <1>5. \A T \in SUBSET S : T \in Good BY <1>1, <1>3, <1>4, SetInduction
  <1>6. S \in Good BY <1>4, <1>5
  <1> QED BY <1>6 DEF Good

\* and there is only one.
LEMMA OneSum ==
    ASSUME NEW fun, NEW S, IsFiniteSet(S), NEW f, NEW g, Adds(f, fun, S), Adds(g, fun, S)
    PROVE  f[S] = g[S]
  <1> DEFINE Good == {T \in SUBSET S : f[T] = g[T]}
  <1>1. {} \in Good BY DEF Adds
  <1>2. ASSUME NEW T \in SUBSET S, T # {}, \A x \in T : T \ {x} \in Good
        PROVE  T \in Good
    <2> DEFINE c == CHOOSE c \in T : TRUE
    <2>1. c \in T BY <1>2
    <2>2. f[T] = fun[c] + f[T \ {c}] /\ g[T] = fun[c] + g[T \ {c}] BY <1>2 DEF Adds
    <2> HIDE DEF c
    <2>3. f[T \ {c}] = g[T \ {c}] BY <1>2, <2>1
    <2> QED BY <2>2, <2>3
  <1> HIDE DEF Good
  <1>3. Grows(Good, S) BY <1>2 DEF Grows
  <1>4. S \in SUBSET S OBVIOUS
  <1>5. \A T \in SUBSET S : T \in Good BY <1>1, <1>3, SetInduction
  <1>6. S \in Good BY <1>4, <1>5
  <1> QED BY <1>6 DEF Good

\* What a sum over a set is: it does not depend on where one starts.
LEMMA SumIsTotal ==
    ASSUME NEW fun, NEW S, Numbers(fun, S), NEW f \in Totals(S), Adds(f, fun, S),
           NEW T \in SUBSET S
    PROVE  SumFunctionOnSet(fun, T) = f[T]
  <1>1. Numbers(fun, T) BY FewerNumbers
  <1>2. PICK g : SumFunctionOnSet(fun, T) = g[T] /\ Adds(g, fun, T) BY <1>1, SumAdds
  <1>3. Adds(f, fun, T) BY DEF Adds
  <1>4. IsFiniteSet(T) BY <1>1 DEF Numbers
  <1> QED BY <1>2, <1>3, <1>4, OneSum

LEMMA SumIsNat ==
    ASSUME NEW fun, NEW S, Numbers(fun, S)
    PROVE  SumFunctionOnSet(fun, S) \in Nat
  <1>1. PICK f : f \in Totals(S) /\ Adds(f, fun, S) BY SumExists
  <1>2. S \in SUBSET S OBVIOUS
  <1>3. SumFunctionOnSet(fun, S) = f[S] BY <1>1, <1>2, SumIsTotal
  <1> QED BY <1>1, <1>2, <1>3 DEF Totals

LEMMA SumOfNone ==
    ASSUME NEW fun
    PROVE  SumFunctionOnSet(fun, {}) = 0
  <1>1. Numbers(fun, {}) BY FS_EmptySet DEF Numbers
  <1>2. PICK f : f \in Totals({}) /\ Adds(f, fun, {}) BY <1>1, SumExists
  <1>3. {} \in SUBSET {} OBVIOUS
  <1>4. SumFunctionOnSet(fun, {}) = f[{}] BY <1>1, <1>2, <1>3, SumIsTotal
  <1>5. f[{}] = 0 BY <1>2, <1>3 DEF Adds
  <1> QED BY <1>4, <1>5

LEMMA SumTakes ==
    ASSUME NEW fun, NEW S, Numbers(fun, S), NEW x \in S
    PROVE  SumFunctionOnSet(fun, S) = fun[x] + SumFunctionOnSet(fun, S \ {x})
  <1>1. PICK f : f \in Totals(S) /\ Adds(f, fun, S) BY SumExists
  <1>2. S \in SUBSET S /\ S \ {x} \in SUBSET S OBVIOUS
  <1>3. SumFunctionOnSet(fun, S) = f[S] BY <1>1, <1>2, SumIsTotal
  <1>4. SumFunctionOnSet(fun, S \ {x}) = f[S \ {x}] BY <1>1, <1>2, SumIsTotal
  <1>5. \A y \in S : f[S] = fun[y] + f[S \ {y}] BY <1>1, AnyFirst
  <1>6. f[S] = fun[x] + f[S \ {x}] BY <1>5
  <1> QED BY <1>3, <1>4, <1>6

\* Sums of the same numbers are the same.
LEMMA SumEqual ==
    ASSUME NEW f, NEW g, NEW S, Numbers(f, S), \A x \in S : f[x] = g[x]
    PROVE  SumFunctionOnSet(f, S) = SumFunctionOnSet(g, S)
  <1> DEFINE Good == {T \in SUBSET S : SumFunctionOnSet(f, T) = SumFunctionOnSet(g, T)}
  <1>1. {} \in Good BY SumOfNone
  <1>2. Grows(Good, S)
    <2> SUFFICES ASSUME NEW T \in SUBSET S, T # {}, \A x \in T : T \ {x} \in Good
                 PROVE  T \in Good
      BY DEF Grows
    <2>1. PICK x \in T : TRUE OBVIOUS
    <2>2. Numbers(f, T) BY FewerNumbers
    <2>3. Numbers(g, T) BY <2>2 DEF Numbers
    <2>4. SumFunctionOnSet(f, T) = f[x] + SumFunctionOnSet(f, T \ {x}) BY <2>2, SumTakes
    <2>5. SumFunctionOnSet(g, T) = g[x] + SumFunctionOnSet(g, T \ {x}) BY <2>3, SumTakes
    <2>6. SumFunctionOnSet(f, T \ {x}) = SumFunctionOnSet(g, T \ {x}) OBVIOUS
    <2>7. f[x] = g[x] OBVIOUS
    <2> QED BY <2>4, <2>5, <2>6, <2>7
  <1>3. IsFiniteSet(S) /\ S \in SUBSET S BY DEF Numbers
  <1> HIDE DEF Good
  <1>4. \A T \in SUBSET S : T \in Good BY <1>1, <1>2, <1>3, SetInduction
  <1>5. S \in Good BY <1>3, <1>4
  <1> QED BY <1>5 DEF Good

\* A sum of sums.
LEMMA SumPlus ==
    ASSUME NEW f, NEW g, NEW h, NEW S, Numbers(f, S), Numbers(g, S),
           \A x \in S : h[x] = f[x] + g[x]
    PROVE  SumFunctionOnSet(h, S) = SumFunctionOnSet(f, S) + SumFunctionOnSet(g, S)
  <1> DEFINE Good == {T \in SUBSET S : SumFunctionOnSet(h, T) =
                                         SumFunctionOnSet(f, T) + SumFunctionOnSet(g, T)}
  <1>1. {} \in Good BY SumOfNone
  <1>2. Numbers(h, S) BY DEF Numbers
  <1>3. Grows(Good, S)
    <2> SUFFICES ASSUME NEW T \in SUBSET S, T # {}, \A x \in T : T \ {x} \in Good
                 PROVE  T \in Good
      BY DEF Grows
    <2>1. PICK x \in T : TRUE OBVIOUS
    <2> DEFINE R == T \ {x}
    <2>2. Numbers(f, T) /\ Numbers(g, T) /\ Numbers(h, T) BY <1>2, FewerNumbers
    <2>3. Numbers(f, R) /\ Numbers(g, R) BY FewerNumbers
    <2>4. SumFunctionOnSet(f, T) = f[x] + SumFunctionOnSet(f, R) BY <2>2, SumTakes
    <2>5. SumFunctionOnSet(g, T) = g[x] + SumFunctionOnSet(g, R) BY <2>2, SumTakes
    <2>6. SumFunctionOnSet(h, T) = h[x] + SumFunctionOnSet(h, R) BY <2>2, SumTakes
    <2>7. SumFunctionOnSet(h, R) = SumFunctionOnSet(f, R) + SumFunctionOnSet(g, R) OBVIOUS
    <2> HIDE DEF R
    <2>8. SumFunctionOnSet(f, R) \in Nat /\ SumFunctionOnSet(g, R) \in Nat
      BY <2>3, SumIsNat
    <2>9. f[x] \in Nat /\ g[x] \in Nat /\ h[x] = f[x] + g[x] BY <2>2 DEF Numbers
    <2> QED BY <2>4, <2>5, <2>6, <2>7, <2>8, <2>9
  <1>4. IsFiniteSet(S) /\ S \in SUBSET S BY DEF Numbers
  <1> HIDE DEF Good
  <1>5. \A T \in SUBSET S : T \in Good BY <1>1, <1>3, <1>4, SetInduction
  <1>6. S \in Good BY <1>4, <1>5
  <1> QED BY <1>6 DEF Good

\* A sum is no more than its terms allow.
LEMMA SumOfConstant ==
    ASSUME NEW f, NEW S, NEW v \in Nat, IsFiniteSet(S), \A x \in S : f[x] = v
    PROVE  SumFunctionOnSet(f, S) = Cardinality(S) * v
  <1> DEFINE Good == {T \in SUBSET S : SumFunctionOnSet(f, T) = Cardinality(T) * v}
  <1>1. {} \in Good BY SumOfNone, FS_EmptySet
  <1>2. Numbers(f, S) BY DEF Numbers
  <1>3. Grows(Good, S)
    <2> SUFFICES ASSUME NEW T \in SUBSET S, T # {}, \A x \in T : T \ {x} \in Good
                 PROVE  T \in Good
      BY DEF Grows
    <2>1. PICK x \in T : TRUE OBVIOUS
    <2>2. Numbers(f, T) BY <1>2, FewerNumbers
    <2>3. SumFunctionOnSet(f, T) = f[x] + SumFunctionOnSet(f, T \ {x}) BY <2>2, SumTakes
    <2>4. IsFiniteSet(T) /\ IsFiniteSet(T \ {x}) BY FS_Subset
    <2>5. Cardinality(T \ {x}) = Cardinality(T) - 1 BY <2>4, FS_RemoveElement
    <2> DEFINE n == Cardinality(T \ {x})
    <2>6. n \in Nat /\ Cardinality(T) = n + 1 BY <2>4, <2>5, FS_CardinalityType
    <2>7. SumFunctionOnSet(f, T \ {x}) = n * v OBVIOUS
    <2>8. f[x] = v OBVIOUS
    <2> HIDE DEF n
    <2>9. (n + 1) * v = v + n * v BY <2>6
    <2> QED BY <2>3, <2>6, <2>7, <2>8, <2>9
  <1>4. S \in SUBSET S OBVIOUS
  <1> HIDE DEF Good
  <1>5. \A T \in SUBSET S : T \in Good BY <1>1, <1>3, SetInduction
  <1>6. S \in Good BY <1>4, <1>5
  <1> QED BY <1>6 DEF Good

\* The sizes of sets that have nothing in common add up to the size of their union.
Apart(W, S) ==
    /\ \A x \in S : IsFiniteSet(W[x])
    /\ \A x, y \in S : x # y => W[x] \cap W[y] = {}

LEMMA SumOfSizes ==
    ASSUME NEW W, NEW f, NEW S, IsFiniteSet(S), Apart(W, S),
           \A x \in S : f[x] = Cardinality(W[x])
    PROVE  /\ IsFiniteSet(UNION {W[x] : x \in S})
           /\ SumFunctionOnSet(f, S) = Cardinality(UNION {W[x] : x \in S})
  <1> DEFINE U(T) == UNION {W[x] : x \in T}
             Good == {T \in SUBSET S : /\ IsFiniteSet(U(T))
                                       /\ SumFunctionOnSet(f, T) = Cardinality(U(T))}
  <1>0. Numbers(f, S) BY FS_CardinalityType DEF Numbers, Apart
  <1>1. {} \in Good
    <2>1. SumFunctionOnSet(f, {}) = 0 BY SumOfNone
    <2>2. U({}) = {} OBVIOUS
    <2> QED BY <2>1, <2>2, FS_EmptySet
  <1>2. Grows(Good, S)
    <2> SUFFICES ASSUME NEW T \in SUBSET S, T # {}, \A x \in T : T \ {x} \in Good
                 PROVE  T \in Good
      BY DEF Grows
    <2>1. PICK x \in T : TRUE OBVIOUS
    <2>0. Numbers(f, T) BY <1>0, FewerNumbers
    <2>2. SumFunctionOnSet(f, T) = f[x] + SumFunctionOnSet(f, T \ {x}) BY <2>0, SumTakes
    <2> DEFINE A == W[x]
               B == U(T \ {x})
    <2>3. U(T) = A \cup B OBVIOUS
    <2>4. A \cap B = {} BY DEF Apart
    <2>5. IsFiniteSet(B) /\ SumFunctionOnSet(f, T \ {x}) = Cardinality(B) OBVIOUS
    <2>6. IsFiniteSet(A) /\ f[x] = Cardinality(A) BY DEF Apart
    <2> HIDE DEF A, B
    <2>7. Cardinality(A \cap B) = 0 BY <2>4, FS_EmptySet
    <2>8. /\ IsFiniteSet(A \cup B)
          /\ Cardinality(A \cup B) = Cardinality(A) + Cardinality(B) - Cardinality(A \cap B)
      BY <2>5, <2>6, FS_Union
    <2>9. Cardinality(A) \in Nat /\ Cardinality(B) \in Nat
      BY <2>5, <2>6, FS_CardinalityType
    <2>10. IsFiniteSet(U(T)) /\ Cardinality(U(T)) = Cardinality(A) + Cardinality(B)
      <3>1. Cardinality(A \cup B) = Cardinality(A) + Cardinality(B) BY <2>7, <2>8, <2>9
      <3> HIDE DEF U
      <3> QED BY <2>3, <2>8, <3>1
    <2>11. SumFunctionOnSet(f, T) = Cardinality(U(T)) BY <2>2, <2>5, <2>6, <2>10
    <2> HIDE DEF U
    <2> QED BY <2>10, <2>11
  <1>3. S \in SUBSET S OBVIOUS
  <1> HIDE DEF Good
  <1>4. \A T \in SUBSET S : T \in Good BY <1>1, <1>2, SetInduction
  <1>5. S \in Good BY <1>3, <1>4
  <1> QED BY <1>5 DEF Good

-----------------------------------------------------------------------------
(* One contest.                                                            *)

\* The lists hold submissions, and finitely many.
LEMMA FeedFacts ==
    ASSUME TypeOK, NEW c \in Contests
    PROVE  /\ DOMAIN feed[c] \subseteq Nat /\ IsFiniteSet(DOMAIN feed[c])
           /\ \A i \in DOMAIN feed[c] : feed[c][i] \in Submission
           /\ taken[c] \subseteq DOMAIN feed[c] /\ IsFiniteSet(taken[c])
  <1>1. feed[c] \in Seq(Submission) BY InputAssumption DEF TypeOK
  <1>2. Len(feed[c]) \in Nat /\ DOMAIN feed[c] = 1 .. Len(feed[c]) BY <1>1
  <1>3. IsFiniteSet(DOMAIN feed[c]) BY <1>2, FS_Interval
  <1>4. \A i \in DOMAIN feed[c] : feed[c][i] \in Submission BY <1>1
  <1>5. taken[c] \subseteq DOMAIN feed[c] BY DEF TypeOK
  <1>6. IsFiniteSet(taken[c]) BY <1>3, <1>5, FS_Subset
  <1> QED BY <1>2, <1>3, <1>4, <1>5, <1>6

LEMMA IsList == ASSUME NEW S, NEW n \in Nat, NEW f \in [1 .. n -> S] PROVE f \in Seq(S)
  OBVIOUS

LEMMA AtIndex == ASSUME NEW S, NEW s \in Seq(S), NEW i \in 1 .. Len(s) PROVE s[i] \in S
  OBVIOUS

LEMMA NoList == ASSUME NEW S PROVE <<>> \in Seq(S)
  OBVIOUS

\* Before a submission is judged.
LEMMA InitInv == Init => JudgeInv
  <1> SUFFICES ASSUME Init PROVE JudgeInv
    OBVIOUS
  <1>1. TypeOK
    <2>1. /\ attempts \in [Contests -> [Handles -> [Problems -> Attempt]]]
          /\ taken \in [Contests -> SUBSET Nat]
          /\ \A c \in Contests : taken[c] \subseteq DOMAIN feed[c]
      BY DEF Init, Attempt, NoAttempt
    <2>2. rankings \in Seq([rank : Nat, row : Standing]) /\ withDetails \in BOOLEAN
      BY NoList DEF Init
    <2>3. pages \in Seq([first : Nat, last : Nat]) BY NoList DEF Init
    <2>4. pdf \in {"none", "printing", "done"} /\ page \in [last : Nat, lines : Nat] \cup {NoPage}
      BY DEF Init
    <2>5. /\ feed \in [Contests -> Seq(Submission)]
          /\ registered \in [Contests -> SUBSET Handles]
      <3>1. PICK answer \in Answers :
                /\ feed = [c \in Contests |-> answer[c].submissions]
                /\ registered = [c \in Contests |-> answer[c].participants]
        BY DEF Init
      <3>2. answer \in [Contests -> VjudgeContest] BY InputAssumption
      <3> QED BY <3>1, <3>2 DEF VjudgeContest
    <2> QED BY <2>1, <2>2, <2>3, <2>4, <2>5 DEF Init, TypeOK
  <1>2. InOrder /\ TookPart BY DEF Init, InOrder, TookPart
  <1>3. ASSUME NEW c \in Contests, NEW h \in Handles, NEW p \in Problems
        PROVE  Icpc(attempts[c][h][p], feed[c], On(c, h, p))
    <2>1. attempts[c][h][p] = NoAttempt /\ On(c, h, p) = {} BY DEF Init, On
    <2>2. Icpc(NoAttempt, feed[c], {}) BY FS_EmptySet DEF Icpc, NoAttempt, Hits, Misses
    <2> QED BY <2>1, <2>2
  <1> QED BY <1>1, <1>2, <1>3 DEF JudgeInv, AttemptIsIcpc

\* The rules hold on for one more submission, if it is judged after the others.
LEMMA JudgedIsIcpc ==
    ASSUME NEW subs, NEW on, IsFiniteSet(on), NEW i, i \notin on,
           \A j \in on : Earlier(subs, j, i) /\ ~Earlier(subs, i, j),
           Earlier(subs, i, i), subs[i].accepted \in BOOLEAN,
           NEW a \in Attempt, Icpc(a, subs, on)
    PROVE  Icpc(Judged(a, subs[i]), subs, on \cup {i})
  <1> DEFINE s == subs[i]
             b == Judged(a, s)
             hits == Hits(subs, on)
             misses == Misses(subs, on)
             hits1 == Hits(subs, on \cup {i})
             misses1 == Misses(subs, on \cup {i})
  <1>1. /\ hits1 = IF s.accepted /\ InTime(s) THEN hits \cup {i} ELSE hits
        /\ misses1 = IF ~s.accepted /\ InTime(s) THEN misses \cup {i} ELSE misses
    BY DEF Hits, Misses
  <1>2. hits \subseteq on /\ misses \subseteq on /\ IsFiniteSet(misses)
    BY FS_Subset DEF Hits, Misses
  <1>3. a.during \in BOOLEAN /\ a.after \in BOOLEAN BY DEF Attempt
  <1>4. /\ a.during <=> hits # {}
        /\ a.during => FirstHit(a, subs, on)
        /\ ~a.during => a.wrong = Cardinality(misses)
        /\ (a.during \/ a.after) <=> \E j \in on : subs[j].accepted
    BY DEF Icpc
  <1>5. SUFFICES /\ b.during <=> hits1 # {}
                 /\ b.during => FirstHit(b, subs, on \cup {i})
                 /\ ~b.during => b.wrong = Cardinality(misses1)
                 /\ (b.during \/ b.after) <=> \E j \in on \cup {i} : subs[j].accepted
    BY DEF Icpc
  <1>6. CASE a.during
    <2>1. b = a BY <1>6 DEF Judged
    <2>2. PICK k \in hits : /\ \A j \in hits : Earlier(subs, k, j)
                            /\ a.time = subs[k].time
                            /\ a.wrong = Cardinality({j \in misses : Earlier(subs, j, k)})
      BY <1>4, <1>6 DEF FirstHit
    <2>3. k \in hits1 /\ \A j \in hits1 : Earlier(subs, k, j) BY <1>1, <1>2, <2>2
    <2>4. {j \in misses1 : Earlier(subs, j, k)} = {j \in misses : Earlier(subs, j, k)}
      BY <1>1, <1>2
    <2>5. FirstHit(b, subs, on \cup {i}) BY <2>1, <2>2, <2>3, <2>4 DEF FirstHit
    <2> QED BY <1>4, <1>6, <2>1, <2>3, <2>5
  <1>7. CASE ~a.during /\ InTime(s) /\ s.accepted
    <2>1. b.during /\ b.time = s.time /\ b.wrong = a.wrong BY <1>7 DEF Judged
    <2>2. hits1 = {i} /\ misses1 = misses BY <1>1, <1>4, <1>7
    <2>3. {j \in misses1 : Earlier(subs, j, i)} = misses BY <1>2, <2>2
    <2>4. FirstHit(b, subs, on \cup {i})
      BY <1>4, <1>7, <2>1, <2>2, <2>3 DEF FirstHit
    <2> QED BY <1>7, <2>1, <2>2, <2>4
  <1>8. CASE ~a.during /\ InTime(s) /\ ~s.accepted
    <2>1. ~b.during /\ (b.after <=> a.after) /\ b.wrong = a.wrong + 1
      BY <1>3, <1>8 DEF Judged
    <2>2. hits1 = {} /\ misses1 = misses \cup {i} BY <1>1, <1>4, <1>8
    <2>3. Cardinality(misses1) = Cardinality(misses) + 1 BY <1>2, <2>2, FS_AddElement
    <2> QED BY <1>4, <1>8, <2>1, <2>2, <2>3
  <1>9. CASE ~a.during /\ ~InTime(s)
    <2>1. ~b.during /\ (b.after <=> a.after \/ s.accepted) /\ b.wrong = a.wrong
      BY <1>3, <1>9 DEF Judged
    <2>2. hits1 = {} /\ misses1 = misses BY <1>1, <1>4, <1>9
    <2> QED BY <1>4, <1>9, <2>1, <2>2
  <1> QED BY <1>3, <1>6, <1>7, <1>8, <1>9

\* What a judged submission keeps of the problem it is on: nothing of s is earlier
\* than what was judged before it.
LEMMA JudgeFacts ==
    ASSUME TypeOK, InOrder, NEW c \in Contests, NEW i \in DOMAIN feed[c] \ taken[c],
           NEW h, NEW p
    PROVE  \A j \in On(c, h, p) :
               Earlier(feed[c], j, i) /\ ~Earlier(feed[c], i, j)
  <1> SUFFICES ASSUME NEW j \in On(c, h, p)
               PROVE  Earlier(feed[c], j, i) /\ ~Earlier(feed[c], i, j)
    OBVIOUS
  <1>1. j \in taken[c] BY DEF On
  <1>2. Earlier(feed[c], j, i) BY <1>1 DEF InOrder
  <1>3. i \in Nat /\ j \in Nat /\ i # j BY <1>1, FeedFacts
  <1>4. feed[c][i].time \in Nat /\ feed[c][j].time \in Nat
    BY <1>1, FeedFacts DEF Submission
  <1> QED BY <1>2, <1>3, <1>4 DEF Earlier

\* A submission is judged.
LEMMA TakeInv == ASSUME JudgeInv, NEW c \in Contests, Take(c) PROVE JudgeInv'
  <1>1. PICK i \in DOMAIN feed[c] \ taken[c] :
            /\ \A j \in DOMAIN feed[c] \ taken[c] : Earlier(feed[c], i, j)
            /\ taken' = [taken EXCEPT ![c] = @ \cup {i}]
            /\ attempts' = [attempts EXCEPT
                   ![c][feed[c][i].handle][feed[c][i].problem] = Judged(@, feed[c][i])]
            /\ participated' = [participated EXCEPT
                   ![c] = IF InTime(feed[c][i]) THEN @ \cup {feed[c][i].handle} ELSE @]
    BY DEF Take
  <1>2. feed' = feed /\ registered' = registered /\ merges' = merges
    BY DEF Take
  <1>3. TypeOK BY DEF JudgeInv
  <1>4. feed[c][i] \in Submission /\ i \in Nat BY <1>3, FeedFacts
  <1> DEFINE h0 == feed[c][i].handle
             p0 == feed[c][i].problem
             old == attempts[c][h0][p0]
             new == Judged(old, feed[c][i])
  <1>5. h0 \in Handles /\ p0 \in Problems BY <1>4 DEF Submission
  <1>6. new \in Attempt
    <2>1. old \in Attempt BY <1>3, <1>5 DEF TypeOK
    <2>2. feed[c][i].accepted \in BOOLEAN /\ feed[c][i].time \in Nat
      BY <1>4 DEF Submission
    <2>3. /\ old.after \in BOOLEAN /\ old.wrong \in Nat /\ old.time \in Nat
      BY <2>1 DEF Attempt
    <2> HIDE DEF old
    <2> QED BY <2>1, <2>2, <2>3 DEF Judged, Attempt, InTime
  <1>7. attempts' = [attempts EXCEPT ![c][h0][p0] = new] BY <1>1
  <1>8. TypeOK'
    <2>1. attempts' \in [Contests -> [Handles -> [Problems -> Attempt]]]
      <3> HIDE DEF new
      <3> QED BY <1>3, <1>5, <1>6, <1>7 DEF TypeOK
    <2>2. /\ taken' \in [Contests -> SUBSET Nat]
          /\ \A d \in Contests : taken'[d] \subseteq DOMAIN feed'[d]
      BY <1>1, <1>2, <1>3, <1>4 DEF TypeOK
    <2>3. participated' \in [Contests -> SUBSET Handles] BY <1>1, <1>3, <1>5 DEF TypeOK
    <2>4. UNCHANGED <<rankings, pdf, withDetails, pages, page>> BY DEF Take, printing
    <2> QED BY <1>2, <1>3, <2>1, <2>2, <2>3, <2>4 DEF TypeOK
  <1>9. InOrder'
    <2> SUFFICES ASSUME NEW d \in Contests, NEW k \in taken'[d],
                        NEW j \in DOMAIN feed[d] \ taken'[d]
                 PROVE  Earlier(feed[d], k, j)
      BY <1>2 DEF InOrder
    <2>1. taken'[d] = IF d = c THEN taken[d] \cup {i} ELSE taken[d]
      BY <1>1, <1>3 DEF TypeOK
    <2> QED BY <1>1, <2>1 DEF JudgeInv, InOrder
  <1>10. ASSUME NEW d \in Contests, NEW h \in Handles, NEW p \in Problems
         PROVE  Icpc(attempts'[d][h][p], feed[d], On(d, h, p)')
    <2>1. Icpc(attempts[d][h][p], feed[d], On(d, h, p)) BY DEF JudgeInv, AttemptIsIcpc
    <2>2. taken'[d] = IF d = c THEN taken[d] \cup {i} ELSE taken[d]
      BY <1>1, <1>3 DEF TypeOK
    <2>3. CASE d = c /\ h = h0 /\ p = p0
      <3>1. attempts'[c][h][p] = Judged(attempts[c][h][p], feed[c][i])
        <4> HIDE DEF new
        <4>1. attempts'[c][h][p] = new BY <1>3, <1>5, <1>7, <2>3 DEF TypeOK
        <4> QED BY <2>3, <4>1 DEF new
      <3>2. On(d, h, p)' = On(d, h, p) \cup {i} BY <1>2, <2>2, <2>3 DEF On
      <3>3. attempts[d][h][p] \in Attempt BY <1>3 DEF TypeOK
      <3>4. IsFiniteSet(On(d, h, p)) /\ i \notin On(d, h, p)
        BY <1>3, <2>3, FeedFacts, FS_Subset DEF On
      <3>5. \A j \in On(d, h, p) : Earlier(feed[d], j, i) /\ ~Earlier(feed[d], i, j)
        BY <2>3, JudgeFacts DEF JudgeInv
      <3>6. Earlier(feed[d], i, i) /\ feed[d][i].accepted \in BOOLEAN
        BY <1>4, <2>3 DEF Earlier, Submission
      <3>7. Icpc(Judged(attempts[d][h][p], feed[d][i]), feed[d], On(d, h, p) \cup {i})
        BY <2>1, <3>3, <3>4, <3>5, <3>6, JudgedIsIcpc
      <3> QED BY <2>3, <3>1, <3>2, <3>7
    <2>4. CASE ~(d = c /\ h = h0 /\ p = p0)
      <3>1. attempts'[d][h][p] = attempts[d][h][p]
        <4> HIDE DEF new, h0, p0
        <4> QED BY <1>3, <1>5, <1>7, <2>4 DEF TypeOK
      <3>2. On(d, h, p)' = On(d, h, p) BY <1>2, <2>2, <2>4 DEF On
      <3> QED BY <2>1, <3>1, <3>2
    <2> QED BY <2>3, <2>4
  <1>11. AttemptIsIcpc'
    BY <1>2, <1>10 DEF AttemptIsIcpc
  <1>12. TookPart'
    <2> SUFFICES ASSUME NEW d \in Contests, NEW h \in Handles
                 PROVE  h \in participated'[d] <=>
                            \E k \in taken'[d] : feed[d][k].handle = h /\ InTime(feed[d][k])
      BY <1>2 DEF TookPart
    <2>1. h \in participated[d] <=>
              \E k \in taken[d] : feed[d][k].handle = h /\ InTime(feed[d][k])
      BY DEF JudgeInv, TookPart
    <2>2. taken'[d] = IF d = c THEN taken[d] \cup {i} ELSE taken[d]
      BY <1>1, <1>3 DEF TypeOK
    <2>3. participated'[d] = IF d = c /\ InTime(feed[c][i]) THEN participated[d] \cup {h0}
                             ELSE participated[d]
      BY <1>1, <1>3 DEF TypeOK
    <2> QED BY <2>1, <2>2, <2>3
  <1> QED BY <1>8, <1>9, <1>11, <1>12 DEF JudgeInv

\* A step that judges nothing.
LEMMA StutterInv ==
    ASSUME JudgeInv, UNCHANGED judging, TypeOK'
    PROVE  JudgeInv'
  <1>1. InOrder' BY DEF JudgeInv, InOrder, judging
  <1>2. AttemptIsIcpc' BY DEF JudgeInv, AttemptIsIcpc, On, judging
  <1>3. TookPart' BY DEF JudgeInv, TookPart, judging
  <1> QED BY <1>1, <1>2, <1>3 DEF JudgeInv

-----------------------------------------------------------------------------
(* The score of a handle.                                                  *)

\* The problems a handle solved in a contest, in time or not.
SolvedBy(c, h) == {p \in Problems : \E i \in On(c, h, p) : feed[c][i].accepted}

\* A result in numbers, and what it counts together.
LEMMA ResultFacts ==
    ASSUME JudgeInv, NEW c \in Contests, NEW h \in Handles
    PROVE  /\ Result(c, h).solved \in Nat /\ Result(c, h).upsolved \in Nat
           /\ Result(c, h).penalty \in Nat
           /\ Result(c, h).solved + Result(c, h).upsolved = Cardinality(SolvedBy(c, h))
  <1> DEFINE a == attempts[c][h]
             during == IF h \in participated[c] THEN {p \in Problems : a[p].during} ELSE {}
             after == {p \in Problems : a[p].after \/ a[p].during} \ during
             times == [p \in Problems |-> a[p].time]
             wrongs == [p \in Problems |-> a[p].wrong]
             D == SumFunctionOnSet(times, during)
             E == SumFunctionOnSet(wrongs, during)
  <1>1. Result(c, h) = [solved |-> Cardinality(during), upsolved |-> Cardinality(after),
                        penalty |-> D \div 60 + 20 * E]
    BY DEF Result
  <1>2. \A p \in Problems : a[p] \in Attempt BY DEF JudgeInv, TypeOK
  <1>3. during \subseteq Problems /\ after \subseteq Problems OBVIOUS
  <1>4. IsFiniteSet(during) /\ IsFiniteSet(after) BY <1>3, InputAssumption, FS_Subset
  <1>5. Cardinality(during) \in Nat /\ Cardinality(after) \in Nat
    BY <1>4, FS_CardinalityType
  <1>6. Numbers(times, during) /\ Numbers(wrongs, during)
    <2> HIDE DEF a, during
    <2> QED BY <1>2, <1>3, <1>4 DEF Numbers, Attempt
  <1>7. D \in Nat /\ E \in Nat
    <2> HIDE DEF times, wrongs, during
    <2> QED BY <1>6, SumIsNat
  <1>8. during \cup after = SolvedBy(c, h)
    <2>1. during \cup after = {p \in Problems : a[p].during \/ a[p].after} OBVIOUS
    <2>2. \A p \in Problems : a[p].during \/ a[p].after
                                  <=> \E i \in On(c, h, p) : feed[c][i].accepted
      BY DEF JudgeInv, AttemptIsIcpc, Icpc
    <2> QED BY <2>1, <2>2 DEF SolvedBy
  <1>9. during \cap after = {} OBVIOUS
  <1> HIDE DEF during, after, D, E
  <1>10. Cardinality(during \cap after) = 0 BY <1>9, FS_EmptySet
  <1>11. Cardinality(during \cup after)
            = Cardinality(during) + Cardinality(after) - Cardinality(during \cap after)
    BY <1>4, FS_Union
  <1>12. Cardinality(SolvedBy(c, h)) = Cardinality(during) + Cardinality(after)
    <2> HIDE DEF a, times, wrongs
    <2>1. Cardinality(during \cup after) = Cardinality(during) + Cardinality(after)
      BY <1>5, <1>10, <1>11
    <2> QED BY <1>8, <2>1
  <1>13. D \div 60 + 20 * E \in Nat BY <1>7
  <1> QED BY <1>1, <1>5, <1>12, <1>13

\* Of two submissions on a list one is earlier.
LEMMA EarlierIsOrder ==
    ASSUME NEW subs, NEW i \in Nat, NEW j \in Nat, subs[i].time \in Nat, subs[j].time \in Nat,
           Earlier(subs, i, j), Earlier(subs, j, i)
    PROVE  i = j
  BY DEF Earlier

\* What is earlier than a submission in time is in time.
LEMMA EarlierInTime ==
    ASSUME NEW subs, NEW i, NEW j, subs[i].time \in Nat, subs[j].time \in Nat,
           Earlier(subs, i, j), InTime(subs[j])
    PROVE  InTime(subs[i])
  <1>1. Duration \in Nat BY InputAssumption
  <1> QED BY <1>1 DEF Earlier, InTime

\* The score is worked out from what is kept of the problems as from the list.
LEMMA ScoreInv == JudgeInv => ScoreIsIcpc
  <1> SUFFICES ASSUME JudgeInv, NEW c \in Contests, NEW h \in Handles
               PROVE  LET hits(p) == Hits(feed[c], On(c, h, p))
                          solved == {p \in Problems : hits(p) # {}}
                          First(p) == CHOOSE i \in hits(p) :
                                          \A j \in hits(p) : Earlier(feed[c], i, j)
                          wrong == {i \in taken[c] :
                                       LET s == feed[c][i] IN
                                       /\ s.handle = h /\ ~s.accepted /\ s.problem \in solved
                                       /\ Earlier(feed[c], i, First(s.problem))}
                      IN Result(c, h) =
                          [solved |-> Cardinality(solved),
                           upsolved |-> Cardinality({p \in Problems \ solved :
                                            \E i \in On(c, h, p) : feed[c][i].accepted}),
                           penalty |->
                               SumFunction([p \in solved |-> feed[c][First(p)].time]) \div 60
                               + 20 * Cardinality(wrong)]
    BY DEF ScoreIsIcpc
  <1> DEFINE subs == feed[c]
             hits(p) == Hits(subs, On(c, h, p))
             solved == {p \in Problems : hits(p) # {}}
             First(p) == CHOOSE i \in hits(p) : \A j \in hits(p) : Earlier(subs, i, j)
             wrong == {i \in taken[c] :
                          LET s == subs[i] IN
                          /\ s.handle = h /\ ~s.accepted /\ s.problem \in solved
                          /\ Earlier(subs, i, First(s.problem))}
             a == attempts[c][h]
             during == IF h \in participated[c] THEN {p \in Problems : a[p].during} ELSE {}
             after == {p \in Problems : a[p].after \/ a[p].during} \ during
             times == [p \in Problems |-> a[p].time]
             wrongs == [p \in Problems |-> a[p].wrong]
             firsts == [p \in solved |-> subs[First(p)].time]
  <1>1. TypeOK BY DEF JudgeInv
  <1>2. \A p \in Problems : Icpc(a[p], subs, On(c, h, p)) BY DEF JudgeInv, AttemptIsIcpc
  <1>3. \A p \in Problems : a[p] \in Attempt BY <1>1 DEF TypeOK
  <1>4. \A i \in taken[c] : i \in Nat /\ subs[i] \in Submission BY <1>1, FeedFacts
  <1>5. \A p : On(c, h, p) \subseteq taken[c] /\ hits(p) \subseteq On(c, h, p)
    BY DEF On, Hits
  <1>6. \A p \in Problems : a[p].during <=> p \in solved BY <1>2 DEF Icpc
  <1>7. during = solved
    <2>1. ASSUME NEW p \in solved PROVE h \in participated[c]
      <3>1. PICK i \in hits(p) : TRUE OBVIOUS
      <3>2. i \in taken[c] /\ subs[i].handle = h /\ InTime(subs[i]) BY <3>1 DEF Hits, On
      <3> QED BY <3>2 DEF JudgeInv, TookPart
    <2> HIDE DEF solved, a
    <2>2. solved # {} => h \in participated[c] BY <2>1
    <2>3. solved = {p \in Problems : a[p].during} BY <1>6 DEF solved
    <2> QED BY <2>2, <2>3
  <1>8. after = {p \in Problems \ solved : \E i \in On(c, h, p) : subs[i].accepted}
    <2>1. \A p \in Problems : a[p].during \/ a[p].after
                                  <=> \E i \in On(c, h, p) : subs[i].accepted
      BY <1>2 DEF Icpc
    <2> HIDE DEF a, solved, during
    <2> QED BY <1>7, <2>1
  <1>9. ASSUME NEW p \in solved
        PROVE  /\ First(p) \in hits(p)
               /\ a[p].time = subs[First(p)].time
               /\ a[p].wrong = Cardinality({j \in Misses(subs, On(c, h, p)) :
                                                Earlier(subs, j, First(p))})
    <2>1. p \in Problems /\ a[p].during BY <1>6
    <2>2. PICK i \in hits(p) : /\ \A j \in hits(p) : Earlier(subs, i, j)
                               /\ a[p].time = subs[i].time
                               /\ a[p].wrong = Cardinality({j \in Misses(subs, On(c, h, p)) :
                                                                Earlier(subs, j, i)})
      BY <1>2, <2>1 DEF Icpc, FirstHit
    <2> DEFINE k == First(p)
    <2>3. k \in hits(p) /\ \A j \in hits(p) : Earlier(subs, k, j)
      <3> HIDE DEF hits, subs
      <3> QED BY <2>2
    <2> HIDE DEF k
    <2>4. Earlier(subs, i, k) /\ Earlier(subs, k, i) BY <2>2, <2>3
    <2>5. i \in Nat /\ k \in Nat /\ subs[i].time \in Nat /\ subs[k].time \in Nat
      BY <1>4, <1>5, <2>3 DEF Submission
    <2>6. i = k BY <2>4, <2>5, EarlierIsOrder
    <2> QED BY <2>2, <2>3, <2>6 DEF k
  <1>10. IsFiniteSet(solved) BY InputAssumption, FS_Subset
  <1>11. SumFunctionOnSet(times, solved) = SumFunction(firsts)
    <2>1. \A p \in solved : times[p] \in Nat /\ times[p] = firsts[p]
      <3> TAKE p \in solved
      <3>1. p \in Problems /\ a[p].time \in Nat BY <1>3 DEF Attempt
      <3>2. a[p].time = subs[First(p)].time BY <1>9
      <3> HIDE DEF solved, a, First
      <3> QED BY <3>1, <3>2
    <2>2. DOMAIN firsts = solved OBVIOUS
    <2> HIDE DEF solved, times, firsts
    <2>3. Numbers(times, solved) BY <1>10, <2>1 DEF Numbers
    <2>4. SumFunctionOnSet(times, solved) = SumFunctionOnSet(firsts, solved)
      BY <2>1, <2>3, SumEqual
    <2> QED BY <2>2, <2>4 DEF SumFunction
  <1>12. SumFunctionOnSet(wrongs, solved) = Cardinality(wrong)
    <2> DEFINE W == [p \in solved |-> {j \in Misses(subs, On(c, h, p)) :
                                           Earlier(subs, j, First(p))}]
    <2>1. ASSUME NEW p \in solved
          PROVE  W[p] \subseteq On(c, h, p) /\ wrongs[p] = Cardinality(W[p])
      <3>1. p \in Problems OBVIOUS
      <3>2. W[p] = {j \in Misses(subs, On(c, h, p)) : Earlier(subs, j, First(p))}
        BY DEF W
      <3>3. Misses(subs, On(c, h, p)) \subseteq On(c, h, p) BY DEF Misses
      <3>4. a[p].wrong = Cardinality({j \in Misses(subs, On(c, h, p)) :
                                          Earlier(subs, j, First(p))})
        BY <1>9
      <3> HIDE DEF a, solved, First, W
      <3> QED BY <3>1, <3>2, <3>3, <3>4
    <2>2. Apart(W, solved)
      <3> HIDE DEF W, solved
      <3>1. IsFiniteSet(taken[c]) BY <1>1, FeedFacts
      <3>2. \A p \in solved : IsFiniteSet(W[p]) BY <1>5, <2>1, <3>1, FS_Subset
      <3>3. \A p, q : p # q => On(c, h, p) \cap On(c, h, q) = {} BY DEF On
      <3> QED BY <2>1, <3>2, <3>3 DEF Apart
    <2>3. UNION {W[p] : p \in solved} = wrong
      <3>1. ASSUME NEW p \in solved, NEW j \in W[p] PROVE j \in wrong
        <4>1. j \in Misses(subs, On(c, h, p)) /\ Earlier(subs, j, First(p)) OBVIOUS
        <4>2. j \in taken[c] /\ subs[j].handle = h /\ subs[j].problem = p /\ ~subs[j].accepted
          BY <4>1 DEF Misses, On
        <4> HIDE DEF First, solved
        <4> QED BY <4>1, <4>2
      <3>2. ASSUME NEW j \in wrong PROVE \E p \in solved : j \in W[p]
        <4> DEFINE p == subs[j].problem
        <4>1. /\ p \in solved /\ j \in On(c, h, p) /\ ~subs[j].accepted
              /\ Earlier(subs, j, First(p)) /\ j \in taken[c]
          BY DEF On
        <4> HIDE DEF p
        <4>2. First(p) \in hits(p) BY <1>9, <4>1
        <4> DEFINE k == First(p)
        <4>3. InTime(subs[k]) /\ k \in taken[c] BY <1>5, <4>2 DEF Hits
        <4>4. Earlier(subs, j, k) BY <4>1
        <4> HIDE DEF k
        <4>5. subs[j].time \in Nat /\ subs[k].time \in Nat BY <1>4, <4>1, <4>3 DEF Submission
        <4>6. InTime(subs[j]) BY <4>3, <4>4, <4>5, EarlierInTime
        <4>7. j \in Misses(subs, On(c, h, p)) BY <4>1, <4>6 DEF Misses
        <4>8. j \in W[p]
          <5> HIDE DEF First, solved
          <5> QED BY <4>1, <4>7
        <4> QED BY <4>1, <4>8
      <3> HIDE DEF W, solved, wrong
      <3> QED BY <3>1, <3>2
    <2> HIDE DEF W, solved, wrongs, wrong
    <2>4. \A p \in solved : wrongs[p] = Cardinality(W[p]) BY <2>1
    <2> QED BY <1>10, <2>2, <2>3, <2>4, SumOfSizes
  <1>13. Result(c, h) = [solved |-> Cardinality(during), upsolved |-> Cardinality(after),
                         penalty |-> SumFunctionOnSet(times, during) \div 60
                                     + 20 * SumFunctionOnSet(wrongs, during)]
    BY DEF Result
  <1> HIDE DEF times, wrongs, during, after
  <1>14. Result(c, h) = [solved |-> Cardinality(solved),
                         upsolved |-> Cardinality({p \in Problems \ solved :
                                          \E i \in On(c, h, p) : subs[i].accepted}),
                         penalty |-> SumFunction(firsts) \div 60 + 20 * Cardinality(wrong)]
    BY <1>7, <1>8, <1>11, <1>12, <1>13
  <1> QED BY <1>14

-----------------------------------------------------------------------------
(* The rows.                                                               *)

\* Applied to all of a finite set, a function takes finitely many values.
LEMMA FewValues ==
    ASSUME NEW S, IsFiniteSet(S), NEW f
    PROVE  IsFiniteSet({f[x] : x \in S})
  <1> DEFINE g == [x \in S |-> f[x]]
             T == {f[x] : x \in S}
  <1>1. g \in Surjection(S, T) BY DEF Surjection
  <1> HIDE DEF g
  <1> QED BY <1>1, FS_Surjection

\* As many entries for a problem of a handle as there are problems.
With(c, h, x, A) == {<<<<c, h, p>>, x>> : p \in A}

LEMMA Entries ==
    ASSUME NEW A, IsFiniteSet(A), NEW c, NEW h, NEW x
    PROVE  IsFiniteSet(With(c, h, x, A)) /\ Cardinality(With(c, h, x, A)) = Cardinality(A)
  <1> DEFINE B == {<<<<c, h, p>>, x>> : p \in A}
             g == [p \in A |-> <<<<c, h, p>>, x>>]
  <1>1. g \in [A -> B] OBVIOUS
  <1>2. \A p, q \in A : g[p] = g[q] => p = q OBVIOUS
  <1>3. \A b \in B : \E p \in A : g[p] = b OBVIOUS
  <1> HIDE DEF g, B
  <1>4. g \in Bijection(A, B) BY <1>1, <1>2, <1>3 DEF Bijection, Injection, IsInjective, Surjection
  <1>5. ExistsBijection(A, B) BY <1>4 DEF ExistsBijection
  <1>6. IsFiniteSet(B) /\ Cardinality(B) = Cardinality(A) BY <1>5, FS_Bijection
  <1> QED BY <1>6 DEF B, With

\* The same for one problem and many places.
At(chp, A) == {<<chp, x>> : x \in A}

LEMMA Places ==
    ASSUME NEW A, IsFiniteSet(A), NEW chp
    PROVE  IsFiniteSet(At(chp, A)) /\ Cardinality(At(chp, A)) = Cardinality(A)
  <1> DEFINE B == {<<chp, x>> : x \in A}
             g == [x \in A |-> <<chp, x>>]
  <1>1. g \in [A -> B] OBVIOUS
  <1>2. \A x, y \in A : g[x] = g[y] => x = y OBVIOUS
  <1>3. \A b \in B : \E x \in A : g[x] = b OBVIOUS
  <1> HIDE DEF g, B
  <1>4. g \in Bijection(A, B) BY <1>1, <1>2, <1>3 DEF Bijection, Injection, IsInjective, Surjection
  <1>5. ExistsBijection(A, B) BY <1>4 DEF ExistsBijection
  <1>6. IsFiniteSet(B) /\ Cardinality(B) = Cardinality(A) BY <1>5, FS_Bijection
  <1> QED BY <1>6 DEF B, At

LEMMA TextsAreLists == \A l \in Texts : l \in Seq(Handles)
  <1> SUFFICES ASSUME NEW l \in Texts PROVE l \in Seq(Handles) OBVIOUS
  <1>1. CASE \E h \in Handles : l = <<h>> BY <1>1
  <1>2. CASE \E list \in MergeLists : l \in Range(list)
    <2>1. PICK list \in MergeLists : \E m \in DOMAIN list : l = list[m] BY <1>2 DEF Range
    <2>2. list \in Seq(Seq(Handles)) BY InputAssumption
    <2> QED BY <2>1, <2>2
  <1> QED BY <1>1, <1>2 DEF Texts

\* The handles of each row, with the merge it stands for.
RowKeys == {<<<<h>>, 0>> : h \in Unmerged} \cup {<<merges[m], m>> : m \in DOMAIN merges}

RowOf(k) == Row(k[1], k[2])

IsKey(k) == /\ k[1] \in Texts /\ k[1] \in Seq(Handles) /\ k[2] \in Nat
            /\ k = <<k[1], k[2]>>

LEMMA RequestFacts ==
    ASSUME JudgeInv
    PROVE  /\ \A c \in Contests : registered[c] \subseteq Handles
           /\ DOMAIN merges = 1 .. Len(merges) /\ Len(merges) \in Nat
           /\ \A m \in DOMAIN merges : merges[m] \in Seq(Handles) /\ merges[m] \in Texts
           /\ \A h : h \in Unmerged <=> h \notin Merged /\ \E c \in Contests : h \in registered[c]
           /\ Unmerged \subseteq Handles
  <1>1. /\ registered \in [Contests -> SUBSET Handles]
        /\ merges \in MergeLists /\ merges \in Seq(Seq(Handles))
    BY InputAssumption DEF JudgeInv, TypeOK
  <1>2. \A m \in DOMAIN merges : merges[m] \in Texts
    BY <1>1 DEF Texts, Range
  <1>3. \A h : h \in Unmerged <=> h \notin Merged /\ \E c \in Contests : h \in registered[c]
    <2>1. DOMAIN registered = Contests BY <1>1
    <2> QED BY <2>1 DEF Unmerged, Range
  <1>4. \A c \in Contests : registered[c] \subseteq Handles BY <1>1
  <1>5. Unmerged \subseteq Handles BY <1>3, <1>4
  <1> QED BY <1>1, <1>2, <1>3, <1>4, <1>5

\* A row is known by its merge, and without one by the text it shows.
LEMMA RowKeyFacts ==
    ASSUME JudgeInv
    PROVE  /\ Rows = {RowOf(k) : k \in RowKeys} /\ IsFiniteSet(RowKeys)
           /\ \A k \in RowKeys : IsKey(k)
           /\ \A k, l \in RowKeys : k # l /\ k[2] = l[2] =>
                  \E g, h \in Handles : /\ k[1] = <<g>> /\ l[1] = <<h>> /\ g # h
                                        /\ Text[k[1]] # Text[l[1]]
  <1>1. /\ DOMAIN merges = 1 .. Len(merges) /\ Len(merges) \in Nat
        /\ \A m \in DOMAIN merges : merges[m] \in Seq(Handles) /\ merges[m] \in Texts
        /\ Unmerged \subseteq Handles
    BY RequestFacts
  <1>2. \A k \in RowKeys : \/ \E h \in Unmerged : k = <<<<h>>, 0>>
                           \/ \E m \in DOMAIN merges : k = <<merges[m], m>>
    BY DEF RowKeys
  <1>3. \A h \in Unmerged : <<h>> \in Texts /\ <<h>> \in Seq(Handles) BY <1>1 DEF Texts
  <1>4. \A k \in RowKeys : IsKey(k)
    <2> SUFFICES ASSUME NEW k \in RowKeys PROVE IsKey(k) OBVIOUS
    <2>1. CASE \E h \in Unmerged : k = <<<<h>>, 0>> BY <1>3, <2>1 DEF IsKey
    <2>2. CASE \E m \in DOMAIN merges : k = <<merges[m], m>> BY <1>1, <2>2 DEF IsKey
    <2> QED BY <1>2, <2>1, <2>2
  <1>5. IsFiniteSet(RowKeys)
    <2>1. IsFiniteSet(Unmerged) BY <1>1, InputAssumption, FS_Subset
    <2>2. IsFiniteSet(DOMAIN merges) BY <1>1, FS_Interval
    <2> DEFINE single == [h \in Unmerged |-> <<<<h>>, 0>>]
               merge == [m \in DOMAIN merges |-> <<merges[m], m>>]
    <2>3. /\ {<<<<h>>, 0>> : h \in Unmerged} = {single[h] : h \in Unmerged}
          /\ {<<merges[m], m>> : m \in DOMAIN merges} = {merge[m] : m \in DOMAIN merges}
      OBVIOUS
    <2> HIDE DEF single, merge
    <2>4. IsFiniteSet({<<<<h>>, 0>> : h \in Unmerged}) BY <2>1, <2>3, FewValues
    <2>5. IsFiniteSet({<<merges[m], m>> : m \in DOMAIN merges}) BY <2>2, <2>3, FewValues
    <2> QED BY <2>4, <2>5, FS_Union DEF RowKeys
  <1>6. ASSUME NEW k \in RowKeys, NEW l \in RowKeys, k # l, k[2] = l[2]
        PROVE  \E g, h \in Handles : /\ k[1] = <<g>> /\ l[1] = <<h>> /\ g # h
                                     /\ Text[k[1]] # Text[l[1]]
    <2>1. ASSUME NEW m \in DOMAIN merges PROVE m # 0 BY <1>1
    <2>2. ~ \E m \in DOMAIN merges : k = <<merges[m], m>>
      <3> SUFFICES ASSUME NEW m \in DOMAIN merges, k = <<merges[m], m>> PROVE FALSE OBVIOUS
      <3>1. CASE \E h \in Unmerged : l = <<<<h>>, 0>> BY <1>6, <2>1, <3>1
      <3>2. CASE \E n \in DOMAIN merges : l = <<merges[n], n>> BY <1>6, <3>2
      <3> QED BY <1>2, <3>1, <3>2
    <2>3. PICK g \in Unmerged : k = <<<<g>>, 0>> BY <1>2, <2>2
    <2>4. ~ \E n \in DOMAIN merges : l = <<merges[n], n>> BY <1>6, <2>1, <2>3
    <2>5. PICK h \in Unmerged : l = <<<<h>>, 0>> BY <1>2, <2>4
    <2>6. g # h /\ g \in Handles /\ h \in Handles BY <1>1, <1>6, <2>3, <2>5
    <2>7. Text[<<g>>] # Text[<<h>>] BY <2>6, TextAssumption
    <2> QED BY <2>3, <2>5, <2>6, <2>7
  <1>7. Rows = {RowOf(k) : k \in RowKeys}
    <2>1. \A h \in Unmerged : RowOf(<<<<h>>, 0>>) = Row(<<h>>, 0) BY DEF RowOf
    <2>2. \A m \in DOMAIN merges : RowOf(<<merges[m], m>>) = Row(merges[m], m) BY DEF RowOf
    <2>3. Rows \subseteq {RowOf(k) : k \in RowKeys}
      <3> SUFFICES ASSUME NEW r \in Rows PROVE \E k \in RowKeys : r = RowOf(k) OBVIOUS
      <3>1. CASE \E h \in Unmerged : r = Row(<<h>>, 0)
        <4>1. PICK h \in Unmerged : r = Row(<<h>>, 0) BY <3>1
        <4>2. <<<<h>>, 0>> \in RowKeys BY DEF RowKeys
        <4> QED BY <2>1, <4>1, <4>2
      <3>2. CASE \E m \in DOMAIN merges : r = Row(merges[m], m)
        <4>1. PICK m \in DOMAIN merges : r = Row(merges[m], m) BY <3>2
        <4>2. <<merges[m], m>> \in RowKeys BY DEF RowKeys
        <4> QED BY <2>2, <4>1, <4>2
      <3> QED BY <3>1, <3>2 DEF Rows
    <2>4. ASSUME NEW k \in RowKeys PROVE RowOf(k) \in Rows
      <3>1. CASE \E h \in Unmerged : k = <<<<h>>, 0>> BY <2>1, <3>1 DEF Rows
      <3>2. CASE \E m \in DOMAIN merges : k = <<merges[m], m>> BY <2>2, <3>2 DEF Rows
      <3> QED BY <1>2, <3>1, <3>2
    <2> QED BY <2>3, <2>4
  <1> QED BY <1>4, <1>5, <1>6, <1>7

\* What a row counts: a problem, and the place in the row of the handle that solved it.
SolvedOf(k) ==
    {w \in SolvedProblems \X ({k[2]} \X DOMAIN k[1]) : k[1][w[2][2]] = w[1][2]}

\* It counts just that.
LEMMA RowFacts ==
    ASSUME JudgeInv, NEW k, IsKey(k)
    PROVE  /\ RowOf(k) \in Standing /\ RowOf(k).handle = k[1] /\ RowOf(k).merge = k[2]
           /\ IsFiniteSet(SolvedOf(k))
           /\ RowOf(k).solved + RowOf(k).upsolved = Cardinality(SolvedOf(k))
  <1> DEFINE l == k[1]
             m == k[2]
             places == {ci \in Contests \X DOMAIN l : l[ci[2]] \in registered[ci[1]]}
             solved == [ci \in places |-> Result(ci[1], l[ci[2]])["solved"]]
             upsolved == [ci \in places |-> Result(ci[1], l[ci[2]])["upsolved"]]
             penalty == [ci \in places |-> Result(ci[1], l[ci[2]])["penalty"]]
             both == [ci \in places |-> Cardinality(SolvedBy(ci[1], l[ci[2]]))]
             there == {ci \in places : l[ci[2]] \in participated[ci[1]]}
  <1>0. l \in Texts /\ l \in Seq(Handles) /\ m \in Nat BY DEF IsKey
  <1>1. RowOf(k) = [handle |-> l, merge |-> m, solved |-> SumFunction(solved),
                    upsolved |-> SumFunction(upsolved), penalty |-> SumFunction(penalty),
                    contests |-> Cardinality({ci[1] : ci \in there})]
    BY DEF RowOf, Row
  <1> HIDE DEF l, m
  <1>2. IsFiniteSet(DOMAIN l) /\ \A i \in DOMAIN l : l[i] \in Handles
    <2>1. DOMAIN l = 1 .. Len(l) /\ Len(l) \in Nat BY <1>0
    <2>2. IsFiniteSet(DOMAIN l) BY <2>1, FS_Interval
    <2>3. \A i \in DOMAIN l : l[i] \in Handles BY <1>0
    <2> QED BY <2>2, <2>3
  <1>3. IsFiniteSet(Contests) BY InputAssumption, FS_Interval DEF Contests
  <1>4. IsFiniteSet(places)
    <2>1. IsFiniteSet(Contests \X DOMAIN l) BY <1>2, <1>3, FS_Product
    <2> QED BY <2>1, FS_Subset
  <1>5. \A ci \in places : /\ ci[1] \in Contests /\ ci[2] \in DOMAIN l
                           /\ l[ci[2]] \in Handles /\ ci = <<ci[1], ci[2]>>
    BY <1>2
  <1>6. \A ci \in places : /\ Result(ci[1], l[ci[2]]).solved \in Nat
                           /\ Result(ci[1], l[ci[2]]).upsolved \in Nat
                           /\ Result(ci[1], l[ci[2]]).penalty \in Nat
                           /\ Result(ci[1], l[ci[2]]).solved + Result(ci[1], l[ci[2]]).upsolved
                                  = Cardinality(SolvedBy(ci[1], l[ci[2]]))
    <2> HIDE DEF places
    <2> QED BY <1>5, ResultFacts
  <1>7. Numbers(solved, places) /\ Numbers(upsolved, places) /\ Numbers(penalty, places)
    <2> HIDE DEF places
    <2> QED BY <1>4, <1>6 DEF Numbers
  <1>8. \A ci \in places : both[ci] = solved[ci] + upsolved[ci]
    <2> HIDE DEF places
    <2> QED BY <1>6
  <1>9. DOMAIN solved = places /\ DOMAIN upsolved = places /\ DOMAIN penalty = places
    OBVIOUS
  <1>10. IsFiniteSet({ci[1] : ci \in there})
    <2>1. {ci[1] : ci \in there} \subseteq Contests OBVIOUS
    <2> QED BY <1>3, <2>1, FS_Subset
  <1>11. Cardinality({ci[1] : ci \in there}) \in Nat BY <1>10, FS_CardinalityType
  <1>12. IsFiniteSet(SolvedOf(k)) /\ SumFunctionOnSet(both, places) = Cardinality(SolvedOf(k))
    <2> DEFINE W == [ci \in places |->
                        With(ci[1], l[ci[2]], <<m, ci[2]>>, SolvedBy(ci[1], l[ci[2]]))]
    <2>1. ASSUME NEW ci \in places
          PROVE  IsFiniteSet(W[ci]) /\ both[ci] = Cardinality(W[ci])
      <3> DEFINE A == SolvedBy(ci[1], l[ci[2]])
      <3>1. W[ci] = With(ci[1], l[ci[2]], <<m, ci[2]>>, A) /\ both[ci] = Cardinality(A)
        OBVIOUS
      <3>2. A \subseteq Problems BY DEF SolvedBy
      <3>3. IsFiniteSet(A) BY <3>2, InputAssumption, FS_Subset
      <3> HIDE DEF A, W, both, places
      <3> QED BY <3>1, <3>3, Entries
    <2>2. ASSUME NEW x \in places, NEW y \in places, x # y PROVE W[x] \cap W[y] = {}
      <3>1. x[1] # y[1] \/ x[2] # y[2] BY <2>2
      <3>2. /\ W[x] = With(x[1], l[x[2]], <<m, x[2]>>, SolvedBy(x[1], l[x[2]]))
            /\ W[y] = With(y[1], l[y[2]], <<m, y[2]>>, SolvedBy(y[1], l[y[2]]))
        OBVIOUS
      <3> HIDE DEF W, places
      <3> QED BY <3>1, <3>2 DEF With
    <2>3. \A ci \in places :
              W[ci] = With(ci[1], l[ci[2]], <<m, ci[2]>>, SolvedBy(ci[1], l[ci[2]]))
      OBVIOUS
    <2>4. UNION {W[ci] : ci \in places} = SolvedOf(k)
      <3>1. ASSUME NEW ci \in places, NEW p \in SolvedBy(ci[1], l[ci[2]])
            PROVE  <<<<ci[1], l[ci[2]], p>>, <<m, ci[2]>>>> \in SolvedOf(k)
        <4>1. l[ci[2]] \in registered[ci[1]] OBVIOUS
        <4>2. <<ci[1], l[ci[2]], p>> \in SolvedProblems
          BY <1>5, <4>1 DEF SolvedBy, SolvedProblems
        <4> QED BY <1>5, <4>2 DEF SolvedOf, l, m
      <3>2. ASSUME NEW w \in SolvedOf(k)
            PROVE  \E ci \in places : w \in W[ci]
        <4>1. /\ w \in SolvedProblems \X ({m} \X DOMAIN l) /\ l[w[2][2]] = w[1][2]
          BY DEF SolvedOf, l, m
        <4>2. PICK chp \in SolvedProblems, i \in DOMAIN l : w = <<chp, <<m, i>>>>
          BY <4>1
        <4>3. PICK c \in Contests, h \in Handles, p \in Problems : chp = <<c, h, p>>
          BY DEF SolvedProblems
        <4>4. /\ h \in registered[c] /\ l[i] = h
              /\ \E j \in On(c, h, p) : feed[c][j].accepted
          BY <4>1, <4>2, <4>3 DEF SolvedProblems
        <4>5. <<c, i>> \in places /\ p \in SolvedBy(c, l[i]) BY <4>4 DEF SolvedBy
        <4>6. W[<<c, i>>] = With(c, l[i], <<m, i>>, SolvedBy(c, l[i])) BY <4>5
        <4> HIDE DEF W, places
        <4>7. w \in W[<<c, i>>] BY <4>2, <4>3, <4>4, <4>5, <4>6 DEF With
        <4> QED BY <4>5, <4>7
      <3>3. ASSUME NEW ci \in places, NEW w \in W[ci] PROVE w \in SolvedOf(k)
        <4> HIDE DEF W, places
        <4>1. PICK p \in SolvedBy(ci[1], l[ci[2]]) : w = <<<<ci[1], l[ci[2]], p>>, <<m, ci[2]>>>>
          BY <2>3 DEF With
        <4> QED BY <3>1, <4>1
      <3> HIDE DEF W, places
      <3> QED BY <3>2, <3>3
    <2> HIDE DEF W, both, places
    <2>5. Apart(W, places) BY <2>1, <2>2 DEF Apart
    <2>6. \A ci \in places : both[ci] = Cardinality(W[ci]) BY <2>1
    <2>7. /\ IsFiniteSet(UNION {W[ci] : ci \in places})
          /\ SumFunctionOnSet(both, places) = Cardinality(UNION {W[ci] : ci \in places})
      BY <1>4, <2>5, <2>6, SumOfSizes
    <2> QED BY <2>4, <2>7
  <1> HIDE DEF solved, upsolved, penalty, both, places, there
  <1>13. /\ SumFunctionOnSet(solved, places) \in Nat
         /\ SumFunctionOnSet(upsolved, places) \in Nat
         /\ SumFunctionOnSet(penalty, places) \in Nat
    BY <1>7, SumIsNat
  <1>14. SumFunctionOnSet(both, places)
            = SumFunctionOnSet(solved, places) + SumFunctionOnSet(upsolved, places)
    BY <1>7, <1>8, SumPlus
  <1>15. RowOf(k) \in Standing
    BY <1>0, <1>1, <1>9, <1>11, <1>13 DEF Standing, SumFunction
  <1>16. RowOf(k).solved + RowOf(k).upsolved = Cardinality(SolvedOf(k))
    BY <1>1, <1>9, <1>12, <1>14 DEF SumFunction
  <1>17. RowOf(k).handle = k[1] /\ RowOf(k).merge = k[2] BY <1>1 DEF l, m
  <1> QED BY <1>12, <1>15, <1>16, <1>17

-----------------------------------------------------------------------------
(* The order of the rows and their ranks.                                  *)

LEMMA BetterIsOrder ==
    ASSUME NEW r \in Standing, NEW q \in Standing, NEW t \in Standing
    PROVE  /\ ~Better(r, r)
           /\ Better(r, q) => ~Better(q, r)
           /\ Better(r, q) /\ ~Better(t, q) => Better(r, t)
           /\ Better(r, q) /\ ~Better(r, t) => Better(t, q)
  <1>1. /\ r.solved \in Nat /\ r.upsolved \in Nat /\ r.penalty \in Nat
        /\ q.solved \in Nat /\ q.upsolved \in Nat /\ q.penalty \in Nat
        /\ t.solved \in Nat /\ t.upsolved \in Nat /\ t.penalty \in Nat
    BY DEF Standing
  <1> QED BY <1>1 DEF Better

\* Of two rows that tie, which one stands first.
Ahead(r, q) ==
    \/ Text[r.handle] < Text[q.handle]
    \/ Text[r.handle] = Text[q.handle] /\ r.merge < q.merge

\* Nothing better comes later, and ties stand by their texts and merges.
Ordered(s) ==
    \A i, j \in DOMAIN s : i < j =>
        /\ ~Better(s[j], s[i])
        /\ Tied(s[i], s[j]) => Ahead(s[i], s[j])

\* The sorted rows: each once, and of two one is always ahead.
LEMMA SortedFacts ==
    ASSUME JudgeInv, NEW s \in Sorted(Rows)
    PROVE  /\ s \in Seq(Standing) /\ Ordered(s)
           /\ \A i \in DOMAIN s : \E k \in RowKeys : s[i] = RowOf(k)
           /\ \A i, j \in DOMAIN s : i # j => s[i] # s[j]
           /\ \A k \in RowKeys : \E i \in DOMAIN s : s[i] = RowOf(k)
  <1> DEFINE n == Cardinality(Rows)
  <1>1. /\ Rows = {RowOf(k) : k \in RowKeys} /\ IsFiniteSet(RowKeys)
        /\ \A k \in RowKeys : IsKey(k)
        /\ \A k, l \in RowKeys : k # l /\ k[2] = l[2] => Text[k[1]] # Text[l[1]]
    BY RowKeyFacts
  <1>2. \A k \in RowKeys : /\ RowOf(k) \in Standing
                           /\ RowOf(k).handle = k[1] /\ RowOf(k).merge = k[2]
    BY <1>1, RowFacts
  <1>3. IsFiniteSet(Rows)
    <2> DEFINE row == [k \in RowKeys |-> RowOf(k)]
    <2>1. Rows = {row[k] : k \in RowKeys} BY <1>1
    <2>2. IsFiniteSet(RowKeys) BY <1>1
    <2> HIDE DEF row
    <2>3. IsFiniteSet({row[k] : k \in RowKeys}) BY <2>2, FewValues
    <2> QED BY <2>1, <2>3
  <1>4. n \in Nat BY <1>3, FS_CardinalityType
  <1>5. /\ s \in [1 .. n -> Rows] /\ Range(s) = Rows
        /\ \A i, j \in DOMAIN s : i < j => ~Before(s[j], s[i])
    BY DEF Sorted
  <1> HIDE DEF n
  <1>6. DOMAIN s = 1 .. n BY <1>5
  <1>7. \A i \in DOMAIN s : \E k \in RowKeys : s[i] = RowOf(k)
    <2>1. \A i \in DOMAIN s : s[i] \in Rows BY <1>5
    <2> QED BY <1>1, <2>1
  <1>8. s \in [1 .. n -> Standing]
    <2>1. \A i \in 1 .. n : s[i] \in Standing BY <1>2, <1>6, <1>7
    <2> QED BY <1>5, <2>1
  <1>9. s \in Seq(Standing) BY <1>4, <1>8, IsList
  <1>10. \A k \in RowKeys : \E i \in DOMAIN s : s[i] = RowOf(k) BY <1>1, <1>5 DEF Range
  <1>11. \A i, j \in DOMAIN s : i # j => s[i] # s[j]
    <2>1. s \in Surjection(1 .. n, Rows) BY <1>5, <1>6 DEF Surjection, Range
    <2>2. IsFiniteSet(1 .. n) /\ Cardinality(1 .. n) = n BY <1>4, FS_Interval
    <2>3. s \in Injection(1 .. n, Rows)
      BY <1>3, <2>1, <2>2, FS_SurjSameCardinalityImpliesInj DEF n
    <2> QED BY <1>6, <2>3 DEF Injection, IsInjective
  <1>12. ASSUME NEW i \in DOMAIN s, NEW j \in DOMAIN s, i # j
         PROVE  Ahead(s[i], s[j]) \/ Ahead(s[j], s[i])
    <2>1. PICK k \in RowKeys : s[i] = RowOf(k) BY <1>7
    <2>2. PICK l \in RowKeys : s[j] = RowOf(l) BY <1>7
    <2>3. k # l BY <1>11, <1>12, <2>1, <2>2
    <2>4. /\ s[i].handle = k[1] /\ s[i].merge = k[2]
          /\ s[j].handle = l[1] /\ s[j].merge = l[2]
      BY <1>2, <2>1, <2>2
    <2>5. /\ Text[k[1]] \in Nat /\ Text[l[1]] \in Nat /\ k[2] \in Nat /\ l[2] \in Nat
      BY <1>1, TextAssumption DEF IsKey
    <2>6. k[2] = l[2] => Text[k[1]] # Text[l[1]] BY <1>1, <2>3
    <2> QED BY <2>4, <2>5, <2>6 DEF Ahead
  <1>13. Ordered(s)
    <2> SUFFICES ASSUME NEW i \in DOMAIN s, NEW j \in DOMAIN s, i < j
                 PROVE  ~Better(s[j], s[i]) /\ (Tied(s[i], s[j]) => Ahead(s[i], s[j]))
      BY DEF Ordered
    <2>1. ~Before(s[j], s[i]) BY <1>5
    <2>2. i # j BY <1>4, <1>6
    <2>3. Ahead(s[i], s[j]) \/ Ahead(s[j], s[i]) BY <1>12, <2>2
    <2> QED BY <2>1, <2>3 DEF Before, Tied, Ahead
  <1> QED BY <1>7, <1>9, <1>10, <1>11, <1>13

\* The recursion that gives the ranks has a solution.
LEMMA RanksAreDefined ==
    ASSUME NEW s \in Seq(Standing)
    PROVE  /\ Ranks(s) \in [DOMAIN s -> Nat]
           /\ \A i \in DOMAIN s : Ranks(s)[i] =
                  IF i > 1 /\ Tied(s[i], s[i - 1]) THEN Ranks(s)[i - 1] ELSE i
  <1> DEFINE n == Len(s)
             turn == [i \in 1 .. n |->
                         [r \in Nat |-> IF i > 1 /\ Tied(s[i], s[i - 1]) THEN r ELSE i]]
             Is(g) == g = [i \in DOMAIN s |->
                              IF i > 1 /\ Tied(s[i], s[i - 1]) THEN g[i - 1] ELSE i]
  <1>1. n \in Nat /\ DOMAIN s = 1 .. n /\ 0 \in Nat OBVIOUS
  <1>2. turn \in Steps(n, Nat) BY <1>1 DEF Steps
  <1>3. \A i \in 1 .. n, r \in Nat :
            turn[i][r] = IF i > 1 /\ Tied(s[i], s[i - 1]) THEN r ELSE i
    OBVIOUS
  <1> HIDE DEF turn, n
  <1>4. PICK f : f \in [0 .. n -> Nat] /\ Follows(f, n, 0, turn) BY <1>1, <1>2, Recursion
  <1> DEFINE g == [i \in DOMAIN s |-> f[i]]
  <1>5. ASSUME NEW i \in DOMAIN s
        PROVE  g[i] = IF i > 1 /\ Tied(s[i], s[i - 1]) THEN g[i - 1] ELSE i
    <2>1. i \in 1 .. n /\ i - 1 \in 0 .. n BY <1>1
    <2>2. f[i] = turn[i][f[i - 1]] /\ f[i - 1] \in Nat BY <1>4, <2>1 DEF Follows
    <2>3. f[i] = IF i > 1 /\ Tied(s[i], s[i - 1]) THEN f[i - 1] ELSE i
      BY <1>3, <2>1, <2>2
    <2>4. i > 1 => i - 1 \in DOMAIN s BY <1>1, <2>1
    <2> QED BY <2>3, <2>4
  <1>6. g \in [DOMAIN s -> Nat]
    <2>1. \A i \in DOMAIN s : f[i] \in Nat BY <1>1, <1>4
    <2> QED BY <2>1
  <1>7. Is(g)
    <2>1. g = [i \in DOMAIN s |-> g[i]] OBVIOUS
    <2> HIDE DEF g
    <2> QED BY <1>5, <2>1
  <1>8. Ranks(s) = CHOOSE h : Is(h) BY DEF Ranks
  <1>9. Is(Ranks(s))
    <2> HIDE DEF Is, g
    <2> QED BY <1>7, <1>8
  <1>10. \A i \in DOMAIN s : Ranks(s)[i] =
             IF i > 1 /\ Tied(s[i], s[i - 1]) THEN Ranks(s)[i - 1] ELSE i
    BY <1>9
  <1>11. Ranks(s) \in [DOMAIN s -> Nat]
    <2> DEFINE T == {i \in 0 .. n : i = 0 \/ Ranks(s)[i] \in Nat}
    <2>1. T \in SUBSET (0 .. n) /\ 0 \in T BY <1>1
    <2>2. ASSUME NEW i \in 1 .. n, i - 1 \in T PROVE i \in T
      <3>1. i \in Nat /\ i \in DOMAIN s /\ i \in 0 .. n BY <1>1
      <3>2. i > 1 => i - 1 # 0 BY <3>1
      <3>3. i > 1 => Ranks(s)[i - 1] \in Nat BY <2>2, <3>2
      <3>4. Ranks(s)[i] \in Nat BY <1>10, <3>1, <3>3
      <3> QED BY <3>1, <3>4
    <2> HIDE DEF T
    <2>3. T = 0 .. n BY <1>1, <2>1, <2>2, Induction
    <2>4. \A i \in DOMAIN s : Ranks(s)[i] \in Nat BY <1>1, <2>3 DEF T
    <2>5. Ranks(s) = [i \in DOMAIN s |-> Ranks(s)[i]] BY <1>9
    <2> QED BY <2>4, <2>5
  <1> QED BY <1>10, <1>11

\* The rank of a row is its place, or that of the first it ties with: all that is
\* better comes before that, and nothing else.
LEMMA RankIsPlace ==
    ASSUME NEW s \in Seq(Standing), Ordered(s)
    PROVE  \A i \in DOMAIN s : /\ Ranks(s)[i] \in 1 .. i
                               /\ \A j \in DOMAIN s : Better(s[j], s[i]) <=> j < Ranks(s)[i]
  <1> DEFINE n == Len(s)
             Place(i) == /\ Ranks(s)[i] \in 1 .. i
                         /\ \A j \in DOMAIN s : Better(s[j], s[i]) <=> j < Ranks(s)[i]
             T == {i \in 0 .. n : i = 0 \/ Place(i)}
  <1>1. n \in Nat /\ DOMAIN s = 1 .. n OBVIOUS
  <1>2. \A i \in DOMAIN s : s[i] \in Standing OBVIOUS
  <1>3. \A i \in DOMAIN s : Ranks(s)[i] =
            IF i > 1 /\ Tied(s[i], s[i - 1]) THEN Ranks(s)[i - 1] ELSE i
    BY RanksAreDefined
  <1> HIDE DEF n
  <1>4. T \in SUBSET (0 .. n) /\ 0 \in T BY <1>1
  <1>5. ASSUME NEW i \in 1 .. n, i - 1 \in T PROVE i \in T
    <2>1. i \in Nat /\ i \in DOMAIN s /\ i \in 0 .. n BY <1>1
    <2>2. i > 1 => i - 1 \in DOMAIN s /\ i - 1 # 0 BY <1>1, <2>1
    <2>3. i > 1 => Place(i - 1) BY <1>5, <2>2
    <2>4. CASE i > 1 /\ Tied(s[i], s[i - 1])
      <3>1. Ranks(s)[i] = Ranks(s)[i - 1] BY <1>3, <2>1, <2>4
      <3>2. ASSUME NEW j \in DOMAIN s
            PROVE  Better(s[j], s[i]) <=> Better(s[j], s[i - 1])
        <4>1. s[i] \in Standing /\ s[i - 1] \in Standing /\ s[j] \in Standing
          BY <1>2, <2>1, <2>2, <2>4
        <4> QED BY <2>4, <4>1, BetterIsOrder DEF Tied
      <3>3. Ranks(s)[i - 1] \in 1 .. (i - 1) BY <2>3, <2>4
      <3>4. Ranks(s)[i] \in 1 .. i BY <2>1, <3>1, <3>3
      <3>5. Place(i) BY <2>3, <2>4, <3>1, <3>2, <3>4
      <3> HIDE DEF Place
      <3> QED BY <2>1, <3>5
    <2>5. CASE ~(i > 1 /\ Tied(s[i], s[i - 1]))
      <3>1. Ranks(s)[i] = i BY <1>3, <2>1, <2>5
      <3>2. ASSUME NEW j \in DOMAIN s PROVE Better(s[j], s[i]) <=> j < i
        <4>1. j \in Nat /\ s[i] \in Standing /\ s[j] \in Standing BY <1>1, <1>2, <2>1
        <4>2. CASE j < i
          <5>1. i > 1 /\ i - 1 \in DOMAIN s /\ i - 1 < i /\ s[i - 1] \in Standing
            BY <1>1, <1>2, <2>1, <4>1, <4>2
          <5>2. ~Better(s[i], s[i - 1]) BY <2>1, <5>1 DEF Ordered
          <5>3. Better(s[i - 1], s[i]) BY <2>5, <5>1, <5>2 DEF Tied
          <5>4. j = i - 1 \/ j < i - 1 BY <2>1, <4>1, <4>2
          <5>5. j < i - 1 => ~Better(s[i - 1], s[j]) BY <5>1 DEF Ordered
          <5>6. Better(s[j], s[i])
            BY <4>1, <5>1, <5>3, <5>4, <5>5, BetterIsOrder
          <5> QED BY <4>2, <5>6
        <4>3. CASE ~(j < i)
          <5>1. j = i \/ i < j BY <2>1, <4>1, <4>3
          <5>2. ~Better(s[j], s[i]) BY <2>1, <4>1, <5>1, BetterIsOrder DEF Ordered
          <5> QED BY <4>3, <5>2
        <4> QED BY <4>2, <4>3
      <3>3. Place(i) BY <2>1, <3>1, <3>2
      <3> HIDE DEF Place
      <3> QED BY <2>1, <3>3
    <2> QED BY <2>4, <2>5
  <1> HIDE DEF T, Place
  <1>6. T = 0 .. n BY <1>1, <1>4, <1>5, Induction
  <1>7. \A i \in DOMAIN s : Place(i) BY <1>1, <1>6 DEF T
  <1> QED BY <1>7 DEF Place

-----------------------------------------------------------------------------
(* The standings are drawn up.                                             *)

\* The standings of sorted rows, as they are handed out.
Listing(s) == [i \in DOMAIN s |-> [rank |-> Ranks(s)[i], row |-> s[i]]]

LEMMA ListingType ==
    ASSUME NEW s \in Seq(Standing)
    PROVE  Listing(s) \in Seq([rank : Nat, row : Standing])
  <1> DEFINE n == Len(s)
  <1>1. n \in Nat /\ DOMAIN s = 1 .. n OBVIOUS
  <1>2. \A i \in DOMAIN s : Ranks(s)[i] \in Nat /\ s[i] \in Standing BY RanksAreDefined
  <1> HIDE DEF n
  <1>3. Listing(s) \in [1 .. n -> [rank : Nat, row : Standing]] BY <1>1, <1>2 DEF Listing
  <1> QED BY <1>1, <1>3, IsList

LEMMA ListingIsFixed ==
    ASSUME NEW s \in Seq(Standing), Ordered(s), NEW i \in DOMAIN s
    PROVE  /\ Ranks(s)[i] = 1 + Cardinality({j \in DOMAIN s : Better(s[j], s[i])})
           /\ \A j \in DOMAIN s : i < j /\ Ranks(s)[i] = Ranks(s)[j] =>
                  Ahead(s[i], s[j])
  <1> DEFINE n == Len(s)
             r == Ranks(s)[i]
  <1>1. n \in Nat /\ DOMAIN s = 1 .. n OBVIOUS
  <1>2. r \in 1 .. i /\ \A j \in DOMAIN s : Better(s[j], s[i]) <=> j < r BY RankIsPlace
  <1> HIDE DEF n, r
  <1>3. r \in Nat /\ r >= 1 /\ i \in Nat /\ i <= n /\ r <= n BY <1>1, <1>2
  <1>4. {j \in DOMAIN s : Better(s[j], s[i])} = 1 .. (r - 1) BY <1>1, <1>2, <1>3
  <1>5. Cardinality(1 .. (r - 1)) = r - 1 BY <1>3, FS_Interval
  <1>6. r = 1 + Cardinality({j \in DOMAIN s : Better(s[j], s[i])})
    <2>1. Cardinality({j \in DOMAIN s : Better(s[j], s[i])}) = Cardinality(1 .. (r - 1))
      BY <1>4
    <2>2. r = 1 + Cardinality(1 .. (r - 1)) BY <1>3, <1>5
    <2> QED BY <2>1, <2>2
  <1>7. ASSUME NEW j \in DOMAIN s, i < j, Ranks(s)[i] = Ranks(s)[j]
        PROVE  Ahead(s[i], s[j])
    <2>1. Better(s[i], s[j]) <=> i < Ranks(s)[j] BY RankIsPlace
    <2>2. ~(i < r) BY <1>2, <1>3
    <2>3. ~Better(s[i], s[j]) BY <1>7, <2>1, <2>2 DEF r
    <2> QED BY <1>7, <2>3 DEF Ordered, Tied
  <1> QED BY <1>6, <1>7 DEF r

\* Where a problem of a handle counts: the handle by itself is the first of merge 0.
Credits(h) == IF MergePlaces(h) = {} THEN {<<0, 1>>} ELSE MergePlaces(h)

LEMMA CreditFacts ==
    ASSUME JudgeInv
    PROVE  /\ \A h, x : x \in MergePlaces(h) <=>
                  \E m \in DOMAIN merges : \E i \in DOMAIN merges[m] :
                      x = <<m, i>> /\ merges[m][i] = h
           /\ \A h : h \in Merged <=> MergePlaces(h) # {}
           /\ \A h : IsFiniteSet(MergePlaces(h))
           /\ IsFiniteSet(SolvedProblems)
  <1>1. \A h, x : x \in MergePlaces(h) <=>
            \E m \in DOMAIN merges : \E i \in DOMAIN merges[m] :
                x = <<m, i>> /\ merges[m][i] = h
    BY DEF MergePlaces
  <1>2. \A h : h \in Merged <=> MergePlaces(h) # {}
    <2>1. \A h : h \in Merged <=> \E m \in DOMAIN merges : \E i \in DOMAIN merges[m] :
                                      merges[m][i] = h
      BY DEF Merged, Range
    <2> QED BY <1>1, <2>1
  <1>3. ASSUME NEW h PROVE IsFiniteSet(MergePlaces(h))
    <2> DEFINE row == [m \in DOMAIN merges |-> {m} \X DOMAIN merges[m]]
    <2>1. IsFiniteSet(DOMAIN merges) BY RequestFacts, FS_Interval
    <2>2. IsFiniteSet({row[m] : m \in DOMAIN merges})
      <3> HIDE DEF row
      <3> QED BY <2>1, FewValues
    <2>3. ASSUME NEW m \in DOMAIN merges PROVE IsFiniteSet(row[m])
      <3>1. merges[m] \in Seq(Handles) BY RequestFacts
      <3>2. DOMAIN merges[m] = 1 .. Len(merges[m]) /\ Len(merges[m]) \in Nat BY <3>1
      <3>3. IsFiniteSet(DOMAIN merges[m]) BY <3>2, FS_Interval
      <3>4. IsFiniteSet({m}) BY FS_Singleton
      <3> QED BY <3>3, <3>4, FS_Product
    <2>4. IsFiniteSet(UNION {row[m] : m \in DOMAIN merges})
      <3> HIDE DEF row
      <3>1. \A T \in {row[m] : m \in DOMAIN merges} : IsFiniteSet(T) BY <2>3
      <3> QED BY <2>2, <3>1, FS_UNION
    <2>5. MergePlaces(h) \subseteq UNION {row[m] : m \in DOMAIN merges} BY <1>1
    <2> QED BY <2>4, <2>5, FS_Subset
  <1>4. IsFiniteSet(SolvedProblems)
    <2>1. IsFiniteSet(Contests) BY InputAssumption, FS_Interval DEF Contests
    <2>2. IsFiniteSet(Handles \X Problems) BY InputAssumption, FS_Product
    <2>3. IsFiniteSet(Contests \X (Handles \X Problems)) BY <2>1, <2>2, FS_Product
    <2> DEFINE f == [x \in Contests \X (Handles \X Problems) |-> <<x[1], x[2][1], x[2][2]>>]
               S == Contests \X (Handles \X Problems)
    <2>4. SolvedProblems \subseteq {f[x] : x \in S}
      <3> SUFFICES ASSUME NEW chp \in SolvedProblems PROVE \E x \in S : chp = f[x] OBVIOUS
      <3>1. PICK c \in Contests, h \in Handles, p \in Problems : chp = <<c, h, p>>
        BY DEF SolvedProblems
      <3>2. <<c, <<h, p>>>> \in S /\ f[<<c, <<h, p>>>>] = <<c, h, p>> OBVIOUS
      <3> QED BY <3>1, <3>2
    <2>5. IsFiniteSet({f[x] : x \in S})
      <3> HIDE DEF f
      <3> QED BY <2>3, FewValues
    <2> QED BY <2>4, <2>5, FS_Subset
  <1> QED BY <1>1, <1>2, <1>3, <1>4

\* A problem with each of its places.
Counted == UNION {{<<chp, x>> : x \in Credits(chp[2])} : chp \in SolvedProblems}

LEMMA CountedAsMerged ==
    ASSUME JudgeInv
    PROVE  SumFunction([chp \in SolvedProblems |->
               IF MergePlaces(chp[2]) = {} THEN 1 ELSE Cardinality(MergePlaces(chp[2]))])
           = Cardinality(Counted)
  <1> DEFINE f == [chp \in SolvedProblems |->
               IF MergePlaces(chp[2]) = {} THEN 1 ELSE Cardinality(MergePlaces(chp[2]))]
             W == [chp \in SolvedProblems |-> {<<chp, x>> : x \in Credits(chp[2])}]
  <1>1. ASSUME NEW chp \in SolvedProblems PROVE IsFiniteSet(W[chp]) /\ f[chp] = Cardinality(W[chp])
    <2>1. /\ IsFiniteSet(Credits(chp[2]))
          /\ f[chp] = Cardinality(Credits(chp[2]))
      <3>1. f[chp] = IF MergePlaces(chp[2]) = {} THEN 1 ELSE Cardinality(MergePlaces(chp[2]))
        OBVIOUS
      <3> HIDE DEF f
      <3>2. IsFiniteSet({<<0, 1>>}) /\ Cardinality({<<0, 1>>}) = 1 BY FS_Singleton
      <3>3. IsFiniteSet(MergePlaces(chp[2])) BY CreditFacts
      <3>4. CASE MergePlaces(chp[2]) = {} BY <3>1, <3>2, <3>4 DEF Credits
      <3>5. CASE MergePlaces(chp[2]) # {} BY <3>1, <3>3, <3>5 DEF Credits
      <3> QED BY <3>4, <3>5
    <2>2. W[chp] = {<<chp, x>> : x \in Credits(chp[2])} OBVIOUS
    <2> DEFINE A == Credits(chp[2])
    <2> HIDE DEF f, W, A
    <2>3. IsFiniteSet(A) /\ f[chp] = Cardinality(A) /\ W[chp] = At(chp, A)
      BY <2>1, <2>2 DEF A, At
    <2>4. IsFiniteSet(At(chp, A)) /\ Cardinality(At(chp, A)) = Cardinality(A)
      BY <2>3, Places
    <2> QED BY <2>3, <2>4
  <1>2. ASSUME NEW chp \in SolvedProblems, NEW other \in SolvedProblems, chp # other
        PROVE  W[chp] \cap W[other] = {}
    BY <1>2
  <1>3. UNION {W[chp] : chp \in SolvedProblems} = Counted BY DEF Counted
  <1>4. DOMAIN f = SolvedProblems OBVIOUS
  <1> HIDE DEF f, W
  <1>5. Apart(W, SolvedProblems) BY <1>1, <1>2 DEF Apart
  <1>6. SumFunctionOnSet(f, SolvedProblems) = Cardinality(UNION {W[chp] : chp \in SolvedProblems})
    <2>1. IsFiniteSet(SolvedProblems) BY CreditFacts
    <2>2. \A chp \in SolvedProblems : f[chp] = Cardinality(W[chp]) BY <1>1
    <2> QED BY <1>5, <2>1, <2>2, SumOfSizes
  <1>7. SumFunction(f) = Cardinality(Counted) BY <1>3, <1>4, <1>6 DEF SumFunction
  <1> QED BY <1>7 DEF f

\* The rows have just these to count, each in one row.
LEMMA RowsCount ==
    ASSUME JudgeInv, NEW s \in Sorted(Rows)
    PROVE  SumFunction([i \in DOMAIN s |-> s[i].solved + s[i].upsolved]) = Cardinality(Counted)
  <1> DEFINE D == DOMAIN s
             f == [i \in D |-> s[i].solved + s[i].upsolved]
             W == [i \in D |-> SolvedOf(<<s[i].handle, s[i].merge>>)]
  <1>1. /\ s \in Seq(Standing)
        /\ \A i \in D : \E k \in RowKeys : s[i] = RowOf(k)
        /\ \A i, j \in D : i # j => s[i] # s[j]
        /\ \A k \in RowKeys : \E i \in D : s[i] = RowOf(k)
    BY SortedFacts
  <1>2. /\ \A k \in RowKeys : IsKey(k)
        /\ \A k, l \in RowKeys : k # l /\ k[2] = l[2] =>
               \E g, h \in Handles : k[1] = <<g>> /\ l[1] = <<h>> /\ g # h
    BY RowKeyFacts
  <1>3. \A k \in RowKeys : /\ <<RowOf(k).handle, RowOf(k).merge>> = k /\ IsFiniteSet(SolvedOf(k))
                           /\ RowOf(k).solved + RowOf(k).upsolved = Cardinality(SolvedOf(k))
    BY <1>2, RowFacts DEF IsKey
  <1>4. IsFiniteSet(D)
    <2>1. D = 1 .. Len(s) /\ Len(s) \in Nat BY <1>1
    <2> QED BY <2>1, FS_Interval
  <1>5. \A i \in D : /\ f[i] = s[i].solved + s[i].upsolved
                     /\ W[i] = SolvedOf(<<s[i].handle, s[i].merge>>)
    OBVIOUS
  <1>6. DOMAIN f = D OBVIOUS
  <1> HIDE DEF D, f, W
  <1>7. ASSUME NEW i \in D PROVE IsFiniteSet(W[i]) /\ f[i] = Cardinality(W[i])
    <2>1. PICK k \in RowKeys : s[i] = RowOf(k) BY <1>1
    <2> QED BY <1>3, <1>5, <2>1
  <1>8. ASSUME NEW i \in D, NEW j \in D, i # j PROVE W[i] \cap W[j] = {}
    <2>1. PICK k \in RowKeys : s[i] = RowOf(k) BY <1>1
    <2>2. PICK l \in RowKeys : s[j] = RowOf(l) BY <1>1
    <2>3. k # l BY <1>1, <1>8, <2>1, <2>2
    <2>4. W[i] = SolvedOf(k) /\ W[j] = SolvedOf(l) BY <1>3, <1>5, <2>1, <2>2
    <2>5. CASE k[2] # l[2] BY <2>4, <2>5 DEF SolvedOf
    <2>6. CASE k[2] = l[2]
      <3>1. PICK g \in Handles, h \in Handles : k[1] = <<g>> /\ l[1] = <<h>> /\ g # h
        BY <1>2, <2>3, <2>6
      <3>2. ASSUME NEW w \in W[i] PROVE w[1][2] = g
        <4>1. w[2][2] \in DOMAIN k[1] /\ k[1][w[2][2]] = w[1][2] BY <2>4 DEF SolvedOf
        <4>2. DOMAIN k[1] = {1} /\ k[1][1] = g
          <5>1. DOMAIN <<g>> = {1} /\ <<g>>[1] = g OBVIOUS
          <5> QED BY <3>1, <5>1
        <4> QED BY <4>1, <4>2
      <3>3. ASSUME NEW w \in W[j] PROVE w[1][2] = h
        <4>1. w[2][2] \in DOMAIN l[1] /\ l[1][w[2][2]] = w[1][2] BY <2>4 DEF SolvedOf
        <4>2. DOMAIN l[1] = {1} /\ l[1][1] = h
          <5>1. DOMAIN <<h>> = {1} /\ <<h>>[1] = h OBVIOUS
          <5> QED BY <3>1, <5>1
        <4> QED BY <4>1, <4>2
      <3> QED BY <3>1, <3>2, <3>3
    <2> QED BY <2>5, <2>6
  <1>9. UNION {W[i] : i \in D} = Counted
    <2>1. ASSUME NEW k \in RowKeys, NEW w \in SolvedOf(k) PROVE w \in Counted
      <3>1. PICK chp \in SolvedProblems, i \in DOMAIN k[1] :
                w = <<chp, <<k[2], i>>>> /\ k[1][i] = chp[2]
        BY DEF SolvedOf
      <3>2. CASE \E m \in DOMAIN merges : k = <<merges[m], m>>
        <4>1. <<k[2], i>> \in MergePlaces(chp[2]) BY <3>1, <3>2, CreditFacts
        <4>2. <<k[2], i>> \in Credits(chp[2]) BY <4>1 DEF Credits
        <4> QED BY <3>1, <4>2 DEF Counted
      <3>3. CASE \E h \in Unmerged : k = <<<<h>>, 0>>
        <4>1. PICK h \in Unmerged : k = <<<<h>>, 0>> BY <3>3
        <4>2. i = 1 /\ chp[2] = h /\ k[2] = 0 BY <3>1, <4>1
        <4>3. MergePlaces(h) = {} BY RequestFacts, CreditFacts
        <4>4. <<k[2], i>> \in Credits(chp[2]) BY <4>2, <4>3 DEF Credits
        <4> QED BY <3>1, <4>4 DEF Counted
      <3> QED BY <3>2, <3>3 DEF RowKeys
    <2>2. ASSUME NEW w \in Counted PROVE \E k \in RowKeys : w \in SolvedOf(k)
      <3>0. PICK chp \in SolvedProblems : w \in {<<chp, x>> : x \in Credits(chp[2])}
        BY DEF Counted
      <3>1. PICK x \in Credits(chp[2]) : w = <<chp, x>> BY <3>0
      <3>2. CASE MergePlaces(chp[2]) = {}
        <4>1. x = <<0, 1>> BY <3>1, <3>2 DEF Credits
        <4>2. chp[1] \in Contests /\ chp[2] \in registered[chp[1]] BY DEF SolvedProblems
        <4>3. chp[2] \in Unmerged BY <3>2, <4>2, RequestFacts, CreditFacts
        <4> DEFINE k == <<<<chp[2]>>, 0>>
        <4>4. k \in RowKeys BY <4>3 DEF RowKeys
        <4>5. 1 \in DOMAIN k[1] /\ k[1][1] = chp[2] /\ k[2] = 0 OBVIOUS
        <4>6. w \in SolvedOf(k) BY <3>1, <4>1, <4>5 DEF SolvedOf
        <4> QED BY <4>4, <4>6
      <3>3. CASE MergePlaces(chp[2]) # {}
        <4>1. PICK m \in DOMAIN merges : \E i \in DOMAIN merges[m] :
                  x = <<m, i>> /\ merges[m][i] = chp[2]
          BY <3>1, <3>3, CreditFacts DEF Credits
        <4>2. PICK i \in DOMAIN merges[m] : x = <<m, i>> /\ merges[m][i] = chp[2] BY <4>1
        <4> DEFINE k == <<merges[m], m>>
        <4>3. k \in RowKeys BY DEF RowKeys
        <4>4. w \in SolvedOf(k) BY <3>1, <4>2 DEF SolvedOf
        <4> QED BY <4>3, <4>4
      <3> QED BY <3>2, <3>3
    <2>3. ASSUME NEW i \in D PROVE W[i] \subseteq Counted
      <3>1. PICK k \in RowKeys : s[i] = RowOf(k) BY <1>1
      <3>2. W[i] = SolvedOf(k) BY <1>3, <1>5, <3>1
      <3> QED BY <2>1, <3>2
    <2>4. ASSUME NEW w \in Counted PROVE \E i \in D : w \in W[i]
      <3>1. PICK k \in RowKeys : w \in SolvedOf(k) BY <2>2
      <3>2. PICK i \in D : s[i] = RowOf(k) BY <1>1
      <3>3. W[i] = SolvedOf(k) BY <1>3, <1>5, <3>2
      <3> QED BY <3>1, <3>3
    <2> QED BY <2>3, <2>4
  <1>10. Apart(W, D) BY <1>7, <1>8 DEF Apart
  <1>11. \A i \in D : f[i] = Cardinality(W[i]) BY <1>7
  <1>12. SumFunctionOnSet(f, D) = Cardinality(UNION {W[i] : i \in D})
    BY <1>4, <1>10, <1>11, SumOfSizes
  <1>13. SumFunction(f) = Cardinality(Counted) BY <1>6, <1>9, <1>12 DEF SumFunction
  <1> QED BY <1>13 DEF f, D

\* With nothing on a page there is nothing to be said of the pages.
LEMMA NothingPrinted ==
    pages = <<>> /\ page = NoPage /\ pdf # "done" => Printed = 0 /\ PdfInv
  <1> SUFFICES ASSUME pages = <<>>, page = NoPage, pdf # "done" PROVE Printed = 0 /\ PdfInv
    OBVIOUS
  <1>1. Printed = 0 BY DEF Printed
  <1>2. PageIsOpen BY DEF PageIsOpen
  <1>3. PagesHoldRankings BY DEF PagesHoldRankings
  <1>4. PagesGoOn BY <1>1 DEF PagesGoOn
  <1> QED BY <1>1, <1>2, <1>3, <1>4 DEF PdfInv

LEMMA RankInv == ASSUME RankerInv, Rank PROVE RankerInv'
  <1>1. JudgeInv /\ TypeOK /\ InSteps BY DEF RankerInv, JudgeInv
  <1>2. PICK s \in Sorted(Rows) : rankings' = Listing(s) BY DEF Rank, Listing
  <1>3. /\ UNCHANGED judging /\ UNCHANGED printing
        /\ pdf = "none" /\ pages = <<>> /\ page = NoPage
    BY <1>1 DEF Rank, InSteps
  <1>4. s \in Seq(Standing) /\ Ordered(s) BY <1>1, SortedFacts
  <1>5. rankings' \in Seq([rank : Nat, row : Standing]) BY <1>2, <1>4, ListingType
  <1>6. TypeOK' BY <1>1, <1>3, <1>5 DEF TypeOK, judging, printing
  <1>7. JudgeInv' BY <1>1, <1>3, <1>6, StutterInv
  <1>8. InSteps'
    <2>1. \A c \in Contests : Complete(c)' BY <1>3 DEF Rank, Complete, judging
    <2> QED BY <1>3, <2>1 DEF InSteps, printing
  <1>9. /\ DOMAIN rankings' = DOMAIN s
        /\ \A i \in DOMAIN s : rankings'[i].rank = Ranks(s)[i] /\ rankings'[i].row = s[i]
    BY <1>2 DEF Listing
  <1>10. StandingsAreFixed'
    <2> SUFFICES ASSUME NEW i \in DOMAIN s
                 PROVE  /\ rankings'[i].rank = 1 + Cardinality(
                               {j \in DOMAIN s : Better(rankings'[j].row, rankings'[i].row)})
                        /\ \A j \in DOMAIN s :
                               (i < j /\ rankings'[i].rank = rankings'[j].rank) =>
                                   Ahead(rankings'[i].row, rankings'[j].row)
      BY <1>9 DEF StandingsAreFixed, Ahead
    <2>1. {j \in DOMAIN s : Better(rankings'[j].row, rankings'[i].row)}
            = {j \in DOMAIN s : Better(s[j], s[i])}
      BY <1>9
    <2>2. Ranks(s)[i] = 1 + Cardinality({j \in DOMAIN s : Better(s[j], s[i])})
      BY <1>4, ListingIsFixed
    <2>3. \A j \in DOMAIN s : i < j /\ Ranks(s)[i] = Ranks(s)[j] => Ahead(s[i], s[j])
      BY <1>4, ListingIsFixed
    <2> QED BY <1>9, <2>1, <2>2, <2>3
  <1>11. ProblemsCountAsMerged'
    <2>1. [i \in DOMAIN rankings' |-> rankings'[i].row.solved + rankings'[i].row.upsolved]
            = [i \in DOMAIN s |-> s[i].solved + s[i].upsolved]
      BY <1>9
    <2>2. SolvedProblems' = SolvedProblems /\ \A h : MergePlaces(h)' = MergePlaces(h)
      BY <1>3 DEF SolvedProblems, MergePlaces, On, judging
    <2>3. SumFunction([i \in DOMAIN rankings' |->
                          rankings'[i].row.solved + rankings'[i].row.upsolved])
            = SumFunction([chp \in SolvedProblems |->
                  IF MergePlaces(chp[2]) = {} THEN 1 ELSE Cardinality(MergePlaces(chp[2]))])
      BY <1>1, <2>1, RowsCount, CountedAsMerged
    <2> QED BY <2>2, <2>3 DEF ProblemsCountAsMerged
  <1>12. PdfInv'
    <2>1. (pages = <<>> /\ page = NoPage /\ pdf # "done")' BY <1>3 DEF printing
    <2> QED BY <2>1, NothingPrinted, PTL
  <1> QED BY <1>7, <1>8, <1>10, <1>11, <1>12 DEF RankerInv

-----------------------------------------------------------------------------
(* The pages are printed.                                                  *)

LEMMA OneMore == ASSUME NEW d \in Nat, NEW h \in Nat PROVE (d + 1) * h = d * h + h
  OBVIOUS

LEMMA AtLeast == ASSUME NEW d \in Nat, d >= 1, NEW h \in Nat, h >= 1 PROVE d * h >= 1
  <1>1. PICK e \in Nat : d = e + 1
    <2>1. d - 1 \in Nat /\ d = (d - 1) + 1 OBVIOUS
    <2> QED BY <2>1
  <1>2. d * h = e * h + h /\ e * h \in Nat BY <1>1
  <1> QED BY <1>2

LEMMA PdfFacts ==
    ASSUME TypeOK
    PROVE  /\ Len(rankings) \in Nat /\ DOMAIN rankings = 1 .. Len(rankings)
           /\ Len(pages) \in Nat /\ DOMAIN pages = 1 .. Len(pages)
           /\ \A n \in DOMAIN pages : pages[n].first \in Nat /\ pages[n].last \in Nat
           /\ Printed \in Nat
           /\ pages = <<>> => Printed = 0 /\ Len(pages) = 0
           /\ pages # <<>> => Len(pages) \in DOMAIN pages /\ Printed = pages[Len(pages)].last
           /\ Height \in Nat /\ Height >= 1 /\ \A n : Capacity(n) \in Nat
           /\ page # NoPage => page.last \in Nat /\ page.lines \in Nat
  <1>1. pages \in Seq([first : Nat, last : Nat]) /\ rankings \in Seq([rank : Nat, row : Standing])
    BY DEF TypeOK
  <1>2. /\ Len(rankings) \in Nat /\ DOMAIN rankings = 1 .. Len(rankings)
        /\ Len(pages) \in Nat /\ DOMAIN pages = 1 .. Len(pages)
    BY <1>1
  <1>3. \A n \in DOMAIN pages : pages[n].first \in Nat /\ pages[n].last \in Nat
    <2> TAKE n \in DOMAIN pages
    <2>1. n \in 1 .. Len(pages) BY <1>2
    <2>2. pages[n] \in [first : Nat, last : Nat] BY <1>1, <2>1, AtIndex
    <2> QED BY <2>2
  <1>4. pages = <<>> => Printed = 0 /\ Len(pages) = 0 BY DEF Printed
  <1>5. pages # <<>> => Len(pages) \in DOMAIN pages /\ Printed = pages[Len(pages)].last
    <2>1. pages # <<>> => Len(pages) # 0 BY <1>1
    <2> QED BY <1>2, <2>1 DEF Printed
  <1>6. Printed \in Nat BY <1>3, <1>4, <1>5
  <1>7. Height \in Nat /\ Height >= 1 /\ \A n : Capacity(n) \in Nat
    BY InputAssumption DEF Height, Capacity
  <1>8. page # NoPage => page.last \in Nat /\ page.lines \in Nat BY DEF TypeOK
  <1> QED BY <1>2, <1>3, <1>4, <1>5, <1>6, <1>7, <1>8

\* The rows of a page fill as many lines as were counted, if none is merged.
LEMMA LinesAreCounted ==
    ASSUME TypeOK, NEW first \in Nat, NEW last \in Nat, 1 <= first, first <= last,
           last <= Len(rankings),
           \A i \in first .. last : ~(Len(rankings[i].row.handle) > 1)
    PROVE  SumFunction([i \in first .. last |-> Shown(i)]) = (last - first + 1) * Height
  <1> DEFINE shown == [i \in first .. last |-> Shown(i)]
             m == Cardinality(first .. last)
  <1>1. Len(rankings) \in Nat BY PdfFacts
  <1>2. Height \in Nat /\ Height >= 1 BY PdfFacts
  <1>3. IsFiniteSet(first .. last) /\ m = last - first + 1 BY FS_Interval
  <1>4. ASSUME NEW i \in first .. last PROVE Shown(i) = Height
    <2>1. i \in 1 .. Len(rankings) BY <1>1
    <2>2. rankings[i].row \in Standing
      <3>1. rankings \in Seq([rank : Nat, row : Standing]) BY DEF TypeOK
      <3>2. rankings[i] \in [rank : Nat, row : Standing] BY <2>1, <3>1, AtIndex
      <3> QED BY <3>2
    <2>3. rankings[i].row.handle \in Seq(Handles)
      <3>1. rankings[i].row.handle \in Texts BY <2>2 DEF Standing
      <3> QED BY <3>1, TextsAreLists
    <2> DEFINE l == rankings[i].row.handle
    <2>4. l \in Seq(Handles) /\ ~(Len(l) > 1) BY <2>3
    <2>5. Shown(i) = Height - 1 + (IF l = <<>> THEN 1 ELSE Len(l)) BY DEF Shown
    <2> HIDE DEF l
    <2>6. l # <<>> => Len(l) = 1
      <3> DEFINE k == Len(l)
      <3>1. k \in Nat /\ (k = 0 => l = <<>>) /\ ~(k > 1) BY <2>4
      <3> HIDE DEF k
      <3>2. l # <<>> => k = 1 BY <3>1
      <3> QED BY <3>2 DEF k
    <2>7. (IF l = <<>> THEN 1 ELSE Len(l)) = 1 BY <2>6
    <2>8. Shown(i) = Height - 1 + 1 BY <2>5, <2>7
    <2>9. Height - 1 + 1 = Height BY <1>2
    <2> QED BY <2>8, <2>9
  <1>5. \A i \in first .. last : shown[i] = Height BY <1>4
  <1>6. DOMAIN shown = first .. last OBVIOUS
  <1> HIDE DEF shown, m
  <1>7. SumFunction(shown) = m * Height
    BY <1>2, <1>3, <1>5, <1>6, SumOfConstant DEF SumFunction, m
  <1> QED BY <1>3, <1>7 DEF shown

\* What is said of the pages stays said while they, and the standings, stay.
LEMMA PagesStay ==
    ASSUME PagesHoldRankings, UNCHANGED <<rankings, withDetails, pages>>
    PROVE  PagesHoldRankings' /\ Printed' = Printed
  BY DEF PagesHoldRankings, Page, Shown, Height, Capacity, Printed

LEMMA PagesGoOnStays ==
    ASSUME PagesGoOn, UNCHANGED pages, pdf' # "done"
    PROVE  PagesGoOn'
  BY DEF PagesGoOn, Page, Printed

\* A page of another row, or of none: it is still as it should be.
LEMMA StartPageInv ==
    ASSUME RankerInv, StartPage
    PROVE  TypeOK' /\ PdfInv' /\ UNCHANGED <<judging, rankings, pdf>> /\ pdf = "printing"
  <1>1. TypeOK /\ PdfInv BY DEF RankerInv, JudgeInv
  <1>2. /\ UNCHANGED <<judging, rankings, pdf, withDetails, pages>> /\ pdf = "printing"
        /\ Printed < Len(rankings) /\ page' = [last |-> Printed, lines |-> 1]
    BY DEF StartPage
  <1>3. Printed \in Nat /\ Len(rankings) \in Nat /\ Height \in Nat /\ \A n : Capacity(n) \in Nat
    BY <1>1, PdfFacts
  <1>4. page' \in [last : Nat, lines : Nat] BY <1>2, <1>3
  <1>5. TypeOK' BY <1>1, <1>2, <1>4 DEF TypeOK, judging
  <1>6. PagesHoldRankings' /\ Printed' = Printed BY <1>1, <1>2, PagesStay DEF PdfInv
  <1>7. PagesGoOn' BY <1>1, <1>2, PagesGoOnStays DEF PdfInv
  <1>8. PageIsOpen'
    <2>1. page'.last = Printed /\ page'.lines = 1 BY <1>2
    <2>2. Height' = Height BY <1>2 DEF Height
    <2>3. (Printed - Printed) * Height = 0 BY <1>3
    <2> QED BY <1>2, <1>3, <1>6, <2>1, <2>2, <2>3 DEF PageIsOpen
  <1> QED BY <1>2, <1>5, <1>6, <1>7, <1>8 DEF PdfInv

LEMMA AddRowInv ==
    ASSUME RankerInv, AddRow
    PROVE  TypeOK' /\ PdfInv' /\ UNCHANGED <<judging, rankings, pdf>> /\ pdf = "printing"
  <1>1. TypeOK /\ PdfInv /\ InSteps BY DEF RankerInv, JudgeInv
  <1>2. /\ UNCHANGED <<judging, rankings, pdf, withDetails, pages>> /\ page # NoPage
        /\ page.last < Len(rankings) /\ Fits(page.lines)
        /\ page' = [last |-> page.last + 1, lines |-> page.lines + Height]
    BY DEF AddRow
  <1>3. /\ Printed \in Nat /\ Len(rankings) \in Nat /\ Height \in Nat /\ Height >= 1
        /\ page.last \in Nat /\ page.lines \in Nat /\ Capacity(Len(pages) + 1) \in Nat
    BY <1>1, <1>2, PdfFacts
  <1>4. pdf = "printing" BY <1>1, <1>2 DEF InSteps
  <1>5. page' \in [last : Nat, lines : Nat] BY <1>2, <1>3
  <1>6. TypeOK' BY <1>1, <1>2, <1>5 DEF TypeOK, judging
  <1>7. PagesHoldRankings' /\ Printed' = Printed BY <1>1, <1>2, PagesStay DEF PdfInv
  <1>8. PagesGoOn' BY <1>1, <1>2, <1>4, PagesGoOnStays DEF PdfInv
  <1>9. PageIsOpen'
    <2>1. /\ Printed <= page.last /\ page.lines = 1 + (page.last - Printed) * Height
          /\ Printed < Len(rankings)
      BY <1>1, <1>2 DEF PdfInv, PageIsOpen
    <2>2. page'.last = page.last + 1 /\ page'.lines = page.lines + Height BY <1>2
    <2>3. Height' = Height /\ Capacity(Len(pages) + 1)' = Capacity(Len(pages) + 1)
      BY <1>2 DEF Height, Capacity
    <2> DEFINE d == page.last - Printed
    <2>4. d \in Nat /\ page'.last - Printed = d + 1 BY <1>3, <2>1, <2>2
    <2>5. page.lines = 1 + d * Height BY <2>1
    <2> HIDE DEF d
    <2>6. (d + 1) * Height = d * Height + Height /\ d * Height \in Nat BY <1>3, <2>4, OneMore
    <2>7. page'.lines = 1 + (d + 1) * Height BY <1>3, <2>2, <2>5, <2>6
    <2>8. ASSUME page'.last > Printed + 1 PROVE page'.lines <= Capacity(Len(pages) + 1)
      <3>1. d >= 1 BY <1>3, <2>2, <2>4, <2>8
      <3>2. d * Height >= 1 BY <1>3, <2>4, <3>1, AtLeast
      <3>3. page.lines # 1 BY <2>5, <2>6, <3>2
      <3>4. page.lines + Height <= Capacity(Len(pages) + 1) BY <1>2, <3>3 DEF Fits
      <3> QED BY <2>2, <3>4
    <2>9. page'.last <= Len(rankings) /\ Printed <= page'.last
      <3> DEFINE printed == Printed
                 rows == Len(rankings)
                 old == page.last
      <3>1. /\ printed \in Nat /\ rows \in Nat /\ old \in Nat /\ old < rows /\ printed <= old
            /\ page'.last = old + 1
        BY <1>2, <1>3, <2>1, <2>2
      <3> HIDE DEF printed, rows, old
      <3>2. page'.last <= rows /\ printed <= page'.last BY <3>1
      <3> QED BY <3>2 DEF printed, rows
    <2> QED BY <1>2, <1>7, <2>1, <2>3, <2>4, <2>7, <2>8, <2>9 DEF PageIsOpen
  <1> QED BY <1>2, <1>4, <1>6, <1>7, <1>8, <1>9 DEF PdfInv

\* A page that ends has a row, and all of its rows have room.
LEMMA EndPageFits ==
    ASSUME RankerInv, EndPage
    PROVE  /\ Printed + 1 <= page.last /\ page.last <= Len(rankings)
           /\ \/ page.last = Printed + 1
              \/ 1 + SumFunction([i \in Printed + 1 .. page.last |-> Shown(i)])
                    <= Capacity(Len(pages) + 1)
              \/ \E i \in Printed + 1 .. page.last : Len(rankings[i].row.handle) > 1
  <1>1. TypeOK /\ PdfInv BY DEF RankerInv, JudgeInv
  <1>2. page # NoPage /\ PageEnds BY DEF EndPage
  <1>3. /\ Printed \in Nat /\ Len(rankings) \in Nat /\ Height \in Nat /\ Height >= 1
        /\ page.last \in Nat /\ page.lines \in Nat /\ Capacity(Len(pages) + 1) \in Nat
    BY <1>1, <1>2, PdfFacts
  <1>4. /\ Printed <= page.last /\ page.last <= Len(rankings)
        /\ page.lines = 1 + (page.last - Printed) * Height
        /\ page.last > Printed + 1 => page.lines <= Capacity(Len(pages) + 1)
        /\ Printed < Len(rankings)
    BY <1>1, <1>2 DEF PdfInv, PageIsOpen
  <1>5. page.last # Printed
    <2>1. SUFFICES ASSUME page.last = Printed PROVE FALSE OBVIOUS
    <2>2. (page.last - Printed) * Height = 0 BY <1>3, <2>1
    <2>3. page.lines = 1 BY <1>4, <2>2
    <2> QED BY <1>2, <1>4, <2>1, <2>3 DEF PageEnds, Fits
  <1>6. Printed + 1 <= page.last BY <1>3, <1>4, <1>5
  <1>7. ASSUME page.last # Printed + 1,
               \A i \in Printed + 1 .. page.last : ~(Len(rankings[i].row.handle) > 1)
        PROVE  1 + SumFunction([i \in Printed + 1 .. page.last |-> Shown(i)])
                    <= Capacity(Len(pages) + 1)
    <2> DEFINE first == Printed + 1
               last == page.last
               sum == SumFunction([i \in first .. last |-> Shown(i)])
    <2>1. first \in Nat /\ last \in Nat /\ 1 <= first /\ first <= last /\ last <= Len(rankings)
      BY <1>3, <1>4, <1>6
    <2>2. \A i \in first .. last : ~(Len(rankings[i].row.handle) > 1) BY <1>7
    <2>3. last - first + 1 = page.last - Printed BY <1>3
    <2>4. page.last > Printed + 1 BY <1>3, <1>6, <1>7
    <2> HIDE DEF first, last
    <2>5. sum = (last - first + 1) * Height BY <1>1, <2>1, <2>2, LinesAreCounted
    <2>6. 1 + sum = page.lines BY <1>4, <2>3, <2>5
    <2>7. 1 + sum <= Capacity(Len(pages) + 1) BY <1>4, <2>4, <2>6
    <2> QED BY <2>7 DEF first, last
  <1> QED BY <1>4, <1>6, <1>7

LEMMA EndPageInv ==
    ASSUME RankerInv, EndPage
    PROVE  TypeOK' /\ PdfInv' /\ UNCHANGED <<judging, rankings, pdf>> /\ pdf = "printing"
  <1>1. TypeOK /\ PdfInv /\ InSteps BY DEF RankerInv, JudgeInv
  <1> DEFINE first == Printed + 1
             last == page.last
             n == Len(pages)
             new == [first |-> first, last |-> last]
  <1>2. /\ UNCHANGED <<judging, rankings, pdf, withDetails>> /\ page # NoPage
        /\ page' = NoPage /\ pages' = Append(pages, new)
    BY DEF EndPage
  <1>3. /\ Printed \in Nat /\ Len(rankings) \in Nat /\ DOMAIN rankings = 1 .. Len(rankings)
        /\ last \in Nat /\ n \in Nat /\ DOMAIN pages = 1 .. n
        /\ \A k \in DOMAIN pages : pages[k].first \in Nat /\ pages[k].last \in Nat
    BY <1>1, <1>2, PdfFacts
  <1>4. pdf = "printing" BY <1>1, <1>2 DEF InSteps
  <1>5. first \in Nat /\ first <= last /\ last <= Len(rankings) /\ 1 <= first
    BY <1>3, EndPageFits
  <1>6. \/ first = last
        \/ 1 + SumFunction([i \in first .. last |-> Shown(i)]) <= Capacity(n + 1)
        \/ \E i \in first .. last : Len(rankings[i].row.handle) > 1
    BY EndPageFits
  <1>7. new \in [first : Nat, last : Nat] /\ new.first = first /\ new.last = last
    BY <1>3, <1>5
  <1> HIDE DEF first, last, n, new
  <1>8. pages' \in Seq([first : Nat, last : Nat]) BY <1>1, <1>2, <1>7 DEF TypeOK
  <1>9. /\ Len(pages') = n + 1 /\ DOMAIN pages' = 1 .. (n + 1) /\ pages'[n + 1] = new
        /\ \A k \in 1 .. n : pages'[k] = pages[k]
    BY <1>1, <1>2 DEF TypeOK, n
  <1>10. TypeOK' BY <1>1, <1>2, <1>8 DEF TypeOK, judging
  <1>11. Printed' = last
    <2>1. pages' # <<>> BY <1>3, <1>9
    <2> QED BY <1>7, <1>9, <2>1 DEF Printed
  <1>12. PageIsOpen' BY <1>2 DEF PageIsOpen
  <1>13. PagesGoOn'
    <2>1. /\ \A i \in 1 .. Printed : \E k \in DOMAIN pages : i \in Page(k)
          /\ \A k \in DOMAIN pages : pages[k].last <= Printed
          /\ \A m, k \in DOMAIN pages : m < k => pages[m].last < pages[k].first
      BY <1>1 DEF PdfInv, PagesGoOn
    <2>2. ASSUME NEW i \in 1 .. last
          PROVE  \E k \in 1 .. (n + 1) : i \in pages'[k].first .. pages'[k].last
      <3>1. CASE i <= Printed
        <4>1. i \in 1 .. Printed BY <1>3, <3>1
        <4>2. PICK k \in 1 .. n : i \in Page(k) BY <1>3, <2>1, <4>1
        <4>3. pages'[k] = pages[k] /\ k \in 1 .. (n + 1) BY <1>3, <1>9
        <4> QED BY <4>2, <4>3 DEF Page
      <3>2. CASE ~(i <= Printed)
        <4>1. i \in first .. last BY <1>3, <3>2 DEF first
        <4>2. n + 1 \in 1 .. (n + 1) BY <1>3
        <4> QED BY <1>7, <1>9, <4>1, <4>2
      <3> QED BY <3>1, <3>2
    <2>3. \A k \in 1 .. (n + 1) : k \in 1 .. n \/ k = n + 1 BY <1>3
    <2>4. Printed < first /\ Printed <= last BY <1>3, <1>5 DEF first
    <2>5. \A k \in 1 .. (n + 1) : pages'[k].last <= last
      BY <1>3, <1>7, <1>9, <2>1, <2>3, <2>4
    <2>6. ASSUME NEW m \in 1 .. (n + 1), NEW k \in 1 .. (n + 1), m < k
          PROVE  pages'[m].last < pages'[k].first
      <3>1. m \in 1 .. n BY <1>3, <2>6
      <3>2. pages'[m] = pages[m] /\ pages[m].last \in Nat /\ pages[m].last <= Printed
        BY <1>3, <1>9, <2>1, <3>1
      <3>3. CASE k \in 1 .. n BY <1>3, <1>9, <2>1, <2>6, <3>1, <3>3
      <3>4. CASE k = n + 1
        <4>1. pages'[k].first = first BY <1>7, <1>9, <3>4
        <4> QED BY <1>3, <1>5, <2>4, <3>2, <4>1
      <3> QED BY <2>3, <3>3, <3>4
    <2>7. pdf' # "done" BY <1>2, <1>4
    <2> QED BY <1>9, <1>11, <2>2, <2>5, <2>6, <2>7 DEF PagesGoOn, Page
  <1> DEFINE Holds(pg, k) ==
                 /\ pg.first \in DOMAIN rankings /\ pg.last \in DOMAIN rankings
                 /\ pg.first <= pg.last
                 /\ \/ pg.first = pg.last
                    \/ 1 + SumFunction([i \in pg.first .. pg.last |-> Shown(i)]) <= Capacity(k)
                    \/ \E i \in pg.first .. pg.last : Len(rankings[i].row.handle) > 1
  <1>14. ASSUME NEW k \in 1 .. n PROVE Holds(pages'[k], k)
    <2>1. Holds(pages[k], k) BY <1>1, <1>3 DEF PdfInv, PagesHoldRankings, Page
    <2>2. pages'[k] = pages[k] BY <1>9
    <2> HIDE DEF Holds
    <2> QED BY <2>1, <2>2
  <1>15. Holds(new, n + 1)
    <2>1. first \in DOMAIN rankings /\ last \in DOMAIN rankings BY <1>3, <1>5
    <2> QED BY <1>5, <1>6, <1>7, <2>1
  <1>16. ASSUME NEW k \in 1 .. (n + 1) PROVE Holds(pages'[k], k)
    <2>1. k \in 1 .. n \/ k = n + 1 BY <1>3
    <2> HIDE DEF Holds
    <2> QED BY <1>9, <1>14, <1>15, <2>1
  <1>17. UNCHANGED rankings /\ UNCHANGED withDetails BY <1>2
  <1>18. \A i : Shown(i)' = Shown(i) BY <1>17 DEF Shown, Height
  <1>19. PagesHoldRankings' BY <1>9, <1>16, <1>17, <1>18 DEF PagesHoldRankings, Page, Capacity
  <1> QED BY <1>2, <1>4, <1>10, <1>12, <1>13, <1>19 DEF PdfInv

LEMMA RenderInv ==
    ASSUME RankerInv, Render
    PROVE  TypeOK' /\ PdfInv' /\ UNCHANGED <<judging, rankings>> /\ pdf' = "done"
           /\ page' = NoPage /\ rankings # <<>>
  <1>1. TypeOK /\ PdfInv /\ InSteps BY DEF RankerInv, JudgeInv
  <1>2. /\ UNCHANGED <<judging, rankings, withDetails, pages, page>> /\ pdf' = "done"
        /\ pdf = "printing" /\ page = NoPage /\ Printed >= Len(rankings)
    BY DEF Render
  <1>3. TypeOK' BY <1>1, <1>2 DEF TypeOK, judging
  <1>4. PagesHoldRankings' /\ Printed' = Printed BY <1>1, <1>2, PagesStay DEF PdfInv
  <1>5. PageIsOpen' BY <1>2 DEF PageIsOpen
  <1>6. Printed = Len(rankings)
    <2>1. Printed \in Nat /\ Len(rankings) \in Nat /\ DOMAIN rankings = 1 .. Len(rankings)
      BY <1>1, PdfFacts
    <2>2. pages # <<>> => Printed \in DOMAIN rankings
      BY <1>1, PdfFacts DEF PdfInv, PagesHoldRankings
    <2>3. pages = <<>> => Printed = 0 BY <1>1, PdfFacts
    <2> DEFINE printed == Printed
               rows == Len(rankings)
    <2>4. printed \in Nat /\ rows \in Nat /\ printed >= rows BY <1>2, <2>1
    <2>5. printed = 0 \/ printed \in 1 .. rows BY <2>1, <2>2, <2>3
    <2> HIDE DEF printed, rows
    <2>6. printed = rows BY <2>4, <2>5
    <2> QED BY <2>6 DEF printed, rows
  <1>7. PagesGoOn' BY <1>1, <1>2, <1>4, <1>6 DEF PdfInv, PagesGoOn, Page
  <1>8. rankings # <<>> BY <1>1, <1>2 DEF InSteps
  <1> QED BY <1>2, <1>3, <1>4, <1>5, <1>7, <1>8 DEF PdfInv

-----------------------------------------------------------------------------
(* The invariant and what follows from it.                                 *)

\* With nothing ranked there is nothing to be said of the standings.
LEMMA NothingRanked ==
    rankings = <<>> /\ pdf = "none" /\ pages = <<>> /\ page = NoPage =>
        InSteps /\ StandingsAreFixed /\ ProblemsCountAsMerged /\ PdfInv
  <1> SUFFICES ASSUME rankings = <<>>, pdf = "none", pages = <<>>, page = NoPage
               PROVE  InSteps /\ StandingsAreFixed /\ ProblemsCountAsMerged /\ PdfInv
    OBVIOUS
  <1>1. InSteps BY DEF InSteps
  <1>2. StandingsAreFixed BY DEF StandingsAreFixed
  <1>3. ProblemsCountAsMerged BY DEF ProblemsCountAsMerged
  <1>4. PdfInv BY NothingPrinted
  <1> QED BY <1>1, <1>2, <1>3, <1>4

\* What is said of the standings is said of them and of what was judged.
LEMMA StandingsKept ==
    ASSUME InSteps, StandingsAreFixed, ProblemsCountAsMerged, UNCHANGED <<judging, rankings>>
    PROVE  /\ rankings # <<>> => \A c \in Contests : Complete(c)'
           /\ StandingsAreFixed' /\ ProblemsCountAsMerged'
  <1>1. \A c \in Contests : Complete(c)' <=> Complete(c) BY DEF Complete, judging
  <1>2. StandingsAreFixed' BY DEF StandingsAreFixed
  <1>3. ProblemsCountAsMerged'
    <2>1. SolvedProblems' = SolvedProblems /\ \A h : MergePlaces(h)' = MergePlaces(h)
      BY DEF SolvedProblems, MergePlaces, On, judging
    <2> QED BY <2>1 DEF ProblemsCountAsMerged
  <1> QED BY <1>1, <1>2, <1>3 DEF InSteps

\* A step of generate_pdf keeps what was judged and ranked.
LEMMA PrintInv == ASSUME RankerInv, PrintStep PROVE RankerInv'
  <1>1. JudgeInv /\ InSteps /\ StandingsAreFixed /\ ProblemsCountAsMerged
    BY DEF RankerInv
  <1>2. /\ TypeOK' /\ PdfInv' /\ UNCHANGED <<judging, rankings>> /\ rankings # <<>>
        /\ pdf' = "printing" \/ (pdf' = "done" /\ page' = NoPage)
    BY <1>1, StartPageInv, AddRowInv, EndPageInv, RenderInv DEF PrintStep, InSteps
  <1>3. JudgeInv' BY <1>1, <1>2, StutterInv
  <1>4. StandingsAreFixed' /\ ProblemsCountAsMerged' /\ InSteps'
    BY <1>1, <1>2, StandingsKept DEF InSteps
  <1> QED BY <1>2, <1>3, <1>4 DEF RankerInv

LEMMA DownloadInv ==
    ASSUME RankerInv, NEW details \in Details, Download(details)
    PROVE  RankerInv'
  <1>1. JudgeInv /\ TypeOK /\ InSteps /\ StandingsAreFixed /\ ProblemsCountAsMerged
    BY DEF RankerInv, JudgeInv
  <1>2. /\ UNCHANGED <<judging, rankings, page>> /\ rankings # <<>> /\ pdf # "printing"
        /\ pdf' = "printing" /\ pages' = <<>> /\ withDetails' \in BOOLEAN
    BY InputAssumption DEF Download
  <1>3. page' = NoPage BY <1>1, <1>2 DEF InSteps
  <1>4. TypeOK'
    <2>1. pages' \in Seq([first : Nat, last : Nat]) BY <1>2, NoList
    <2> QED BY <1>1, <1>2, <2>1 DEF TypeOK, judging
  <1>5. JudgeInv' BY <1>1, <1>2, <1>4, StutterInv
  <1>6. StandingsAreFixed' /\ ProblemsCountAsMerged' /\ InSteps'
    BY <1>1, <1>2, StandingsKept DEF InSteps
  <1>7. PdfInv'
    <2>1. (pages = <<>> /\ page = NoPage /\ pdf # "done")' BY <1>2, <1>3
    <2> QED BY <2>1, NothingPrinted, PTL
  <1> QED BY <1>5, <1>6, <1>7 DEF RankerInv

\* The invariant holds, for any contests, handles, feeds and merges.
THEOREM Invariant == Spec => []RankerInv
  <1>1. Init => RankerInv
    BY InitInv, NothingRanked DEF Init, RankerInv
  <1>2. RankerInv /\ [Next]_vars => RankerInv'
    <2> SUFFICES ASSUME RankerInv, [Next]_vars PROVE RankerInv'
      OBVIOUS
    <2>1. JudgeInv /\ TypeOK /\ InSteps /\ StandingsAreFixed /\ ProblemsCountAsMerged /\ PdfInv
      BY DEF RankerInv, JudgeInv
    <2>2. ASSUME NEW c \in Contests, Take(c) PROVE RankerInv'
      <3>1. JudgeInv' BY <2>1, <2>2, TakeInv
      <3>2. ~Complete(c) BY <2>2 DEF Take, Complete
      <3>3. rankings = <<>> /\ pdf = "none" /\ pages = <<>> /\ page = NoPage
        BY <2>1, <3>2 DEF InSteps
      <3>4. (rankings = <<>> /\ pdf = "none" /\ pages = <<>> /\ page = NoPage)'
        BY <2>2, <3>3 DEF Take, printing
      <3>5. (InSteps /\ StandingsAreFixed /\ ProblemsCountAsMerged /\ PdfInv)'
        BY <3>4, NothingRanked, PTL
      <3> QED BY <3>1, <3>5 DEF RankerInv
    <2>3. CASE Rank BY <2>3, RankInv
    <2>4. ASSUME NEW details \in Details, Download(details) PROVE RankerInv'
      BY <2>4, DownloadInv
    <2>5. CASE PrintStep BY <2>5, PrintInv
    <2>6. CASE UNCHANGED vars
      <3>1. UNCHANGED <<judging, rankings>> /\ UNCHANGED <<pdf, withDetails, pages, page>>
        BY <2>6 DEF vars, printing
      <3>2. TypeOK' BY <2>1, <3>1 DEF TypeOK, judging
      <3>3. JudgeInv' BY <2>1, <3>1, <3>2, StutterInv
      <3>4. StandingsAreFixed' /\ ProblemsCountAsMerged' /\ InSteps'
        BY <2>1, <3>1, StandingsKept DEF InSteps
      <3>5. PagesHoldRankings' /\ Printed' = Printed BY <2>1, <3>1, PagesStay DEF PdfInv
      <3>6. PagesGoOn' BY <2>1, <3>1, <3>5 DEF PdfInv, PagesGoOn, Page
      <3>7. PageIsOpen' BY <2>1, <3>1, <3>5 DEF PdfInv, PageIsOpen, Height, Capacity
      <3> QED BY <3>3, <3>4, <3>5, <3>6, <3>7 DEF RankerInv, PdfInv
    <2> QED BY <2>2, <2>3, <2>4, <2>5, <2>6 DEF Next
  <1> QED BY <1>1, <1>2, PTL DEF Spec

\* Every variable of a run of the ranker keeps its type (ranker.rs:8-15).
THEOREM TypeCorrect == Spec => []TypeOK
  <1>1. RankerInv => TypeOK BY DEF RankerInv, JudgeInv
  <1> QED BY Invariant, <1>1, PTL

\* What is kept of every problem is what the ICPC rules ask, in whatever order VJudge
\* listed the submissions: solved in time or after it, the time of the first hit, and
\* the wrong answers before it and no other (ranker.rs:67-137, docs/api.md:1377).
THEOREM AttemptsAreIcpc == Spec => []AttemptIsIcpc
  <1>1. RankerInv => AttemptIsIcpc BY DEF RankerInv, JudgeInv
  <1> QED BY Invariant, <1>1, PTL

\* The score of a handle in a contest is the one the ICPC rules give, worked out from
\* the list of submissions: problems, penalty and upsolves (ranker.rs:68-202).
THEOREM ScoresAreIcpc == Spec => []ScoreIsIcpc
  <1>1. RankerInv => ScoreIsIcpc BY ScoreInv DEF RankerInv
  <1> QED BY Invariant, <1>1, PTL

\* The rows of the standings together count each problem a registered handle solved
\* once for every time the merges list the handle, and once if none does, for any list
\* of merges: empty ones, handles in two of them and handles twice in one are not
\* refused (ranker.rs:285-437).
THEOREM ProblemsCount == Spec => []ProblemsCountAsMerged
  <1>1. RankerInv => ProblemsCountAsMerged BY DEF RankerInv
  <1> QED BY Invariant, <1>1, PTL

\* Ranks and places follow from the rows and not from the order a HashMap gave them
\* in: a rank counts the rows that are better, and ties stand by what is shown as their
\* handle, and then by the merges (ranker.rs:213-222, 439-469).
THEOREM StandingsFollowRows == Spec => []StandingsAreFixed
  <1>1. RankerInv => StandingsAreFixed BY DEF RankerInv
  <1> QED BY Invariant, <1>1, PTL

\* No page of the PDF is without a row, and none of several rows runs over but for
\* merged handles, however few lines a page has (ranker_handler.rs:216-239).
THEOREM PagesShowRankings == Spec => []PagesHoldRankings
  <1>1. RankerInv => PagesHoldRankings BY DEF RankerInv, PdfInv
  <1> QED BY Invariant, <1>1, PTL

\* A PDF that is done shows each row of the standings, to the last, on one page and on
\* no other, and in order, for any standings and pages (ranker_handler.rs:195-309).
THEOREM EveryRowIsShown == Spec => []RowsAreShownOnce
  <1>1. RankerInv => RowsAreShownOnce
    <2> SUFFICES ASSUME RankerInv, pdf = "done"
                 PROVE  /\ \A i \in DOMAIN rankings : \E n \in DOMAIN pages : i \in Page(n)
                        /\ \A m, n \in DOMAIN pages : m < n => pages[m].last < pages[n].first
      BY DEF RowsAreShownOnce
    <2>1. TypeOK /\ PagesGoOn BY DEF RankerInv, JudgeInv, PdfInv
    <2>2. DOMAIN rankings = 1 .. Printed BY <2>1, PdfFacts DEF PagesGoOn
    <2> QED BY <2>1, <2>2 DEF PagesGoOn
  <1> QED BY Invariant, <1>1, PTL

=============================================================================
