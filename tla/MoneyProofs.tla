----------------------------- MODULE MoneyProofs -----------------------------
(***************************************************************************)
(* What the rounding of Money.tla guarantees for every amount, and what a  *)
(* total over a finite set of rows is. A total is a recursive function over *)
(* the subsets of the rows: that it exists, and that no order of the rows  *)
(* makes a difference, is proved from the smallest set of rows for which   *)
(* it would not hold.                                                      *)
(***************************************************************************)
EXTENDS Money, Functions, FiniteSetTheorems, TLAPS

-----------------------------------------------------------------------------
(* Rounding.                                                               *)

\* Multiplying by a natural number keeps the order.
LEMMA ProductMonotone ==
    ASSUME NEW a \in Nat, NEW b \in Nat, NEW c \in Nat, a <= b
    PROVE  a * c <= b * c
<1>1. PICK e \in Nat : b = a + e
  BY SMT
<1>2. b * c = a * c + e * c
  BY <1>1, SMT
<1>3. e * c \in Nat
  BY SMT
<1>. QED
  BY <1>2, <1>3, SMT

\* roundHalfUpDivide returns a natural number within half a unit of the exact
\* quotient.
LEMMA RoundHalfUpDivideBounds ==
    ASSUME NEW n \in Nat, NEW d \in Nat \ {0}
    PROVE  /\ RoundHalfUpDivide(n, d) \in Nat
           /\ 2 * (d * RoundHalfUpDivide(n, d)) <= 2 * n + d
           /\ 2 * n <= 2 * (d * RoundHalfUpDivide(n, d)) + d
<1> DEFINE q == n \div d
           r == n % d
<1>1. q \in Nat /\ r \in 0..(d - 1) /\ n = d * q + r
  BY SMT
<1>2. d * (q + 1) = d * q + d
  BY <1>1, SMT
<1>3. RoundHalfUpDivide(n, d) = IF r * 2 >= d THEN q + 1 ELSE q
  BY DEF RoundHalfUpDivide
<1> HIDE DEF q, r
<1>4. CASE r * 2 >= d
  BY <1>1, <1>2, <1>3, <1>4, SMT
<1>5. CASE ~(r * 2 >= d)
  BY <1>1, <1>3, <1>5, SMT
<1>. QED
  BY <1>1, <1>4, <1>5, SMT

\* A quotient that does not exceed a whole number b does not round above b.
LEMMA RoundHalfUpDivideAtMost ==
    ASSUME NEW n \in Nat, NEW d \in Nat \ {0}, NEW b \in Nat, n <= d * b
    PROVE  RoundHalfUpDivide(n, d) <= b
<1> DEFINE q == n \div d
           r == n % d
<1>1. q \in Nat /\ r \in 0..(d - 1) /\ n = d * q + r
  BY SMT
<1>2. RoundHalfUpDivide(n, d) = IF r * 2 >= d THEN q + 1 ELSE q
  BY DEF RoundHalfUpDivide
<1> HIDE DEF q, r
<1>3. q <= b
  <2>1. SUFFICES ASSUME q >= b + 1 PROVE FALSE
    BY <1>1, SMT
  <2>2. (b + 1) * d <= q * d
    BY <1>1, <2>1, ProductMonotone
  <2>3. (b + 1) * d = d * b + d
    BY SMT
  <2>. QED
    BY <1>1, <2>2, <2>3, SMT
<1>4. q = b => r = 0
  BY <1>1, SMT
<1>. QED
  BY <1>1, <1>2, <1>3, <1>4, SMT

\* applyPercent: the commission is a natural number of cents and, at a rate of
\* at most 100%, no more than the subtotal.
LEMMA ApplyPercentBounds ==
    ASSUME NEW cents \in Nat, NEW percent \in Nat, percent <= 10000
    PROVE  /\ ApplyPercent(cents, percent) \in Nat
           /\ ApplyPercent(cents, percent) <= cents
<1>1. cents * percent \in Nat
  BY SMT
<1>2. percent * cents <= 10000 * cents
  BY ProductMonotone
<1>3. cents * percent <= 10000 * cents
  BY <1>2, SMT
<1>. QED
  BY <1>1, <1>3, RoundHalfUpDivideBounds, RoundHalfUpDivideAtMost DEF ApplyPercent

\* applyRatio: the share carried onto a part of the denominator is a natural
\* number, no more than the numerator, and no more than the part when the
\* numerator is at most the denominator.
LEMMA ApplyRatioBounds ==
    ASSUME NEW amount \in Nat, NEW numerator \in Nat, NEW denominator \in Nat,
           amount <= denominator, numerator <= denominator
    PROVE  /\ ApplyRatio(amount, numerator, denominator) \in Nat
           /\ ApplyRatio(amount, numerator, denominator) <= numerator
           /\ ApplyRatio(amount, numerator, denominator) <= amount
<1>1. CASE denominator = 0
  BY <1>1 DEF ApplyRatio
<1>2. CASE denominator # 0
  <2>1. amount * numerator \in Nat
    BY SMT
  <2>2. amount * numerator <= denominator * numerator
    BY ProductMonotone
  <2>3. amount * numerator <= denominator * amount
    <3>1. numerator * amount <= denominator * amount
      BY ProductMonotone
    <3>. QED
      BY <3>1, SMT
  <2>. QED
    BY <1>2, <2>1, <2>2, <2>3, RoundHalfUpDivideBounds, RoundHalfUpDivideAtMost
       DEF ApplyRatio
<1>. QED
  BY <1>1, <1>2

\* applyRatio is within half a cent of the exact share.
LEMMA ApplyRatioNearest ==
    ASSUME NEW amount \in Nat, NEW numerator \in Nat, NEW denominator \in Nat,
           amount <= denominator
    PROVE  LET a == ApplyRatio(amount, numerator, denominator)
           IN  /\ a \in Nat
               /\ 2 * (a * denominator - amount * numerator) <= denominator
               /\ 2 * (amount * numerator - a * denominator) <= denominator
<1> DEFINE a == ApplyRatio(amount, numerator, denominator)
           n == amount * numerator
<1>1. n \in Nat
  BY SMT
<1>2. CASE denominator = 0
  <2>1. a = 0 /\ amount = 0
    BY <1>2 DEF ApplyRatio
  <2>2. n = 0 /\ a * denominator = 0
    BY <2>1, <1>2
  <2>. QED
    BY <2>1, <2>2, <1>2
<1>3. CASE denominator # 0
  <2>1. a = RoundHalfUpDivide(n, denominator)
    BY <1>3 DEF ApplyRatio
  <2>2. /\ a \in Nat
        /\ 2 * (denominator * a) <= 2 * n + denominator
        /\ 2 * n <= 2 * (denominator * a) + denominator
    BY <1>1, <1>3, <2>1, RoundHalfUpDivideBounds
  <2> HIDE DEF a, n
  <2>3. denominator * a = a * denominator /\ a * denominator \in Nat
    BY <2>2, SMT
  <2>4. 2 * (a * denominator - n) <= denominator /\ 2 * (n - a * denominator) <= denominator
    BY <1>1, <2>2, <2>3, SMT
  <2>. QED
    BY <2>2, <2>4 DEF a, n
<1>. QED
  BY <1>2, <1>3

-----------------------------------------------------------------------------
(* Totals.                                                                 *)

\* The element that a fold over a set takes out first.
Chosen(s) == CHOOSE x \in s : TRUE

\* It is one of the elements.
LEMMA ChosenIn == ASSUME NEW s, s # {} PROVE Chosen(s) \in s
BY DEF Chosen

\* g adds f up over every subset of S.
IsSumOver(g, f, S) ==
    g = [s \in SUBSET S |-> IF s = {} THEN 0
                            ELSE f[Chosen(s)] + g[s \ {Chosen(s)}]]

\* The total over S is what any solution of that recursion says of S.
LEMMA SumIsChoice ==
    ASSUME NEW f, NEW S
    PROVE  SumFunctionOnSet(f, S) = (CHOOSE g : IsSumOver(g, f, S))[S]
BY Zenon DEF SumFunctionOnSet, FoldFunctionOnSet, MapThenFoldSet, IsSumOver, Chosen

\* The one that is chosen is a solution if there is one.
LEMMA FoldChoice ==
    ASSUME NEW f, NEW S, NEW h, IsSumOver(h, f, S)
    PROVE  IsSumOver(CHOOSE g : IsSumOver(g, f, S), f, S)
BY Zenon

\* Among the subsets of a finite set there is a smallest counterexample.
LEMMA SmallestSubset ==
    ASSUME NEW S, IsFiniteSet(S), NEW Bad, Bad \subseteq SUBSET S, Bad # {}
    PROVE  \E T \in Bad : \A U \in Bad : U \subseteq T => U = T
<1>1. FiniteSubsetsOf(S) = SUBSET S
  BY FS_FiniteSubsetsOfFinite
<1>2. IsWellFoundedOn(StrictSubsetOrdering(S), SUBSET S)
  BY <1>1, FS_StrictSubsetOrderingWellFounded
<1>3. PICK T \in Bad : \A U \in Bad : ~(<<U, T>> \in StrictSubsetOrdering(S))
  BY <1>2, WFMin, Zenon
<1>4. \A U \in Bad : U \subseteq T => U = T
  BY <1>3 DEF StrictSubsetOrdering
<1>. QED
  BY <1>4

\* Two folds of the same function agree where both are defined.
LEMMA FoldsAgree ==
    ASSUME NEW f, NEW S, NEW T, IsFiniteSet(S),
           NEW g, IsSumOver(g, f, S), NEW h, IsSumOver(h, f, T)
    PROVE  \A s \in SUBSET (S \cap T) : g[s] = h[s]
<1> DEFINE Bad == {s \in SUBSET (S \cap T) : g[s] # h[s]}
<1> SUFFICES ASSUME Bad # {} PROVE FALSE
  OBVIOUS
<1>1. Bad \subseteq SUBSET S
  OBVIOUS
<1> HIDE DEF Bad
<1>2. PICK s \in Bad : \A u \in Bad : u \subseteq s => u = s
  BY <1>1, SmallestSubset
<1> USE DEF Bad
<1>3. s \in SUBSET S /\ s \in SUBSET T /\ g[s] # h[s]
  OBVIOUS
<1>4. g[s] = IF s = {} THEN 0 ELSE f[Chosen(s)] + g[s \ {Chosen(s)}]
  BY <1>3 DEF IsSumOver
<1>5. h[s] = IF s = {} THEN 0 ELSE f[Chosen(s)] + h[s \ {Chosen(s)}]
  BY <1>3 DEF IsSumOver
<1>6. s # {} /\ Chosen(s) \in s
  BY <1>3, <1>4, <1>5, ChosenIn
<1>7. g[s \ {Chosen(s)}] # h[s \ {Chosen(s)}]
  BY <1>3, <1>4, <1>5, <1>6
<1>8. s \ {Chosen(s)} \in Bad
  BY <1>3, <1>7
<1>. QED
  BY <1>2, <1>6, <1>8

\* The recursion that defines the sum has a solution.
LEMMA FoldExists ==
    ASSUME NEW f, NEW S, IsFiniteSet(S)
    PROVE  \E g : IsSumOver(g, f, S)
<1> DEFINE Bad == {T \in SUBSET S : ~\E g : IsSumOver(g, f, T)}
<1> SUFFICES ASSUME Bad # {} PROVE FALSE
  OBVIOUS
<1>0. Bad \subseteq SUBSET S
  OBVIOUS
<1> HIDE DEF Bad
<1>1. PICK T \in Bad : \A U \in Bad : U \subseteq T => U = T
  BY <1>0, SmallestSubset
<1> USE DEF Bad
<1> DEFINE Fold(s) == CHOOSE g : IsSumOver(g, f, s)
<1>2. \A s \in SUBSET T : s # T => IsSumOver(Fold(s), f, s)
  <2> SUFFICES ASSUME NEW s \in SUBSET T, s # T PROVE IsSumOver(Fold(s), f, s)
    OBVIOUS
  <2>1. PICK g : IsSumOver(g, f, s)
    BY <1>1
  <2>. QED
    BY <2>1, Zenon
<1> DEFINE g == [s \in SUBSET T |->
                   IF s = {} THEN 0
                   ELSE f[Chosen(s)] + Fold(s \ {Chosen(s)})[s \ {Chosen(s)}]]
<1> HIDE DEF Fold
<1>3. ASSUME NEW s \in SUBSET T, s # T
      PROVE  g[s] = Fold(s)[s]
  <2>1. IsSumOver(Fold(s), f, s)
    BY <1>2, <1>3
  <2>2. Fold(s)[s] = IF s = {} THEN 0
                     ELSE f[Chosen(s)] + Fold(s)[s \ {Chosen(s)}]
    BY <2>1 DEF IsSumOver
  <2>3. CASE s = {}
    BY <2>2, <2>3
  <2>4. CASE s # {}
    <3> DEFINE u == s \ {Chosen(s)}
    <3>1. u \in SUBSET T /\ u # T /\ u \in SUBSET (s \cap u)
      BY <2>4, ChosenIn
    <3>2. IsSumOver(Fold(u), f, u)
      BY <3>1, <1>2
    <3>3. IsFiniteSet(s)
      BY FS_Subset
    <3>4. Fold(s)[u] = Fold(u)[u]
      BY <2>1, <3>1, <3>2, <3>3, FoldsAgree
    <3>. QED
      BY <2>2, <2>4, <3>4
  <2>. QED
    BY <2>3, <2>4
<1>4. \A s \in SUBSET T : s # {} =>
         g[s \ {Chosen(s)}] = Fold(s \ {Chosen(s)})[s \ {Chosen(s)}]
  <2> SUFFICES ASSUME NEW s \in SUBSET T, s # {}
               PROVE  g[s \ {Chosen(s)}] = Fold(s \ {Chosen(s)})[s \ {Chosen(s)}]
    OBVIOUS
  <2>1. s \ {Chosen(s)} \in SUBSET T /\ s \ {Chosen(s)} # T
    BY ChosenIn
  <2>. QED
    BY <2>1, <1>3
<1>5. g = [s \in SUBSET T |-> IF s = {} THEN 0
                            ELSE f[Chosen(s)] + g[s \ {Chosen(s)}]]
  BY <1>4
<1>6. IsSumOver(g, f, T)
  BY <1>5 DEF IsSumOver
<1>. QED
  BY <1>1, <1>6

\* The total over S is what some solution says of S.
LEMMA SumOf ==
    ASSUME NEW f, NEW S, IsFiniteSet(S)
    PROVE  \E g : IsSumOver(g, f, S) /\ SumFunctionOnSet(f, S) = g[S]
<1>1. PICK h : IsSumOver(h, f, S)
  BY FoldExists
<1>2. IsSumOver(CHOOSE g : IsSumOver(g, f, S), f, S)
  BY <1>1, FoldChoice
<1>. QED
  BY <1>2, SumIsChoice

\* No rows, no total.
LEMMA SumEmpty ==
    ASSUME NEW f
    PROVE  SumFunctionOnSet(f, {}) = 0
<1>1. PICK g : IsSumOver(g, f, {}) /\ SumFunctionOnSet(f, {}) = g[{}]
  BY SumOf, FS_EmptySet
<1>. QED
  BY <1>1 DEF IsSumOver

\* The recursion, of the total itself.
LEMMA SumOfChosen ==
    ASSUME NEW f, NEW S, IsFiniteSet(S), S # {}
    PROVE  /\ Chosen(S) \in S
           /\ SumFunctionOnSet(f, S)
                 = f[Chosen(S)] + SumFunctionOnSet(f, S \ {Chosen(S)})
<1> DEFINE T == S \ {Chosen(S)}
<1>1. PICK g : IsSumOver(g, f, S) /\ SumFunctionOnSet(f, S) = g[S]
  BY SumOf
<1>2. PICK h : IsSumOver(h, f, T) /\ SumFunctionOnSet(f, T) = h[T]
  BY SumOf, FS_Subset
<1>3. g[S] = f[Chosen(S)] + g[T]
  BY <1>1 DEF IsSumOver
<1>4. T \in SUBSET (S \cap T)
  OBVIOUS
<1> HIDE DEF T
<1>5. g[T] = h[T]
  BY <1>1, <1>2, <1>4, FoldsAgree
<1> USE DEF T
<1>. QED
  BY <1>1, <1>2, <1>3, <1>5, ChosenIn

\* A total of natural numbers is one.
LEMMA SumNat ==
    ASSUME NEW f, NEW S, IsFiniteSet(S), \A x \in S : f[x] \in Nat
    PROVE  SumFunctionOnSet(f, S) \in Nat
<1> DEFINE Bad == {T \in SUBSET S : SumFunctionOnSet(f, T) \notin Nat}
<1> SUFFICES ASSUME Bad # {} PROVE FALSE
  OBVIOUS
<1>0. Bad \subseteq SUBSET S
  OBVIOUS
<1> HIDE DEF Bad
<1>1. PICK T \in Bad : \A U \in Bad : U \subseteq T => U = T
  BY <1>0, SmallestSubset
<1> USE DEF Bad
<1>2. T # {}
  BY SumEmpty
<1>3. IsFiniteSet(T)
  BY FS_Subset
<1>4. /\ Chosen(T) \in T
      /\ SumFunctionOnSet(f, T) = f[Chosen(T)] + SumFunctionOnSet(f, T \ {Chosen(T)})
  BY <1>2, <1>3, SumOfChosen
<1>5. SumFunctionOnSet(f, T \ {Chosen(T)}) \in Nat
  BY <1>1, <1>4
<1>. QED
  BY <1>4, <1>5

\* A total of integers is one.
LEMMA SumInt ==
    ASSUME NEW f, NEW S, IsFiniteSet(S), \A x \in S : f[x] \in Int
    PROVE  SumFunctionOnSet(f, S) \in Int
<1> DEFINE Bad == {T \in SUBSET S : SumFunctionOnSet(f, T) \notin Int}
<1> SUFFICES ASSUME Bad # {} PROVE FALSE
  OBVIOUS
<1>0. Bad \subseteq SUBSET S
  OBVIOUS
<1> HIDE DEF Bad
<1>1. PICK T \in Bad : \A U \in Bad : U \subseteq T => U = T
  BY <1>0, SmallestSubset
<1> USE DEF Bad
<1>2. T # {}
  BY SumEmpty
<1>3. IsFiniteSet(T)
  BY FS_Subset
<1>4. /\ Chosen(T) \in T
      /\ SumFunctionOnSet(f, T) = f[Chosen(T)] + SumFunctionOnSet(f, T \ {Chosen(T)})
  BY <1>2, <1>3, SumOfChosen
<1>5. SumFunctionOnSet(f, T \ {Chosen(T)}) \in Int
  BY <1>1, <1>4
<1>. QED
  BY <1>4, <1>5

\* Whatever element is taken out first.
LEMMA SumTakeOut ==
    ASSUME NEW f, NEW S, IsFiniteSet(S), \A x \in S : f[x] \in Int, NEW x \in S
    PROVE  SumFunctionOnSet(f, S) = f[x] + SumFunctionOnSet(f, S \ {x})
<1> DEFINE Bad == {T \in SUBSET S : \E y \in T :
                     SumFunctionOnSet(f, T) # f[y] + SumFunctionOnSet(f, T \ {y})}
<1> SUFFICES ASSUME Bad # {} PROVE FALSE
  OBVIOUS
<1>0. Bad \subseteq SUBSET S
  OBVIOUS
<1> HIDE DEF Bad
<1>1. PICK T \in Bad : \A U \in Bad : U \subseteq T => U = T
  BY <1>0, SmallestSubset
<1> USE DEF Bad
<1>2. PICK y \in T : SumFunctionOnSet(f, T) # f[y] + SumFunctionOnSet(f, T \ {y})
  OBVIOUS
<1>3. IsFiniteSet(T)
  BY FS_Subset
<1> DEFINE c == Chosen(T)
<1>4. c \in T /\ SumFunctionOnSet(f, T) = f[c] + SumFunctionOnSet(f, T \ {c})
  BY <1>2, <1>3, SumOfChosen
<1>5. c # y
  BY <1>2, <1>4
<1> HIDE DEF c
<1>6. T \ {c} \in SUBSET S /\ T \ {c} \subseteq T /\ T \ {c} # T
  BY <1>4
<1>7. T \ {y} \in SUBSET S /\ T \ {y} \subseteq T /\ T \ {y} # T
  BY <1>2
<1>8. SumFunctionOnSet(f, T \ {c}) = f[y] + SumFunctionOnSet(f, (T \ {c}) \ {y})
  BY <1>1, <1>2, <1>5, <1>6
<1>9. SumFunctionOnSet(f, T \ {y}) = f[c] + SumFunctionOnSet(f, (T \ {y}) \ {c})
  BY <1>1, <1>4, <1>5, <1>7
<1>10. (T \ {c}) \ {y} = (T \ {y}) \ {c}
  OBVIOUS
<1>11. SumFunctionOnSet(f, (T \ {c}) \ {y}) \in Int
  BY SumInt, FS_Subset, (T \ {c}) \ {y} \in SUBSET S
<1>12. f[c] \in Int /\ f[y] \in Int
  BY <1>2, <1>4
<1>. QED
  BY <1>2, <1>4, <1>8, <1>9, <1>10, <1>11, <1>12

\* The sum depends on the summands only.
LEMMA SumCongruent ==
    ASSUME NEW f, NEW g, NEW S, IsFiniteSet(S), \A x \in S : f[x] = g[x]
    PROVE  SumFunctionOnSet(f, S) = SumFunctionOnSet(g, S)
<1> DEFINE Bad == {T \in SUBSET S : SumFunctionOnSet(f, T) # SumFunctionOnSet(g, T)}
<1> SUFFICES ASSUME Bad # {} PROVE FALSE
  OBVIOUS
<1>0. Bad \subseteq SUBSET S
  OBVIOUS
<1> HIDE DEF Bad
<1>1. PICK T \in Bad : \A U \in Bad : U \subseteq T => U = T
  BY <1>0, SmallestSubset
<1> USE DEF Bad
<1>2. T # {}
  BY SumEmpty
<1>3. IsFiniteSet(T)
  BY FS_Subset
<1>4. /\ Chosen(T) \in T
      /\ SumFunctionOnSet(f, T) = f[Chosen(T)] + SumFunctionOnSet(f, T \ {Chosen(T)})
      /\ SumFunctionOnSet(g, T) = g[Chosen(T)] + SumFunctionOnSet(g, T \ {Chosen(T)})
  BY <1>2, <1>3, SumOfChosen
<1>5. SumFunctionOnSet(f, T \ {Chosen(T)}) = SumFunctionOnSet(g, T \ {Chosen(T)})
  BY <1>1, <1>4
<1>. QED
  BY <1>4, <1>5

\* One more element.
LEMMA SumExtended ==
    ASSUME NEW f, NEW g, NEW S, IsFiniteSet(S), NEW x, x \notin S,
           \A y \in S : f[y] \in Int /\ g[y] = f[y], g[x] \in Int
    PROVE  SumFunctionOnSet(g, S \cup {x}) = SumFunctionOnSet(f, S) + g[x]
<1>1. IsFiniteSet(S \cup {x})
  BY FS_AddElement
<1>2. SumFunctionOnSet(g, S \cup {x}) = g[x] + SumFunctionOnSet(g, (S \cup {x}) \ {x})
  BY <1>1, SumTakeOut
<1>3. (S \cup {x}) \ {x} = S
  OBVIOUS
<1>4. SumFunctionOnSet(g, S) = SumFunctionOnSet(f, S)
  BY SumCongruent
<1>5. SumFunctionOnSet(f, S) \in Int
  BY SumInt
<1>6. SumFunctionOnSet(g, S \cup {x}) = g[x] + SumFunctionOnSet(f, S)
  BY <1>2, <1>3, <1>4, Zenon
<1>. QED
  BY <1>5, <1>6

\* One summand changes.
LEMMA SumChanged ==
    ASSUME NEW f, NEW g, NEW S, IsFiniteSet(S), NEW x \in S,
           \A y \in S : f[y] \in Int /\ g[y] \in Int,
           \A y \in S \ {x} : g[y] = f[y]
    PROVE  SumFunctionOnSet(g, S) = SumFunctionOnSet(f, S) + (g[x] - f[x])
<1>1. /\ SumFunctionOnSet(f, S) = f[x] + SumFunctionOnSet(f, S \ {x})
      /\ SumFunctionOnSet(g, S) = g[x] + SumFunctionOnSet(g, S \ {x})
  BY SumTakeOut
<1>2. IsFiniteSet(S \ {x})
  BY FS_Subset
<1>3. SumFunctionOnSet(f, S \ {x}) = SumFunctionOnSet(g, S \ {x})
  BY <1>2, SumCongruent
<1>4. SumFunctionOnSet(f, S \ {x}) \in Int
  BY <1>2, SumInt
<1>. QED
  BY <1>1, <1>3, <1>4

\* Larger summands make a larger sum.
LEMMA SumAtMost ==
    ASSUME NEW f, NEW g, NEW S, IsFiniteSet(S),
           \A x \in S : f[x] \in Int /\ g[x] \in Int /\ f[x] <= g[x]
    PROVE  SumFunctionOnSet(f, S) <= SumFunctionOnSet(g, S)
<1> DEFINE Bad == {T \in SUBSET S : ~(SumFunctionOnSet(f, T) <= SumFunctionOnSet(g, T))}
<1> SUFFICES ASSUME Bad # {} PROVE FALSE
  OBVIOUS
<1>0. Bad \subseteq SUBSET S
  OBVIOUS
<1> HIDE DEF Bad
<1>1. PICK T \in Bad : \A U \in Bad : U \subseteq T => U = T
  BY <1>0, SmallestSubset
<1> USE DEF Bad
<1>2. T # {}
  BY SumEmpty
<1>3. IsFiniteSet(T)
  BY FS_Subset
<1> DEFINE c == Chosen(T)
<1>4. /\ c \in T
      /\ SumFunctionOnSet(f, T) = f[c] + SumFunctionOnSet(f, T \ {c})
      /\ SumFunctionOnSet(g, T) = g[c] + SumFunctionOnSet(g, T \ {c})
  BY <1>2, <1>3, SumOfChosen
<1> HIDE DEF c
<1>5. SumFunctionOnSet(f, T \ {c}) <= SumFunctionOnSet(g, T \ {c})
  BY <1>1, <1>4
<1>6. IsFiniteSet(T \ {c}) /\ T \ {c} \subseteq S
  BY <1>3, FS_Subset
<1>7. SumFunctionOnSet(f, T \ {c}) \in Int /\ SumFunctionOnSet(g, T \ {c}) \in Int
  BY <1>6, SumInt
<1>8. f[c] \in Int /\ g[c] \in Int /\ f[c] <= g[c]
  BY <1>4
<1>. QED
  BY <1>4, <1>5, <1>7, <1>8

\* The same of the total of a function over its domain.
LEMMA TotalNat ==
    ASSUME NEW f, IsFiniteSet(DOMAIN f), \A x \in DOMAIN f : f[x] \in Nat
    PROVE  SumFunction(f) \in Nat
  BY SumNat DEF SumFunction

\* One more row adds its summand.
LEMMA TotalExtended ==
    ASSUME NEW f, NEW g, NEW x, x \notin DOMAIN f, DOMAIN g = DOMAIN f \cup {x},
           IsFiniteSet(DOMAIN f), \A y \in DOMAIN f : f[y] \in Int /\ g[y] = f[y],
           g[x] \in Int
    PROVE  SumFunction(g) = SumFunction(f) + g[x]
<1>1. SumFunctionOnSet(g, DOMAIN f \cup {x}) = SumFunctionOnSet(f, DOMAIN f) + g[x]
  BY SumExtended
<1>. QED
  BY <1>1, Zenon DEF SumFunction

\* A changed row changes the total by as much.
LEMMA TotalChanged ==
    ASSUME NEW f, NEW g, NEW x \in DOMAIN f, DOMAIN g = DOMAIN f,
           IsFiniteSet(DOMAIN f), \A y \in DOMAIN f : f[y] \in Int /\ g[y] \in Int,
           \A y \in DOMAIN f \ {x} : g[y] = f[y]
    PROVE  SumFunction(g) = SumFunction(f) + (g[x] - f[x])
<1>1. SumFunctionOnSet(g, DOMAIN f) = SumFunctionOnSet(f, DOMAIN f) + (g[x] - f[x])
  BY SumChanged
<1>. QED
  BY <1>1, Zenon DEF SumFunction

\* Row by row at most makes a total of at most.
LEMMA TotalAtMost ==
    ASSUME NEW f, NEW g, DOMAIN g = DOMAIN f, IsFiniteSet(DOMAIN f),
           \A x \in DOMAIN f : f[x] \in Int /\ g[x] \in Int /\ f[x] <= g[x]
    PROVE  SumFunction(f) <= SumFunction(g)
<1>1. SumFunctionOnSet(f, DOMAIN f) <= SumFunctionOnSet(g, DOMAIN f)
  BY SumAtMost
<1>. QED
  BY <1>1, Zenon DEF SumFunction

\* No row is above the total of natural numbers.
LEMMA TotalAtLeast ==
    ASSUME NEW f, IsFiniteSet(DOMAIN f), \A y \in DOMAIN f : f[y] \in Nat,
           NEW x \in DOMAIN f
    PROVE  f[x] <= SumFunction(f)
<1>1. SumFunctionOnSet(f, DOMAIN f) = f[x] + SumFunctionOnSet(f, DOMAIN f \ {x})
  BY SumTakeOut
<1>2. IsFiniteSet(DOMAIN f \ {x})
  BY FS_Subset
<1>3. SumFunctionOnSet(f, DOMAIN f \ {x}) \in Nat
  BY <1>2, SumNat
<1>4. SumFunction(f) = f[x] + SumFunctionOnSet(f, DOMAIN f \ {x})
  BY <1>1, Zenon DEF SumFunction
<1>. QED
  BY <1>3, <1>4

\* Nothing comes to nothing.
LEMMA TotalZero ==
    ASSUME NEW f, IsFiniteSet(DOMAIN f), \A x \in DOMAIN f : f[x] = 0
    PROVE  SumFunction(f) = 0
<1> DEFINE S == DOMAIN f
           Bad == {T \in SUBSET S : SumFunctionOnSet(f, T) # 0}
<1> SUFFICES ASSUME Bad # {} PROVE FALSE
  <2>1. SumFunction(f) = SumFunctionOnSet(f, S)
    BY DEF SumFunction
  <2>. QED
    BY <2>1
<1>0. Bad \subseteq SUBSET S
  OBVIOUS
<1> HIDE DEF Bad
<1>1. PICK T \in Bad : \A U \in Bad : U \subseteq T => U = T
  BY <1>0, SmallestSubset
<1> USE DEF Bad
<1>2. T # {}
  BY SumEmpty
<1>3. IsFiniteSet(T)
  BY FS_Subset
<1>4. /\ Chosen(T) \in T
      /\ SumFunctionOnSet(f, T) = f[Chosen(T)] + SumFunctionOnSet(f, T \ {Chosen(T)})
  BY <1>2, <1>3, SumOfChosen
<1>5. SumFunctionOnSet(f, T \ {Chosen(T)}) = 0
  BY <1>1, <1>4
<1>. QED
  BY <1>4, <1>5

\* The total of two sets that share nothing.
LEMMA SumParted ==
    ASSUME NEW f, NEW S, NEW T, IsFiniteSet(S), IsFiniteSet(T), S \cap T = {},
           \A x \in S \cup T : f[x] \in Int
    PROVE  SumFunctionOnSet(f, S \cup T) = SumFunctionOnSet(f, S) + SumFunctionOnSet(f, T)
<1> DEFINE Bad == {U \in SUBSET T : SumFunctionOnSet(f, S \cup U)
                                      # SumFunctionOnSet(f, S) + SumFunctionOnSet(f, U)}
<1> SUFFICES ASSUME Bad # {} PROVE FALSE
  OBVIOUS
<1>0. Bad \subseteq SUBSET T
  OBVIOUS
<1> HIDE DEF Bad
<1>1. PICK U \in Bad : \A V \in Bad : V \subseteq U => V = U
  BY <1>0, SmallestSubset
<1> USE DEF Bad
<1>2. U \subseteq T /\ IsFiniteSet(U) /\ IsFiniteSet(S \cup U)
  BY FS_Subset, FS_Union
<1>3. SumFunctionOnSet(f, S) \in Int
  BY SumInt
<1>4. U # {}
  <2>1. SUFFICES ASSUME U = {} PROVE FALSE
    OBVIOUS
  <2>2. S \cup U = S
    BY <2>1
  <2>3. SumFunctionOnSet(f, S \cup U) = SumFunctionOnSet(f, S) /\ SumFunctionOnSet(f, U) = 0
    BY <2>1, <2>2, SumEmpty, Zenon
  <2>. QED
    BY <1>3, <2>3
<1>5. PICK c \in U : TRUE
  BY <1>4
<1>6. (S \cup U) \ {c} = S \cup (U \ {c})
  BY <1>2
<1>7. /\ SumFunctionOnSet(f, S \cup U) = f[c] + SumFunctionOnSet(f, (S \cup U) \ {c})
      /\ SumFunctionOnSet(f, U) = f[c] + SumFunctionOnSet(f, U \ {c})
  BY <1>2, SumTakeOut
<1>8. SumFunctionOnSet(f, S \cup (U \ {c}))
          = SumFunctionOnSet(f, S) + SumFunctionOnSet(f, U \ {c})
  BY <1>1
<1>9. SumFunctionOnSet(f, U \ {c}) \in Int
  BY <1>2, FS_Subset, SumInt
<1>10. SumFunctionOnSet(f, S \cup U)
          = f[c] + (SumFunctionOnSet(f, S) + SumFunctionOnSet(f, U \ {c}))
  BY <1>6, <1>7, <1>8, Zenon
<1>11. f[c] \in Int
  BY <1>2
<1>. QED
  BY <1>3, <1>7, <1>9, <1>10, <1>11

\* The totals of the groups that the elements fall into.
LEMMA SumGrouped ==
    ASSUME NEW f, NEW S, IsFiniteSet(S), \A x \in S : f[x] \in Int,
           NEW D, IsFiniteSet(D), NEW g, \A x \in S : g[x] \in D,
           NEW h, \A d \in D : h[d] = SumFunctionOnSet(f, {x \in S : g[x] = d})
    PROVE  SumFunctionOnSet(h, D) = SumFunctionOnSet(f, S)
<1> DEFINE Of(E) == {x \in S : g[x] \in E}
           Bad == {E \in SUBSET D : SumFunctionOnSet(h, E) # SumFunctionOnSet(f, Of(E))}
<1>d. Of(D) = S
  OBVIOUS
<1> SUFFICES ASSUME Bad # {} PROVE FALSE
  <2>1. D \in SUBSET D /\ D \notin Bad => SumFunctionOnSet(h, D) = SumFunctionOnSet(f, Of(D))
    OBVIOUS
  <2>. QED
    BY <1>d, <2>1
<1>0. Bad \subseteq SUBSET D
  OBVIOUS
<1> HIDE DEF Bad
<1>1. PICK E \in Bad : \A F \in Bad : F \subseteq E => F = E
  BY <1>0, SmallestSubset
<1> USE DEF Bad
<1>2. E \subseteq D /\ IsFiniteSet(E)
  BY FS_Subset
<1>3. E # {}
  <2>1. SUFFICES ASSUME E = {} PROVE FALSE
    OBVIOUS
  <2>2. Of(E) = {}
    BY <2>1
  <2>3. SumFunctionOnSet(h, E) = 0 /\ SumFunctionOnSet(f, Of(E)) = 0
    BY <2>1, <2>2, SumEmpty, Zenon
  <2>. QED
    BY <2>3
<1>4. PICK c \in E : TRUE
  BY <1>3
<1>5. \A d \in D : h[d] \in Int
  <2>1. ASSUME NEW d \in D PROVE SumFunctionOnSet(f, {x \in S : g[x] = d}) \in Int
    <3>1. IsFiniteSet({x \in S : g[x] = d})
      BY FS_Subset
    <3>. QED
      BY <3>1, SumInt
  <2>. QED
    BY <2>1
<1>6. SumFunctionOnSet(h, E) = h[c] + SumFunctionOnSet(h, E \ {c})
  BY <1>2, <1>5, SumTakeOut
<1>7. SumFunctionOnSet(h, E \ {c}) = SumFunctionOnSet(f, Of(E \ {c}))
  <2>1. E \ {c} \in SUBSET D /\ E \ {c} \subseteq E /\ E \ {c} # E
    BY <1>2
  <2>. QED
    BY <1>1, <2>1
<1> DEFINE G == {x \in S : g[x] = c}
<1>8. Of(E) = G \cup Of(E \ {c}) /\ G \cap Of(E \ {c}) = {}
  OBVIOUS
<1>9. IsFiniteSet(G) /\ IsFiniteSet(Of(E \ {c})) /\ G \subseteq S /\ Of(E \ {c}) \subseteq S
  BY FS_Subset
<1>10. h[c] = SumFunctionOnSet(f, G)
  BY <1>2
<1>11. h[c] \in Int
  BY <1>2, <1>5
<1> HIDE DEF G, Of
<1>12. SumFunctionOnSet(f, G \cup Of(E \ {c}))
          = SumFunctionOnSet(f, G) + SumFunctionOnSet(f, Of(E \ {c}))
  BY <1>8, <1>9, SumParted
<1>13. SumFunctionOnSet(f, Of(E)) = h[c] + SumFunctionOnSet(h, E \ {c})
  BY <1>7, <1>8, <1>10, <1>12, Zenon
<1>. QED
  BY <1>1, <1>6, <1>13

\* As many ones as elements.
LEMMA SumOnes ==
    ASSUME NEW f, NEW S, IsFiniteSet(S), \A x \in S : f[x] = 1
    PROVE  SumFunctionOnSet(f, S) = Cardinality(S)
<1> DEFINE Bad == {T \in SUBSET S : SumFunctionOnSet(f, T) # Cardinality(T)}
<1> SUFFICES ASSUME Bad # {} PROVE FALSE
  OBVIOUS
<1>0. Bad \subseteq SUBSET S
  OBVIOUS
<1> HIDE DEF Bad
<1>1. PICK T \in Bad : \A U \in Bad : U \subseteq T => U = T
  BY <1>0, SmallestSubset
<1> USE DEF Bad
<1>2. T # {}
  BY SumEmpty, FS_EmptySet
<1>3. IsFiniteSet(T)
  BY FS_Subset
<1>4. /\ Chosen(T) \in T
      /\ SumFunctionOnSet(f, T) = f[Chosen(T)] + SumFunctionOnSet(f, T \ {Chosen(T)})
  BY <1>2, <1>3, SumOfChosen
<1>5. SumFunctionOnSet(f, T \ {Chosen(T)}) = Cardinality(T \ {Chosen(T)})
  BY <1>1, <1>4
<1>6. /\ Cardinality(T \ {Chosen(T)}) = Cardinality(T) - 1
      /\ Cardinality(T) \in Nat
  BY <1>3, <1>4, FS_RemoveElement, FS_CardinalityType
<1>7. f[Chosen(T)] = 1
  BY <1>4
<1>. QED
  BY <1>4, <1>5, <1>6, <1>7

\* The difference, element by element.
LEMMA SumMinus ==
    ASSUME NEW f, NEW g, NEW h, NEW S, IsFiniteSet(S),
           \A x \in S : f[x] \in Int /\ g[x] \in Int /\ h[x] = f[x] - g[x]
    PROVE  SumFunctionOnSet(h, S) = SumFunctionOnSet(f, S) - SumFunctionOnSet(g, S)
<1> DEFINE Bad == {T \in SUBSET S : SumFunctionOnSet(h, T)
                                      # SumFunctionOnSet(f, T) - SumFunctionOnSet(g, T)}
<1> SUFFICES ASSUME Bad # {} PROVE FALSE
  OBVIOUS
<1>0. Bad \subseteq SUBSET S
  OBVIOUS
<1> HIDE DEF Bad
<1>1. PICK T \in Bad : \A U \in Bad : U \subseteq T => U = T
  BY <1>0, SmallestSubset
<1> USE DEF Bad
<1>2. T # {}
  BY SumEmpty
<1>3. IsFiniteSet(T)
  BY FS_Subset
<1> DEFINE c == Chosen(T)
<1>4. /\ c \in T
      /\ SumFunctionOnSet(f, T) = f[c] + SumFunctionOnSet(f, T \ {c})
      /\ SumFunctionOnSet(g, T) = g[c] + SumFunctionOnSet(g, T \ {c})
      /\ SumFunctionOnSet(h, T) = h[c] + SumFunctionOnSet(h, T \ {c})
  BY <1>2, <1>3, SumOfChosen
<1> HIDE DEF c
<1>5. SumFunctionOnSet(h, T \ {c})
          = SumFunctionOnSet(f, T \ {c}) - SumFunctionOnSet(g, T \ {c})
  BY <1>1, <1>4
<1>6. IsFiniteSet(T \ {c}) /\ T \ {c} \subseteq S
  BY <1>3, FS_Subset
<1>7. SumFunctionOnSet(f, T \ {c}) \in Int /\ SumFunctionOnSet(g, T \ {c}) \in Int
  BY <1>6, SumInt
<1>8. f[c] \in Int /\ g[c] \in Int /\ h[c] = f[c] - g[c]
  BY <1>4
<1>. QED
  BY <1>4, <1>5, <1>7, <1>8
=============================================================================
