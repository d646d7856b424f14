----------------------------- MODULE BankProofs -----------------------------
(***************************************************************************)
(* Facts about transfers, fees and sums that the proofs share.              *)
(*                                                                          *)
(* SumFunction of the community modules is a recursion over the subsets of  *)
(* its domain.  That the recursion is defined, and that the order in which  *)
(* it takes the elements makes no difference, is proved here for finite     *)
(* domains; the lemmas on sums that the proofs cite follow from it.         *)
(***************************************************************************)
EXTENDS Bank, Functions, FiniteSetTheorems, TLAPS

\* A portion rounds down: multiplied back it does not exceed the product.
LEMMA PortionRoundsDown ==
    ASSUME NEW a \in Nat, NEW b \in Nat, NEW d \in Nat \ {0}
    PROVE  /\ Portion(a, b, d) \in Nat
           /\ Portion(a, b, d) * d <= a * b
<1> DEFINE p == a * b
<1>1. p \in Nat
  OBVIOUS
<1> HIDE DEF p
<1>2. p \div d \in Nat /\ (p \div d) * d <= p
  BY <1>1
<1>3. QED
  BY <1>2 DEF p, Portion

\* Multiplication by a natural number is monotone.
LEMMA TimesMonotone ==
    ASSUME NEW a \in Nat, NEW x \in Nat, NEW y \in Nat, x <= y
    PROVE  a * x <= a * y
OBVIOUS

\* A transfer of what the sender affords keeps the table typed, moves exactly
\* the amount and leaves the other holders and the other assets alone.
LEMMA MovedTyped ==
    ASSUME NEW Assets, NEW Holders, NEW b \in Balances(Assets, Holders),
           NEW asset \in Assets,
           NEW from \in Holders, NEW to \in Holders, from # to,
           NEW n \in Nat, Affords(b, asset, from, n)
    PROVE  /\ Moved(b, asset, from, to, n) \in Balances(Assets, Holders)
           /\ Moved(b, asset, from, to, n)[asset][from] = b[asset][from] - n
           /\ Moved(b, asset, from, to, n)[asset][to] = b[asset][to] + n
           /\ \A h \in Holders : h \notin {from, to} =>
                  Moved(b, asset, from, to, n)[asset][h] = b[asset][h]
           /\ \A a \in Assets : a # asset => Moved(b, asset, from, to, n)[a] = b[a]
<1> DEFINE row == [b[asset] EXCEPT ![from] = b[asset][from] - n,
                                   ![to] = b[asset][to] + n]
<1>1. /\ b[asset] \in [Holders -> Nat]
      /\ b[asset][from] - n \in Nat
      /\ b[asset][to] + n \in Nat
  BY DEF Balances, Affords
<1>2. row \in [Holders -> Nat]
  BY <1>1
<1>3. /\ row[from] = b[asset][from] - n /\ row[to] = b[asset][to] + n
      /\ \A h \in Holders : h \notin {from, to} => row[h] = b[asset][h]
  BY <1>1
<1>4. Moved(b, asset, from, to, n) = [b EXCEPT ![asset] = row]
  BY <1>1 DEF Moved
<1> HIDE DEF row
<1>5. QED
  BY <1>2, <1>3, <1>4 DEF Balances

-----------------------------------------------------------------------------
(* Sums. *)

\* The element the library's sum over T takes out next.
Chosen(T) == CHOOSE x \in T : TRUE

\* One unfolding of the recursion by which the library adds up f.
Unfolded(f, it, T) == IF T = {} THEN 0 ELSE f[Chosen(T)] + it[T \ {Chosen(T)}]

\* it holds the sum of f over every subset of S.
Tallies(it, f, S) ==
    /\ it \in [SUBSET S -> Int]
    /\ it[{}] = 0
    /\ \A T \in SUBSET S : \A x \in T : it[T] = f[x] + it[T \ {x}]

\* Among any sets of elements of a finite set there is one that contains no other:
\* the induction over data of the proofs below, as a fact about sets.
LEMMA SmallestSubset ==
    ASSUME NEW S, IsFiniteSet(S), NEW B \in SUBSET SUBSET S, B # {}
    PROVE  \E T \in B : \A U \in B : U \subseteq T => U = T
<1>1. IsWellFoundedOn(StrictSubsetOrdering(S), SUBSET S)
  BY FS_StrictSubsetOrderingWellFounded, FS_FiniteSubsetsOfFinite
<1>2. PICK T \in B : \A U \in B : ~ (<<U, T>> \in StrictSubsetOrdering(S))
  BY <1>1, WFMin
<1>3. ASSUME NEW U \in B, U \subseteq T
      PROVE  U = T
  <2>1. U \in SUBSET S /\ T \in SUBSET S
    OBVIOUS
  <2>2. CASE U # T
    <3>1. <<U, T>> \in StrictSubsetOrdering(S)
      BY <1>3, <2>1, <2>2 DEF StrictSubsetOrdering
    <3>2. QED
      BY <3>1, <1>2
  <2>3. QED
    BY <2>2
<1>4. QED
  BY <1>3

\* Any set of natural numbers has a least one.
LEMMA NatLeast ==
    ASSUME NEW A \in SUBSET Nat, A # {}
    PROVE  \E n \in A : \A m \in A : n <= m
<1>1. PICK a \in A : TRUE
  OBVIOUS
<1>a. a \in Nat /\ \A m \in A : m \in Nat
  OBVIOUS
<1> DEFINE R == 0..a
           Below(k) == {m \in R : m \in A /\ m <= k}
           B == {T \in SUBSET R : \E k \in R : k \in A /\ T = Below(k)}
<1>2. IsFiniteSet(R)
  BY <1>a, FS_Interval
<1>r. \A m : m \in R <=> (m \in Nat /\ m <= a)
  BY <1>a
<1> HIDE DEF R
<1>3. ASSUME NEW k \in R, k \in A
      PROVE  Below(k) \in B
  BY <1>3
<1>4. B # {}
  <2>1. a \in R
    BY <1>a, <1>r
  <2>2. Below(a) \in B
    BY <1>3, <2>1
  <2>3. QED
    BY <2>2
<1>k. \A T \in B : T \in SUBSET R
  OBVIOUS
<1>5. \E T \in B : \A U \in B : U \subseteq T => U = T
  <2> HIDE DEF B
  <2>0. B \in SUBSET SUBSET R
    BY <1>k
  <2>1. QED
    BY <1>2, <1>4, <2>0, SmallestSubset
<1>6. PICK n \in R : n \in A /\ \A U \in B : U \subseteq Below(n) => U = Below(n)
  BY <1>5
<1>7. ASSUME NEW m \in A, m < n
      PROVE  FALSE
  <2>0. m \in R /\ n \in Nat /\ m \in Nat
    BY <1>7, <1>r, <1>a
  <2>1. Below(m) \in B
    BY <1>3, <2>0
  <2>2. ASSUME NEW x \in Below(m) PROVE x \in Below(n)
    <3>1. x \in Nat /\ x <= m
      BY <1>r
    <3>2. x <= n
      BY <3>1, <2>0, <1>7
    <3>3. QED
      BY <3>2
  <2>3. n \in Below(n) /\ n \notin Below(m)
    BY <1>7, <2>0, <1>6
  <2>4. QED
    BY <2>1, <2>2, <2>3, <1>6
<1>8. ASSUME NEW m \in A PROVE n <= m
  BY <1>7, <1>a, <1>6
<1>9. QED
  BY <1>6, <1>8

\* The recursion can be unfolded over the subsets of at most n elements.
Unfolds(f, S, n) ==
    \E it \in [SUBSET S -> Int] :
        \A T \in SUBSET S : Cardinality(T) <= n => it[T] = Unfolded(f, it, T)

\* The recursion has a solution, however large the subsets.
LEMMA UnfoldedUpTo ==
    ASSUME NEW S, IsFiniteSet(S), NEW f \in [S -> Int], NEW n \in Nat
    PROVE  Unfolds(f, S, n)
<1> DEFINE Upto(k) == Unfolds(f, S, k)
           Bad == {k \in Nat : ~ Upto(k)}
<1>0. \A T \in SUBSET S : IsFiniteSet(T) /\ Cardinality(T) \in Nat
  BY FS_Subset, FS_CardinalityType
<1>1. ASSUME NEW T \in SUBSET S, T # {}
      PROVE  /\ Chosen(T) \in T /\ T \ {Chosen(T)} \in SUBSET S
             /\ Cardinality(T \ {Chosen(T)}) = Cardinality(T) - 1
             /\ Cardinality(T) # 0
  <2>1. Chosen(T) \in T
    BY <1>1 DEF Chosen
  <2>2. QED
    BY <2>1, <1>0, <1>1, FS_RemoveElement, FS_EmptySet
<1>2. Upto(0)
  <2> DEFINE it == [T \in SUBSET S |-> 0]
  <2>1. ASSUME NEW T \in SUBSET S, Cardinality(T) <= 0
        PROVE  it[T] = Unfolded(f, it, T)
    BY <2>1, <1>0, <1>1 DEF Unfolded
  <2>2. it \in [SUBSET S -> Int]
    OBVIOUS
  <2>3. QED
    BY <2>1, <2>2 DEF Unfolds
<1>3. ASSUME NEW k \in Nat, Upto(k)
      PROVE  Upto(k + 1)
  <2>1. PICK g \in [SUBSET S -> Int] :
            \A T \in SUBSET S : Cardinality(T) <= k => g[T] = Unfolded(f, g, T)
    BY <1>3 DEF Unfolds
  <2> DEFINE h == [T \in SUBSET S |-> Unfolded(f, g, T)]
  <2>2. h \in [SUBSET S -> Int]
    <3>1. ASSUME NEW T \in SUBSET S
          PROVE  Unfolded(f, g, T) \in Int
      <4>1. CASE T = {}
        BY <4>1 DEF Unfolded
      <4>2. CASE T # {}
        <5>1. f[Chosen(T)] \in Int /\ g[T \ {Chosen(T)}] \in Int
          BY <4>2, <1>1
        <5>2. QED
          BY <5>1, <4>2 DEF Unfolded
      <4>3. QED
        BY <4>1, <4>2
    <3>2. QED
      BY <3>1
  <2>3. ASSUME NEW T \in SUBSET S, Cardinality(T) <= k + 1
        PROVE  h[T] = Unfolded(f, h, T)
    <3>1. CASE T = {}
      BY <3>1 DEF Unfolded
    <3>2. CASE T # {}
      <4> DEFINE U == T \ {Chosen(T)}
      <4>1. U \in SUBSET S /\ Cardinality(U) <= k
        BY <3>2, <1>1, <1>0, <2>3
      <4>2. h[U] = g[U]
        BY <4>1, <2>1
      <4>3. QED
        BY <4>2, <3>2 DEF Unfolded
    <3>3. QED
      BY <3>1, <3>2
  <2> HIDE DEF h
  <2>4. QED
    BY <2>2, <2>3 DEF Unfolds
<1> HIDE DEF Upto
<1>4. ASSUME Bad # {} PROVE FALSE
  <2>1. PICK k \in Bad : \A m \in Bad : k <= m
    BY <1>4, NatLeast
  <2>2. k # 0 /\ k - 1 \in Nat /\ k - 1 \notin Bad
    BY <1>2, <2>1
  <2>3. Upto(k - 1 + 1)
    BY <2>2, <1>3
  <2>4. QED
    BY <2>1, <2>3
<1>5. QED
  BY <1>4 DEF Upto

\* A solution of the recursion may take any element out next.
LEMMA UnfoldedCommutes ==
    ASSUME NEW S, IsFiniteSet(S), NEW f \in [S -> Int], NEW it \in [SUBSET S -> Int],
           \A T \in SUBSET S : it[T] = Unfolded(f, it, T)
    PROVE  Tallies(it, f, S)
<1> DEFINE Bad == {T \in SUBSET S : \E x \in T : it[T] # f[x] + it[T \ {x}]}
<1>1. ASSUME NEW T \in Bad, \A U \in Bad : U \subseteq T => U = T
      PROVE  FALSE
  <2>1. T \in SUBSET S /\ \A U \in SUBSET T : U # T => U \notin Bad
    BY <1>1
  <2>2. PICK x \in T : it[T] # f[x] + it[T \ {x}]
    OBVIOUS
  <2>3. PICK c \in T : it[T] = f[c] + it[T \ {c}]
    <3>1. Chosen(T) \in T
      BY <2>2 DEF Chosen
    <3>2. QED
      BY <2>1, <3>1 DEF Unfolded
  <2>4. c # x
    BY <2>2, <2>3
  <2> DEFINE U == (T \ {c}) \ {x}
  <2>5. it[T \ {c}] = f[x] + it[U]
    <3>1. T \ {c} \notin Bad /\ x \in T \ {c}
      BY <2>1, <2>4
    <3>2. QED
      BY <3>1, <2>1
  <2>6. it[T \ {x}] = f[c] + it[U]
    <3>1. T \ {x} \notin Bad /\ c \in T \ {x} /\ (T \ {x}) \ {c} = U
      BY <2>1, <2>4
    <3>2. QED
      BY <3>1, <2>1
  <2>7. f[x] \in Int /\ f[c] \in Int /\ it[U] \in Int
    BY <2>1
  <2> HIDE DEF U, Bad
  <2>8. QED
    BY <2>2, <2>3, <2>5, <2>6, <2>7
<1>2. Bad = {}
  <2>1. Bad \in SUBSET SUBSET S
    OBVIOUS
  <2> HIDE DEF Bad
  <2>2. QED
    BY <1>1, <2>1, SmallestSubset
<1>3. it[{}] = 0
  BY DEF Unfolded
<1>4. QED
  BY <1>2, <1>3 DEF Tallies

\* What the library adds up is such a tally of the whole set.
LEMMA SumTallies ==
    ASSUME NEW S, IsFiniteSet(S), NEW f \in [S -> Int]
    PROVE  \E it : Tallies(it, f, S) /\ it[S] = SumFunction(f)
<1>1. PICK g \in [SUBSET S -> Int] : \A T \in SUBSET S : g[T] = Unfolded(f, g, T)
  <2> DEFINE n == Cardinality(S)
  <2>1. n \in Nat /\ \A T \in SUBSET S : Cardinality(T) <= n
    BY FS_Subset, FS_CardinalityType
  <2> HIDE DEF n
  <2>a. n \in Nat
    BY <2>1
  <2>b. Unfolds(f, S, n)
    BY <2>a, UnfoldedUpTo
  <2>2. PICK g \in [SUBSET S -> Int] :
            \A T \in SUBSET S : Cardinality(T) <= n => g[T] = Unfolded(f, g, T)
    BY <2>b DEF Unfolds
  <2>3. QED
    BY <2>1, <2>2
<1> DEFINE Body(it) == [s \in SUBSET S |->
                IF s = {} THEN 0
                ELSE f[CHOOSE x \in s : TRUE] + it[s \ {CHOOSE x \in s : TRUE}]]
           iter == CHOOSE it : it = Body(it)
<1>2. g = Body(g)
  BY <1>1 DEF Unfolded, Chosen
<1>3. iter = Body(iter)
  BY <1>2
<1>4. SumFunction(f) = iter[S]
  BY DEF SumFunction, SumFunctionOnSet, FoldFunctionOnSet, MapThenFoldSet
<1>5. PICK it : it = Body(it) /\ SumFunction(f) = it[S]
  <2> HIDE DEF iter
  <2>1. QED
    BY <1>3, <1>4
<1>6. \A T \in SUBSET S : it[T] = Unfolded(f, it, T)
  BY <1>5 DEF Unfolded, Chosen
<1>7. DOMAIN it = SUBSET S
  BY <1>5
<1> HIDE DEF Body
<1> DEFINE Bad == {T \in SUBSET S : it[T] \notin Int}
<1>8. ASSUME NEW T \in Bad, \A U \in Bad : U \subseteq T => U = T
      PROVE  FALSE
  <2>1. T \in SUBSET S /\ \A U \in SUBSET T : U # T => it[U] \in Int
    BY <1>8
  <2>2. CASE T = {}
    <3>1. it[T] = 0
      BY <1>6, <2>1, <2>2 DEF Unfolded
    <3>2. QED
      BY <3>1
  <2>3. CASE T # {}
    <3>1. Chosen(T) \in T
      BY <2>3 DEF Chosen
    <3>2. f[Chosen(T)] \in Int /\ it[T \ {Chosen(T)}] \in Int
      BY <2>1, <3>1
    <3>3. it[T] = f[Chosen(T)] + it[T \ {Chosen(T)}]
      BY <1>6, <2>1, <2>3 DEF Unfolded
    <3>4. QED
      BY <3>2, <3>3
  <2>4. QED
    BY <2>2, <2>3
<1>9. Bad = {}
  <2>1. Bad \in SUBSET SUBSET S
    OBVIOUS
  <2> HIDE DEF Bad
  <2>2. QED
    BY <1>8, <2>1, SmallestSubset
<1>10. it \in [SUBSET S -> Int]
  <2>1. \A T \in SUBSET S : it[T] \in Int
    BY <1>9
  <2>2. it = [T \in SUBSET S |-> it[T]]
    BY <1>5 DEF Body
  <2>3. QED
    BY <2>1, <2>2
<1>11. QED
  BY <1>5, <1>6, <1>10, UnfoldedCommutes

\* A tally of larger terms is larger.
LEMMA TalliesCompare ==
    ASSUME NEW S, IsFiniteSet(S), NEW f \in [S -> Int], NEW it, Tallies(it, f, S),
           NEW R, NEW g \in [R -> Int], NEW jt, Tallies(jt, g, R),
           S \subseteq R, \A x \in S : f[x] <= g[x]
    PROVE  it[S] <= jt[S]
<1> DEFINE Bad == {T \in SUBSET S : ~ (it[T] <= jt[T])}
<1>1. ASSUME NEW T \in Bad, \A U \in Bad : U \subseteq T => U = T
      PROVE  FALSE
  <2>1. T \in SUBSET S /\ T \in SUBSET R /\ \A U \in SUBSET T : U # T => it[U] <= jt[U]
    BY <1>1
  <2>2. CASE T = {}
    BY <2>2 DEF Tallies
  <2>3. ASSUME NEW x \in T
        PROVE  FALSE
    <3> DEFINE U == T \ {x}
    <3>1. it[T] = f[x] + it[U] /\ jt[T] = g[x] + jt[U]
      BY <2>1 DEF Tallies
    <3>2. it[U] <= jt[U] /\ f[x] <= g[x]
      BY <2>1
    <3>3. it[U] \in Int /\ jt[U] \in Int /\ f[x] \in Int /\ g[x] \in Int
      BY <2>1 DEF Tallies
    <3>4. ~ (it[T] <= jt[T])
      OBVIOUS
    <3> HIDE DEF U, Bad
    <3>5. QED
      BY <3>1, <3>2, <3>3, <3>4
  <2>4. QED
    BY <2>2, <2>3
<1>2. Bad = {}
  <2>1. Bad \in SUBSET SUBSET S
    OBVIOUS
  <2> HIDE DEF Bad
  <2>2. QED
    BY <1>1, <2>1, SmallestSubset
<1>3. QED
  BY <1>2

\* Sums grow with their terms.
LEMMA SumMonotone ==
    ASSUME NEW S, IsFiniteSet(S), NEW f \in [S -> Int], NEW g \in [S -> Int],
           \A x \in S : f[x] <= g[x]
    PROVE  SumFunction(f) <= SumFunction(g)
<1>1. PICK it : Tallies(it, f, S) /\ it[S] = SumFunction(f)
  BY SumTallies
<1>2. PICK jt : Tallies(jt, g, S) /\ jt[S] = SumFunction(g)
  BY SumTallies
<1>3. it[S] <= jt[S]
  BY <1>1, <1>2, TalliesCompare
<1>4. QED
  BY <1>1, <1>2, <1>3

\* A sum of integers is one.
LEMMA SumInt ==
    ASSUME NEW S, IsFiniteSet(S), NEW f \in [S -> Int]
    PROVE  SumFunction(f) \in Int
<1>1. PICK it : Tallies(it, f, S) /\ it[S] = SumFunction(f)
  BY SumTallies
<1>2. QED
  BY <1>1 DEF Tallies

\* A sum is any of its terms and the sum of the others.
LEMMA SumSplit ==
    ASSUME NEW S, IsFiniteSet(S), NEW f \in [S -> Int], NEW x \in S
    PROVE  SumFunction(f) = f[x] + SumFunction([y \in S \ {x} |-> f[y]])
<1> DEFINE R == S \ {x}
           g == [y \in R |-> f[y]]
<1>1. g \in [R -> Int] /\ \A y \in R : g[y] = f[y] /\ f[y] \in Int
  OBVIOUS
<1>2. IsFiniteSet(R) /\ R \in SUBSET S
  BY FS_RemoveElement
<1> HIDE DEF g
<1>3. PICK it : Tallies(it, f, S) /\ it[S] = SumFunction(f)
  BY SumTallies
<1>4. PICK jt : Tallies(jt, g, R) /\ jt[R] = SumFunction(g)
  BY <1>1, <1>2, SumTallies
<1>5. jt[R] <= it[R]
  BY <1>1, <1>2, <1>3, <1>4, TalliesCompare
<1> DEFINE kt == [T \in SUBSET R |-> it[T]]
<1>6. Tallies(kt, g, R)
  <2>1. kt \in [SUBSET R -> Int] /\ kt[{}] = 0
    BY <1>2, <1>3 DEF Tallies
  <2>2. ASSUME NEW T \in SUBSET R, NEW y \in T
        PROVE  kt[T] = g[y] + kt[T \ {y}]
    BY <1>1, <1>2, <1>3 DEF Tallies
  <2> HIDE DEF kt, R
  <2>3. QED
    BY <2>1, <2>2 DEF Tallies
<1>7. kt[R] <= jt[R]
  BY <1>1, <1>2, <1>4, <1>6, TalliesCompare
<1>8. it[R] = jt[R]
  <2>1. it[R] \in Int /\ jt[R] \in Int /\ kt[R] = it[R]
    BY <1>2, <1>3, <1>4 DEF Tallies
  <2> HIDE DEF kt
  <2>2. QED
    BY <1>5, <1>7, <2>1
<1>9. it[S] = f[x] + it[R]
  BY <1>3 DEF Tallies
<1>10. QED
  BY <1>3, <1>4, <1>8, <1>9 DEF g

\* Nothing adds up to nothing.
LEMMA SumZero ==
    ASSUME NEW S, IsFiniteSet(S), NEW f \in [S -> Int], \A x \in S : f[x] = 0
    PROVE  SumFunction(f) = 0
<1>1. PICK it : Tallies(it, f, S) /\ it[S] = SumFunction(f)
  BY SumTallies
<1> DEFINE jt == [T \in SUBSET S |-> 0]
<1>2. Tallies(jt, f, S)
  BY DEF Tallies
<1>3. S \in SUBSET S /\ jt[S] = 0
  OBVIOUS
<1> HIDE DEF jt
<1>4. it[S] <= jt[S] /\ jt[S] <= it[S]
  BY <1>1, <1>2, TalliesCompare
<1>5. it[S] \in Int
  BY <1>1, <1>3 DEF Tallies
<1>6. QED
  BY <1>1, <1>3, <1>4, <1>5

\* A sum of natural numbers is one.
LEMMA SumNat ==
    ASSUME NEW S, IsFiniteSet(S), NEW f \in [S -> Nat]
    PROVE  SumFunction(f) \in Nat
<1> DEFINE zero == [x \in S |-> 0]
<1>1. SumFunction(zero) = 0
  BY SumZero
<1>2. SumFunction(zero) <= SumFunction(f)
  BY SumMonotone
<1>3. SumFunction(f) \in Int
  BY SumInt
<1>4. QED
  BY <1>1, <1>2, <1>3

\* No term exceeds the sum.
LEMMA SumBound ==
    ASSUME NEW S, IsFiniteSet(S), NEW f \in [S -> Nat], NEW x \in S
    PROVE  f[x] <= SumFunction(f)
<1> DEFINE rest == [y \in S \ {x} |-> f[y]]
<1>1. SumFunction(rest) \in Nat
  BY SumNat, FS_RemoveElement
<1>2. SumFunction(f) = f[x] + SumFunction(rest)
  BY SumSplit
<1>3. QED
  BY <1>1, <1>2

\* A sum in which one term changes.
LEMMA SumChange ==
    ASSUME NEW S, IsFiniteSet(S), NEW f \in [S -> Int], NEW g \in [S -> Int],
           NEW x \in S, \A y \in S : y # x => g[y] = f[y]
    PROVE  SumFunction(g) = SumFunction(f) + g[x] - f[x]
<1> DEFINE rest(h) == [y \in S \ {x} |-> h[y]]
<1>1. rest(f) = rest(g)
  OBVIOUS
<1>2. SumFunction(f) = f[x] + SumFunction(rest(f)) /\ SumFunction(g) = g[x] + SumFunction(rest(g))
  BY SumSplit
<1>3. SumFunction(rest(f)) \in Int
  BY SumInt, FS_RemoveElement
<1>4. f[x] \in Int /\ g[x] \in Int
  OBVIOUS
<1> HIDE DEF rest
<1>5. QED
  BY <1>1, <1>2, <1>3, <1>4

\* A sum over a part is a sum over the whole in which the rest counts nothing.
LEMMA SumPart ==
    ASSUME NEW S, IsFiniteSet(S), NEW T \in SUBSET S, NEW f \in [S -> Int]
    PROVE  SumFunction([x \in T |-> f[x]]) =
               SumFunction([x \in S |-> IF x \in T THEN f[x] ELSE 0])
<1> DEFINE part == [x \in T |-> f[x]]
           g == [x \in S |-> IF x \in T THEN f[x] ELSE 0]
<1>1. /\ part \in [T -> Int] /\ g \in [S -> Int] /\ IsFiniteSet(T)
      /\ \A x \in S : g[x] = IF x \in T THEN part[x] ELSE 0
  BY FS_Subset
<1> HIDE DEF part, g
<1>2. PICK it : Tallies(it, g, S) /\ it[S] = SumFunction(g)
  BY <1>1, SumTallies
<1>3. PICK jt : Tallies(jt, part, T) /\ jt[T] = SumFunction(part)
  BY <1>1, SumTallies
<1> DEFINE kt == [R \in SUBSET S |-> jt[R \cap T]]
<1>4. Tallies(kt, g, S)
  <2>1. kt \in [SUBSET S -> Int] /\ kt[{}] = 0
    <3>1. \A R \in SUBSET S : R \cap T \in SUBSET T
      OBVIOUS
    <3>2. {} \cap T = {}
      OBVIOUS
    <3>3. QED
      BY <1>3, <3>1, <3>2 DEF Tallies
  <2>2. ASSUME NEW R \in SUBSET S, NEW y \in R
        PROVE  kt[R] = g[y] + kt[R \ {y}]
    <3>1. /\ R \cap T \in SUBSET T /\ (R \ {y}) \cap T \in SUBSET T /\ y \in S
          /\ kt[R] = jt[R \cap T] /\ kt[R \ {y}] = jt[(R \ {y}) \cap T]
      OBVIOUS
    <3>2. jt[R \cap T] \in Int
      BY <1>3, <3>1 DEF Tallies
    <3> HIDE DEF kt
    <3>3. CASE y \in T
      <4>1. (R \ {y}) \cap T = (R \cap T) \ {y} /\ y \in R \cap T
        BY <3>3
      <4>2. jt[R \cap T] = part[y] + jt[(R \cap T) \ {y}]
        BY <1>3, <3>1, <4>1 DEF Tallies
      <4>3. QED
        BY <1>1, <3>1, <3>3, <4>1, <4>2
    <3>4. CASE y \notin T
      <4>1. (R \ {y}) \cap T = R \cap T
        BY <3>4
      <4>2. g[y] = 0
        BY <1>1, <3>1, <3>4
      <4>3. kt[R \ {y}] = jt[R \cap T] /\ kt[R] = jt[R \cap T]
        BY <3>1, <4>1
      <4>4. QED
        BY <3>2, <4>2, <4>3
    <3>5. QED
      BY <3>3, <3>4
  <2> HIDE DEF kt
  <2>3. QED
    BY <2>1, <2>2 DEF Tallies
<1>5. kt[S] = jt[T]
  <2>1. S \cap T = T /\ S \in SUBSET S
    OBVIOUS
  <2>2. QED
    BY <2>1
<1> HIDE DEF kt
<1>6. it[S] <= kt[S] /\ kt[S] <= it[S]
  BY <1>1, <1>2, <1>4, TalliesCompare
<1>7. it[S] \in Int /\ kt[S] \in Int
  BY <1>2, <1>4 DEF Tallies
<1>8. SumFunction(part) = SumFunction(g)
  BY <1>2, <1>3, <1>5, <1>6, <1>7
<1>9. QED
  BY <1>8 DEF part, g

-----------------------------------------------------------------------------
(* Receipts: balances by owner and by a pair of an asset and a recipient. *)

\* c is b but for one entry of one row.
DifferAt(b, c, X, Y, x, y) == \A h \in X, k \in Y : h # x \/ k # y => c[h][k] = b[h][k]

ReceiptsOf(O, T, R) == [O -> [T \X R -> Nat]]

\* The balances in one asset, and their sum.
ReceiptsOn(b, asset, O, R) == [p \in O \X R |-> b[p[1]][<<asset, p[2]>>]]

SumOn(b, asset, O, R) == SumFunction(ReceiptsOn(b, asset, O, R))

LEMMA ReceiptsOnTyped ==
    ASSUME NEW O, NEW T, NEW R, NEW b \in ReceiptsOf(O, T, R), NEW asset \in T
    PROVE  ReceiptsOn(b, asset, O, R) \in [O \X R -> Nat]
<1>1. ASSUME NEW p \in O \X R PROVE b[p[1]][<<asset, p[2]>>] \in Nat
  BY DEF ReceiptsOf
<1> QED
  BY <1>1 DEF ReceiptsOn

LEMMA SumOnNat ==
    ASSUME NEW O, NEW T, NEW R, IsFiniteSet(O), IsFiniteSet(R),
           NEW b \in ReceiptsOf(O, T, R), NEW asset \in T
    PROVE  SumOn(b, asset, O, R) \in Nat
<1>1. IsFiniteSet(O \X R)
  BY FS_Product
<1> QED
  BY <1>1, ReceiptsOnTyped, SumNat DEF SumOn

LEMMA SumOnZero ==
    ASSUME NEW O, NEW T, NEW R, IsFiniteSet(O), IsFiniteSet(R),
           NEW b \in ReceiptsOf(O, T, R), NEW asset \in T,
           \A o \in O, l \in T \X R : b[o][l] = 0
    PROVE  SumOn(b, asset, O, R) = 0
<1>1. IsFiniteSet(O \X R)
  BY FS_Product
<1>2. /\ ReceiptsOn(b, asset, O, R) \in [O \X R -> Int]
      /\ \A p \in O \X R : ReceiptsOn(b, asset, O, R)[p] = 0
  BY ReceiptsOnTyped DEF ReceiptsOn
<1> QED
  BY <1>1, <1>2, SumZero DEF SumOn

\* Changing one owner's receipts of a pair changes the sum in the pair's asset by as
\* much, and in no other.
LEMMA SumOnAfter ==
    ASSUME NEW O, NEW T, NEW R, IsFiniteSet(O), IsFiniteSet(R),
           NEW b \in ReceiptsOf(O, T, R), NEW c \in ReceiptsOf(O, T, R),
           NEW o \in O, NEW l \in T \X R, NEW asset \in T,
           DifferAt(b, c, O, T \X R, o, l)
    PROVE  /\ l[1] = asset =>
                  SumOn(c, asset, O, R) = SumOn(b, asset, O, R) + c[o][l] - b[o][l]
           /\ l[1] # asset => SumOn(c, asset, O, R) = SumOn(b, asset, O, R)
<1>a. PICK p : p = <<o, l[2]>>
  OBVIOUS
<1>1. /\ l = <<l[1], l[2]>> /\ l[1] \in T /\ l[2] \in R
      /\ p \in O \X R /\ p[1] = o /\ p[2] = l[2]
  BY <1>a
<1>b. PICK f : f = ReceiptsOn(b, asset, O, R)
  OBVIOUS
<1>c. PICK g : g = ReceiptsOn(c, asset, O, R)
  OBVIOUS
<1>2. f \in [O \X R -> Nat] /\ g \in [O \X R -> Nat]
  BY <1>b, <1>c, ReceiptsOnTyped
<1>3. f[p] = b[o][<<asset, l[2]>>] /\ g[p] = c[o][<<asset, l[2]>>]
  BY <1>1, <1>b, <1>c DEF ReceiptsOn
<1>4. ASSUME NEW q \in O \X R, q # p PROVE g[q] = f[q]
  <2>1. q[1] \in O /\ <<asset, q[2]>> \in T \X R /\ q = <<q[1], q[2]>>
    OBVIOUS
  <2>2. q[1] # o \/ <<asset, q[2]>> # l
    BY <1>a, <1>1, <1>4, <2>1
  <2>3. c[q[1]][<<asset, q[2]>>] = b[q[1]][<<asset, q[2]>>]
    BY <2>1, <2>2 DEF DifferAt
  <2> QED
    BY <1>b, <1>c, <2>3 DEF ReceiptsOn
<1>5. IsFiniteSet(O \X R)
  BY FS_Product
<1>6. SumFunction(g) = SumFunction(f) + g[p] - f[p]
  BY <1>1, <1>2, <1>4, <1>5, SumChange
<1>7. SumOn(b, asset, O, R) = SumFunction(f) /\ SumOn(c, asset, O, R) = SumFunction(g)
  BY <1>b, <1>c DEF SumOn
<1>8. CASE l[1] = asset
  BY <1>1, <1>3, <1>6, <1>7, <1>8
<1>9. CASE l[1] # asset
  <2>1. <<asset, l[2]>> # l /\ <<asset, l[2]>> \in T \X R
    BY <1>1, <1>9
  <2>2. g[p] = f[p]
    BY <1>3, <2>1 DEF DifferAt
  <2>3. SumFunction(f) \in Nat /\ f[p] \in Nat
    BY <1>1, <1>2, <1>5, SumNat
  <2> QED
    BY <1>6, <1>7, <1>9, <2>2, <2>3
<1> QED
  BY <1>8, <1>9

=============================================================================
