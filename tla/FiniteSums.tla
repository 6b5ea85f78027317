------------------------------ MODULE FiniteSums ------------------------------
(***************************************************************************)
(* Induction over numbers and finite sets, and sums over finite sets, as   *)
(* the other proofs need them: the sums for the bounds of RateLimiter.     *)
(*                                                                         *)
(* The induction theorems of the library speak of every predicate; these   *)
(* speak of every set, and follow from the least element of a set.         *)
(***************************************************************************)
EXTENDS Integers, FiniteSets, Functions, FiniteSetTheorems, WellFoundedInduction, TLAPS

-----------------------------------------------------------------------------
(* Induction *)

LEMMA LeastNumber ==
    ASSUME NEW T, T \subseteq Nat, T # {}
    PROVE  \E x \in T : \A y \in T : x <= y
<1>1. IsWellFoundedOn(OpToRel(<, Nat), Nat)
    BY NatLessThanWellFounded
<1>2. PICK x \in T : \A y \in T : ~ (<<y, x>> \in OpToRel(<, Nat))
    BY <1>1, WFMin
<1>3. \A y \in T : ~ (y < x)
    BY <1>2 DEF OpToRel
<1>4. \A y \in T : y \in Nat
    OBVIOUS
<1> QED
    <2>1. \A y \in T : x <= y
        BY <1>3, <1>4
    <2> QED
        BY <2>1

\* A set that has 0 and, with every number, its successor has all numbers.
LEMMA NumberInduction ==
    ASSUME NEW G, 0 \in G, \A n \in Nat : n \in G => n + 1 \in G
    PROVE  \A n \in Nat : n \in G
<1> SUFFICES ASSUME NEW m \in Nat, m \notin G PROVE FALSE
    OBVIOUS
<1> DEFINE T == {n \in Nat : n \notin G}
<1>1. T \subseteq Nat /\ T # {}
    OBVIOUS
<1>2. PICK x \in T : \A y \in T : x <= y
    BY <1>1, LeastNumber
<1>3. x \in Nat /\ x # 0
    BY <1>2
<1>4. x - 1 \in Nat /\ x - 1 < x
    BY <1>3
<1>5. x - 1 \in G
    <2> SUFFICES ASSUME x - 1 \notin G PROVE FALSE
        OBVIOUS
    <2>1. x - 1 \in T
        BY <1>4
    <2>2. x <= x - 1
        BY <1>2, <2>1
    <2> QED
        BY <1>3, <2>2
<1>6. (x - 1) + 1 \in G
    BY <1>4, <1>5
<1>7. (x - 1) + 1 = x
    BY <1>3
<1> QED
    BY <1>2, <1>6, <1>7

\* A set of sets that has the empty one and every other from which each smaller
\* set, without one of its elements, is in it.
LEMMA SetInduction ==
    ASSUME NEW S, IsFiniteSet(S), NEW G, {} \in G,
           \A T \in SUBSET S : T # {} /\ (\A x \in T : T \ {x} \in G) => T \in G
    PROVE  \A T \in SUBSET S : T \in G
<1> DEFINE K == {n \in Nat : \A T \in SUBSET S : Cardinality(T) = n => T \in G}
<1>1. ASSUME NEW T \in SUBSET S
      PROVE  IsFiniteSet(T) /\ Cardinality(T) \in Nat /\ (Cardinality(T) = 0 <=> T = {})
    BY FS_Subset, FS_CardinalityType, FS_EmptySet
<1>2. 0 \in K
    BY <1>1
<1>3. ASSUME NEW n \in Nat, n \in K, NEW T \in SUBSET S, Cardinality(T) = n + 1
      PROVE  T \in G
    <2>1. T # {}
        BY <1>1, <1>3
    <2>2. ASSUME NEW x \in T PROVE T \ {x} \in G
        <3>1. Cardinality(T \ {x}) = Cardinality(T) - 1
            BY <1>1, FS_RemoveElement
        <3>2. Cardinality(T \ {x}) = n
            BY <1>3, <3>1
        <3> QED
            BY <1>3, <3>2
    <2> QED
        BY <2>1, <2>2
<1>4. \A n \in Nat : n \in K => n + 1 \in K
    BY <1>3
<1> HIDE DEF K
<1>5. \A n \in Nat : n \in K
    BY <1>2, <1>4, NumberInduction
<1> QED
    BY <1>1, <1>5 DEF K

-----------------------------------------------------------------------------
(* What the sums of the library compute *)

Picked(T) == CHOOSE x \in T : TRUE

\* g is the sum of f over each set of D, one picked element after another.
Follows(g, f, D) ==
    g = [T \in D |-> IF T = {} THEN 0 ELSE f[Picked(T)] + g[T \ {Picked(T)}]]

LEMMA SumUnfolds ==
    ASSUME NEW f, NEW S
    PROVE  FoldFunctionOnSet(+, 0, f, S) = (CHOOSE g : Follows(g, f, SUBSET S))[S]
BY DEF FoldFunctionOnSet, MapThenFoldSet, Follows, Picked

Small(S, n) == {T \in SUBSET S : Cardinality(T) <= n}

LEMMA PickedIn ==
    ASSUME NEW S, IsFiniteSet(S), NEW T \in SUBSET S, T # {}
    PROVE  /\ Picked(T) \in T /\ Picked(T) \in S /\ T \ {Picked(T)} \in SUBSET S
           /\ \A n \in Nat : T \in Small(S, n + 1) => T \ {Picked(T)} \in Small(S, n)
<1>1. Picked(T) \in T
    BY DEF Picked
<1>2. IsFiniteSet(T) /\ Cardinality(T) \in Nat
    BY FS_Subset, FS_CardinalityType
<1>3. Cardinality(T \ {Picked(T)}) = Cardinality(T) - 1
    BY <1>1, <1>2, FS_RemoveElement
<1> QED
    BY <1>1, <1>2, <1>3 DEF Small

\* There is such a function: one for the sets of at most n elements gives one for
\* those of one more.
LEMMA SumDefined ==
    ASSUME NEW S, IsFiniteSet(S), NEW f \in [S -> Nat]
    PROVE  \E g : Follows(g, f, SUBSET S)
<1> DEFINE K == {n \in Nat : \E g \in [Small(S, n) -> Nat] : Follows(g, f, Small(S, n))}
<1>1. 0 \in K
    <2> DEFINE z == [T \in Small(S, 0) |-> 0]
    <2>1. \A T \in Small(S, 0) : T = {}
        BY FS_Subset, FS_CardinalityType, FS_EmptySet DEF Small
    <2>2. z \in [Small(S, 0) -> Nat] /\ Follows(z, f, Small(S, 0))
        BY <2>1 DEF Follows
    <2> QED
        BY <2>2
<1>2. ASSUME NEW n \in Nat, n \in K PROVE n + 1 \in K
    <2>1. PICK g \in [Small(S, n) -> Nat] : Follows(g, f, Small(S, n))
        BY <1>2
    <2> DEFINE h == [T \in Small(S, n + 1) |-> IF T = {} THEN 0 ELSE f[Picked(T)] + g[T \ {Picked(T)}]]
    <2>2. ASSUME NEW T \in Small(S, n + 1), T # {}
          PROVE  /\ f[Picked(T)] \in Nat /\ T \ {Picked(T)} \in Small(S, n)
                 /\ h[T] = f[Picked(T)] + g[T \ {Picked(T)}]
        BY <2>2, PickedIn DEF Small
    <2>3. h \in [Small(S, n + 1) -> Nat]
        BY <2>1, <2>2
    <2>4. ASSUME NEW T \in Small(S, n) PROVE h[T] = g[T]
        <3>1. T \in Small(S, n + 1)
            BY FS_Subset, FS_CardinalityType DEF Small
        <3>2. g[T] = IF T = {} THEN 0 ELSE f[Picked(T)] + g[T \ {Picked(T)}]
            BY <2>1 DEF Follows
        <3> QED
            BY <3>1, <3>2
    <2>5. \A T \in Small(S, n + 1) :
              h[T] = IF T = {} THEN 0 ELSE f[Picked(T)] + h[T \ {Picked(T)}]
        BY <2>2, <2>4
    <2>6. h = [T \in Small(S, n + 1) |-> h[T]]
        OBVIOUS
    <2> HIDE DEF h
    <2>7. Follows(h, f, Small(S, n + 1))
        BY <2>5, <2>6 DEF Follows
    <2> QED
        BY <2>3, <2>7
<1> HIDE DEF K
<1>3. Cardinality(S) \in Nat /\ Cardinality(S) \in K
    BY <1>1, <1>2, NumberInduction, FS_CardinalityType
<1>4. Small(S, Cardinality(S)) = SUBSET S
    BY FS_Subset DEF Small
<1> QED
    BY <1>3, <1>4 DEF K

\* The sum over the subsets of S, by whichever element is taken first.
Sums(g, f, S) ==
    /\ g \in [SUBSET S -> Nat]
    /\ g[{}] = 0
    /\ \A T \in SUBSET S : \A x \in T : g[T] = f[x] + g[T \ {x}]

LEMMA SumExists ==
    ASSUME NEW S, IsFiniteSet(S), NEW f \in [S -> Nat]
    PROVE  \E g : Sums(g, f, S) /\ g[S] = FoldFunctionOnSet(+, 0, f, S)
<1> DEFINE g == CHOOSE e : Follows(e, f, SUBSET S)
<1>1. Follows(g, f, SUBSET S)
    BY SumDefined
<1>2. g[S] = FoldFunctionOnSet(+, 0, f, S)
    BY SumUnfolds
<1> HIDE DEF g
<1>3. /\ g[{}] = 0
      /\ \A T \in SUBSET S : T # {} => g[T] = f[Picked(T)] + g[T \ {Picked(T)}]
    BY <1>1 DEF Follows
<1>4. \A T \in SUBSET S : g[T] \in Nat
    <2> DEFINE G == {T \in SUBSET S : g[T] \in Nat}
    <2>1. {} \in G
        BY <1>3
    <2>2. ASSUME NEW T \in SUBSET S, T # {}, \A x \in T : T \ {x} \in G PROVE T \in G
        <3>1. f[Picked(T)] \in Nat /\ g[T \ {Picked(T)}] \in Nat
            BY <2>2, PickedIn
        <3>2. g[T] = f[Picked(T)] + g[T \ {Picked(T)}]
            BY <1>3, <2>2
        <3>3. g[T] \in Nat
            BY <3>1, <3>2
        <3> QED
            BY <3>3
    <2> HIDE DEF G
    <2>3. \A T \in SUBSET S : T \in G
        BY <2>1, <2>2, SetInduction
    <2> QED
        BY <2>3 DEF G
<1>5. \A T \in SUBSET S : \A x \in T : g[T] = f[x] + g[T \ {x}]
    <2> DEFINE G == {T \in SUBSET S : \A x \in T : g[T] = f[x] + g[T \ {x}]}
    <2>1. {} \in G
        OBVIOUS
    <2>2. ASSUME NEW T \in SUBSET S, T # {}, \A x \in T : T \ {x} \in G, NEW x \in T
          PROVE  g[T] = f[x] + g[T \ {x}]
        <3> DEFINE p == Picked(T)
        <3>1. p \in T /\ g[T] = f[p] + g[T \ {p}]
            BY <1>3, <2>2, PickedIn
        <3> HIDE DEF p
        <3>2. CASE x = p
            BY <3>1, <3>2
        <3>3. CASE x # p
            <4> DEFINE rest == (T \ {p}) \ {x}
            <4>1. T \ {p} \in G /\ x \in T \ {p} /\ T \ {x} \in G /\ p \in T \ {x}
                BY <2>2, <3>1, <3>3
            <4>2. g[T \ {p}] = f[x] + g[rest]
                BY <4>1
            <4>3. (T \ {x}) \ {p} = rest /\ rest \in SUBSET S
                OBVIOUS
            <4>4. g[T \ {x}] = f[p] + g[rest]
                BY <4>1, <4>3
            <4>5. f[x] \in Nat /\ f[p] \in Nat /\ g[rest] \in Nat
                BY <1>4, <3>1, <4>3
            <4> HIDE DEF rest
            <4> QED
                BY <3>1, <4>2, <4>4, <4>5
        <3> QED
            BY <3>2, <3>3
    <2>3. \A T \in SUBSET S : T # {} /\ (\A x \in T : T \ {x} \in G) => T \in G
        BY <2>2
    <2> HIDE DEF G
    <2>4. \A T \in SUBSET S : T \in G
        BY <2>1, <2>3, SetInduction
    <2> QED
        BY <2>4 DEF G
<1>6. g \in [SUBSET S -> Nat]
    BY <1>1, <1>4 DEF Follows
<1> QED
    BY <1>2, <1>3, <1>5, <1>6 DEF Sums

-----------------------------------------------------------------------------
(* Sums of whole functions *)

SumOf(f) == FoldFunction(+, 0, f)

LEMMA SumIs ==
    ASSUME NEW S, IsFiniteSet(S), NEW f \in [S -> Nat]
    PROVE  \E g : Sums(g, f, S) /\ g[S] = SumOf(f)
<1>1. DOMAIN f = S
    OBVIOUS
<1> QED
    BY <1>1, SumExists DEF SumOf, FoldFunction

LEMMA SumType ==
    ASSUME NEW S, IsFiniteSet(S), NEW f \in [S -> Nat]
    PROVE  SumOf(f) \in Nat
<1>1. PICK g : Sums(g, f, S) /\ g[S] = SumOf(f)
    BY SumIs
<1>2. g \in [SUBSET S -> Nat] /\ S \in SUBSET S
    BY <1>1 DEF Sums
<1> QED
    BY <1>1, <1>2

\* A sum over a subset, and the same for two functions of which one is larger.
LEMMA SumsMonotone ==
    ASSUME NEW S, IsFiniteSet(S), NEW T \in SUBSET S, NEW f \in [S -> Nat], NEW h \in [S -> Nat],
           \A x \in T : f[x] <= h[x],
           NEW gf, Sums(gf, f, S), NEW gh, Sums(gh, h, S)
    PROVE  gf[T] <= gh[T]
<1> DEFINE G == {U \in SUBSET T : gf[U] <= gh[U]}
<1>1. {} \in G
    BY DEF Sums
<1>2. ASSUME NEW U \in SUBSET T, U # {}, \A x \in U : U \ {x} \in G
      PROVE  gf[U] <= gh[U]
    <2>1. PICK x \in U : TRUE
        BY <1>2
    <2>2. U \ {x} \in G /\ U \ {x} \in SUBSET S /\ U \in SUBSET S
        BY <1>2
    <2>3. /\ gf[U] = f[x] + gf[U \ {x}] /\ gh[U] = h[x] + gh[U \ {x}]
          /\ gf[U \ {x}] \in Nat /\ gh[U \ {x}] \in Nat
        BY <2>2 DEF Sums
    <2>4. f[x] \in Nat /\ h[x] \in Nat /\ f[x] <= h[x] /\ gf[U \ {x}] <= gh[U \ {x}]
        BY <2>2
    <2> QED
        BY <2>3, <2>4
<1>3. \A U \in SUBSET T : U # {} /\ (\A x \in U : U \ {x} \in G) => U \in G
    BY <1>2
<1>4. IsFiniteSet(T)
    BY FS_Subset
<1> HIDE DEF G
<1>5. \A U \in SUBSET T : U \in G
    BY <1>1, <1>3, <1>4, SetInduction
<1> QED
    BY <1>5 DEF G

LEMMA SumMonotone ==
    ASSUME NEW S, IsFiniteSet(S), NEW f \in [S -> Nat], NEW h \in [S -> Nat],
           \A x \in S : f[x] <= h[x]
    PROVE  SumOf(f) <= SumOf(h)
<1>1. PICK gf : Sums(gf, f, S) /\ gf[S] = SumOf(f)
    BY SumIs
<1>2. PICK gh : Sums(gh, h, S) /\ gh[S] = SumOf(h)
    BY SumIs
<1>3. S \in SUBSET S
    OBVIOUS
<1>4. gf[S] <= gh[S]
    BY <1>1, <1>2, <1>3, SumsMonotone
<1> QED
    BY <1>1, <1>2, <1>4

\* Adding n to one value adds n to the sum.
LEMMA SumAdds ==
    ASSUME NEW S, IsFiniteSet(S), NEW f \in [S -> Nat], NEW x \in S, NEW n \in Nat,
           NEW h \in [S -> Nat], h[x] = f[x] + n, \A y \in S \ {x} : h[y] = f[y]
    PROVE  SumOf(h) = SumOf(f) + n
<1>1. PICK gf : Sums(gf, f, S) /\ gf[S] = SumOf(f)
    BY SumIs
<1>2. PICK gh : Sums(gh, h, S) /\ gh[S] = SumOf(h)
    BY SumIs
<1>3. S \ {x} \in SUBSET S /\ S \in SUBSET S
    OBVIOUS
<1>4. gf[S] = f[x] + gf[S \ {x}] /\ gh[S] = h[x] + gh[S \ {x}]
      /\ gf[S \ {x}] \in Nat /\ gh[S \ {x}] \in Nat
    BY <1>1, <1>2, <1>3 DEF Sums
<1>5. (\A y \in S \ {x} : f[y] <= h[y]) /\ (\A y \in S \ {x} : h[y] <= f[y])
    OBVIOUS
<1>6. gf[S \ {x}] <= gh[S \ {x}]
    BY <1>1, <1>2, <1>3, <1>5, SumsMonotone
<1>7. gh[S \ {x}] <= gf[S \ {x}]
    BY <1>1, <1>2, <1>3, <1>5, SumsMonotone
<1>8. f[x] \in Nat
    OBVIOUS
<1> QED
    BY <1>1, <1>2, <1>4, <1>6, <1>7, <1>8

LEMMA SumOfZeros ==
    ASSUME NEW S, IsFiniteSet(S), NEW f \in [S -> Nat], \A x \in S : f[x] = 0
    PROVE  SumOf(f) = 0
<1>1. PICK g : Sums(g, f, S) /\ g[S] = SumOf(f)
    BY SumIs
<1> DEFINE G == {T \in SUBSET S : g[T] = 0}
<1>2. {} \in G
    BY <1>1 DEF Sums
<1>3. ASSUME NEW T \in SUBSET S, T # {}, \A x \in T : T \ {x} \in G PROVE T \in G
    <2>1. PICK x \in T : TRUE
        BY <1>3
    <2>2. g[T] = f[x] + g[T \ {x}] /\ f[x] = 0 /\ g[T \ {x}] = 0
        BY <1>1, <1>3, <2>1 DEF Sums
    <2>3. g[T] = 0
        BY <2>2
    <2> QED
        BY <2>3
<1> HIDE DEF G
<1>4. \A T \in SUBSET S : T \in G
    BY <1>2, <1>3, SetInduction
<1>5. S \in G
    BY <1>4
<1> QED
    BY <1>1, <1>5 DEF G

\* The sum of the sums of two functions.
LEMMA SumPlus ==
    ASSUME NEW S, IsFiniteSet(S), NEW f \in [S -> Nat], NEW e \in [S -> Nat], NEW h \in [S -> Nat],
           \A x \in S : h[x] = f[x] + e[x]
    PROVE  SumOf(h) = SumOf(f) + SumOf(e)
<1>1. PICK gf : Sums(gf, f, S) /\ gf[S] = SumOf(f)
    BY SumIs
<1>2. PICK ge : Sums(ge, e, S) /\ ge[S] = SumOf(e)
    BY SumIs
<1>3. PICK gh : Sums(gh, h, S) /\ gh[S] = SumOf(h)
    BY SumIs
<1> DEFINE G == {T \in SUBSET S : gh[T] = gf[T] + ge[T]}
<1>4. {} \in G
    BY <1>1, <1>2, <1>3 DEF Sums
<1>5. ASSUME NEW T \in SUBSET S, T # {}, \A x \in T : T \ {x} \in G PROVE T \in G
    <2>1. PICK x \in T : TRUE
        BY <1>5
    <2>2. T \ {x} \in SUBSET S /\ gh[T \ {x}] = gf[T \ {x}] + ge[T \ {x}]
        BY <1>5
    <2>3. /\ gh[T] = h[x] + gh[T \ {x}] /\ gf[T] = f[x] + gf[T \ {x}] /\ ge[T] = e[x] + ge[T \ {x}]
          /\ gf[T \ {x}] \in Nat /\ ge[T \ {x}] \in Nat
        BY <1>1, <1>2, <1>3, <2>2 DEF Sums
    <2>4. h[x] = f[x] + e[x] /\ f[x] \in Nat /\ e[x] \in Nat
        OBVIOUS
    <2>5. gh[T] = gf[T] + ge[T]
        BY <2>2, <2>3, <2>4
    <2> QED
        BY <2>5
<1> HIDE DEF G
<1>6. \A T \in SUBSET S : T \in G
    BY <1>4, <1>5, SetInduction
<1>7. S \in G
    BY <1>6
<1> QED
    BY <1>1, <1>2, <1>3, <1>7 DEF G

\* No value is larger than the sum.
LEMMA SumAbove ==
    ASSUME NEW S, IsFiniteSet(S), NEW f \in [S -> Nat], NEW x \in S
    PROVE  f[x] <= SumOf(f)
<1>1. PICK g : Sums(g, f, S) /\ g[S] = SumOf(f)
    BY SumIs
<1>2. g[S] = f[x] + g[S \ {x}] /\ g[S \ {x}] \in Nat
    BY <1>1 DEF Sums
<1>3. f[x] \in Nat
    OBVIOUS
<1> QED
    BY <1>1, <1>2, <1>3
===============================================================================
