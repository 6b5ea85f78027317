---------------------------- MODULE IngestionProofs ----------------------------
(***************************************************************************)
(* What storing messages guarantees for any messages, batches, storages    *)
(* and overlapping calls, with every error: no call whose session survived *)
(* loses a message, and none stores one twice or counts what is not there. *)
(***************************************************************************)
EXTENDS Ingestion, FiniteSums

-----------------------------------------------------------------------------
(* Filtered sequences *)

Ranged(s, n) == {s[i] : i \in 1..n}

\* One sequence for each prefix of s: its messages that are in S.
Filters(g, s, S) ==
    g = [n \in 0..Len(s) |->
            IF n = 0 THEN <<>>
            ELSE IF s[n] \in S THEN Append(g[n - 1], s[n]) ELSE g[n - 1]]

LEMMA OnlyUnfolds ==
    ASSUME NEW s, NEW S
    PROVE  Only(s, S) = (CHOOSE g : Filters(g, s, S))[Len(s)]
BY DEF Only, Filters

\* The function is there for the first m prefixes.
FiltersTo(g, s, S, m) ==
    g = [n \in 0..m |->
            IF n = 0 THEN <<>>
            ELSE IF s[n] \in S THEN Append(g[n - 1], s[n]) ELSE g[n - 1]]

LEMMA FiltersDefined ==
    ASSUME NEW T, NEW s \in Seq(T), NEW S
    PROVE  \E g : Filters(g, s, S)
<1> DEFINE K == {m \in Nat : \E g : FiltersTo(g, s, S, m)}
<1>1. 0 \in K
    <2> DEFINE g == [n \in 0..0 |-> <<>>]
    <2>1. \A n \in 0..0 : n = 0
        OBVIOUS
    <2>2. FiltersTo(g, s, S, 0)
        BY <2>1 DEF FiltersTo
    <2> QED
        BY <2>2
<1>2. ASSUME NEW m \in Nat, m \in K PROVE m + 1 \in K
    <2>1. PICK g : FiltersTo(g, s, S, m)
        BY <1>2
    <2> DEFINE h == [n \in 0..(m + 1) |->
                        IF n = 0 THEN <<>>
                        ELSE IF s[n] \in S THEN Append(g[n - 1], s[n]) ELSE g[n - 1]]
    <2>2. ASSUME NEW n \in 0..m PROVE h[n] = g[n]
        <3>1. n \in 0..(m + 1)
            OBVIOUS
        <3>2. g[n] = IF n = 0 THEN <<>>
                     ELSE IF s[n] \in S THEN Append(g[n - 1], s[n]) ELSE g[n - 1]
            BY <2>1, Zenon DEF FiltersTo
        <3>3. h[n] = IF n = 0 THEN <<>>
                     ELSE IF s[n] \in S THEN Append(g[n - 1], s[n]) ELSE g[n - 1]
            BY <3>1, Zenon
        <3> QED
            BY <3>2, <3>3, Zenon
    <2>3. \A n \in 0..(m + 1) : n # 0 => n - 1 \in 0..m
        OBVIOUS
    <2>4. \A n \in 0..(m + 1) :
              h[n] = IF n = 0 THEN <<>>
                     ELSE IF s[n] \in S THEN Append(h[n - 1], s[n]) ELSE h[n - 1]
        BY <2>2, <2>3
    <2>5. h = [n \in 0..(m + 1) |-> h[n]]
        OBVIOUS
    <2> HIDE DEF h
    <2>6. FiltersTo(h, s, S, m + 1)
        BY <2>4, <2>5 DEF FiltersTo
    <2> QED
        BY <2>6
<1> HIDE DEF K
<1>3. Len(s) \in K
    BY <1>1, <1>2, NumberInduction
<1> QED
    BY <1>3 DEF K, Filters, FiltersTo

LEMMA OnlyFacts ==
    ASSUME NEW T, NEW s \in Seq(T), NEW S
    PROVE  /\ Only(s, S) \in Seq(T)
           /\ Range(Only(s, S)) = Range(s) \cap S
           /\ IsInjective(s) => IsInjective(Only(s, S))
<1> DEFINE g == CHOOSE e : Filters(e, s, S)
<1>1. Filters(g, s, S)
    BY FiltersDefined
<1>2. Only(s, S) = g[Len(s)]
    BY OnlyUnfolds
<1> HIDE DEF g
<1>3. /\ g[0] = <<>>
      /\ \A n \in 1..Len(s) : g[n] = IF s[n] \in S THEN Append(g[n - 1], s[n]) ELSE g[n - 1]
    <2>1. \A n \in 0..Len(s) :
              g[n] = IF n = 0 THEN <<>>
                     ELSE IF s[n] \in S THEN Append(g[n - 1], s[n]) ELSE g[n - 1]
        BY <1>1, Zenon DEF Filters
    <2>2. 0 \in 0..Len(s) /\ \A n \in 1..Len(s) : n \in 0..Len(s) /\ n # 0
        OBVIOUS
    <2> QED
        BY <2>1, <2>2, Zenon
<1> DEFINE Right(n) == /\ g[n] \in Seq(T)
                       /\ Range(g[n]) = Ranged(s, n) \cap S
                       /\ IsInjective(s) => IsInjective(g[n])
           K == {n \in Nat : n <= Len(s) => Right(n)}
<1>4. 0 \in K
    <2>1. Ranged(s, 0) = {} /\ Range(<<>>) = {} /\ IsInjective(<<>>)
        BY DEF Ranged, Range, IsInjective
    <2>2. <<>> \in Seq(T)
        OBVIOUS
    <2>3. Right(0)
        BY <1>3, <2>1, <2>2, Zenon
    <2> QED
        BY <2>3
<1>5. ASSUME NEW n \in Nat, n \in K PROVE n + 1 \in K
    <2> SUFFICES ASSUME n + 1 <= Len(s) PROVE Right(n + 1)
        OBVIOUS
    <2>1. /\ g[n] \in Seq(T) /\ Range(g[n]) = Ranged(s, n) \cap S
          /\ IsInjective(s) => IsInjective(g[n])
        BY <1>5
    <2>2. n + 1 \in 1..Len(s) /\ (n + 1) - 1 = n /\ s[n + 1] \in T
        OBVIOUS
    <2>3. g[n + 1] = IF s[n + 1] \in S THEN Append(g[n], s[n + 1]) ELSE g[n]
        BY <1>3, <2>2
    <2>4. Ranged(s, n + 1) = Ranged(s, n) \cup {s[n + 1]}
        BY DEF Ranged
    <2> DEFINE x == s[n + 1]
    <2>5. CASE x \in S
        <3>1. g[n + 1] = Append(g[n], x) /\ g[n + 1] \in Seq(T) /\ Len(g[n + 1]) = Len(g[n]) + 1
              /\ \A i \in 1..Len(g[n]) : g[n + 1][i] = g[n][i]
              /\ g[n + 1][Len(g[n]) + 1] = x
            BY <2>1, <2>2, <2>3, <2>5
        <3>2. Range(g[n + 1]) = Range(g[n]) \cup {x}
            <4>1. DOMAIN g[n + 1] = 1..(Len(g[n]) + 1) /\ DOMAIN g[n] = 1..Len(g[n]) /\ Len(g[n]) \in Nat
                BY <2>1, <3>1
            <4> DEFINE old == g[n]
                       now == g[n + 1]
                       l == Len(g[n])
            <4>2. /\ DOMAIN now = 1..(l + 1) /\ DOMAIN old = 1..l /\ l \in Nat
                  /\ \A i \in 1..l : now[i] = old[i]
                  /\ now[l + 1] = x
                BY <3>1, <4>1
            <4> HIDE DEF old, now, l, x
            <4>3. Range(now) = Range(old) \cup {x}
                BY <4>2 DEF Range
            <4> QED
                BY <4>3 DEF old, now
        <3>3. Range(g[n + 1]) = Ranged(s, n + 1) \cap S
            BY <2>1, <2>4, <2>5, <3>2
        <3>4. ASSUME IsInjective(s) PROVE IsInjective(g[n + 1])
            <4>1. x \notin Ranged(s, n)
                BY <2>2, <3>4 DEF Ranged, IsInjective
            <4>2. \A i \in 1..Len(g[n]) : g[n][i] # x
                BY <2>1, <4>1 DEF Range
            <4>3. IsInjective(g[n])
                BY <2>1, <3>4
            <4> QED
                BY <2>1, <3>1, <4>2, <4>3 DEF IsInjective
        <3> QED
            BY <3>1, <3>3, <3>4
    <2>6. CASE x \notin S
        BY <2>1, <2>3, <2>4, <2>6
    <2> QED
        BY <2>5, <2>6
<1> HIDE DEF K
<1>6. Len(s) \in K /\ Len(s) \in Nat
    BY <1>4, <1>5, NumberInduction
<1>7. Ranged(s, Len(s)) = Range(s)
    BY DEF Ranged, Range
<1> QED
    BY <1>2, <1>6, <1>7 DEF K

-----------------------------------------------------------------------------
(* The rest of a loop, a batch without repetition, the ids of a batch *)

LEMMA TailFacts ==
    ASSUME NEW T, NEW s \in Seq(T), s # <<>>, IsInjective(s)
    PROVE  /\ Head(s) \in T /\ Head(s) \in Range(s) /\ Tail(s) \in Seq(T)
           /\ Range(Tail(s)) = Range(s) \ {Head(s)} /\ IsInjective(Tail(s))
<1>1. /\ Len(s) \in Nat /\ Len(s) > 0 /\ DOMAIN s = 1..Len(s) /\ Head(s) = s[1]
      /\ 1 \in 1..Len(s) /\ s[1] \in T
    OBVIOUS
<1> DEFINE t == Tail(s)
<1>2. /\ t \in Seq(T) /\ DOMAIN t = 1..(Len(s) - 1)
      /\ \A n \in 1..(Len(s) - 1) : t[n] = s[n + 1] /\ n + 1 \in 1..Len(s) /\ n + 1 # 1
    OBVIOUS
<1> HIDE DEF t
<1>3. \A n \in 1..Len(s) : n # 1 => n - 1 \in 1..(Len(s) - 1) /\ t[n - 1] = s[n]
    BY <1>1, <1>2
<1>4. IsInjective(t)
    <2> SUFFICES ASSUME NEW a \in DOMAIN t, NEW b \in DOMAIN t, t[a] = t[b] PROVE a = b
        BY DEF IsInjective
    <2>1. a + 1 \in DOMAIN s /\ b + 1 \in DOMAIN s /\ s[a + 1] = s[b + 1]
        BY <1>1, <1>2
    <2>2. a + 1 = b + 1
        BY <2>1 DEF IsInjective
    <2> QED
        BY <1>2, <2>2
<1>5. \A n \in 1..Len(s) : s[n] = s[1] => n = 1
    BY <1>1, Zenon DEF IsInjective
<1>6. ASSUME NEW x \in Range(t) PROVE x \in Range(s) /\ x # s[1]
    BY <1>1, <1>2, <1>5, <1>6 DEF Range
<1>7. ASSUME NEW x \in Range(s), x # s[1] PROVE x \in Range(t)
    <2>1. PICK n \in 1..Len(s) : x = s[n]
        BY <1>1, <1>7 DEF Range
    <2>2. n - 1 \in DOMAIN t /\ t[n - 1] = x
        BY <1>2, <1>3, <1>7, <2>1
    <2> QED
        BY <2>2 DEF Range
<1>8. Range(t) = Range(s) \ {s[1]} /\ s[1] \in Range(s)
    BY <1>1, <1>6, <1>7 DEF Range
<1> QED
    BY <1>1, <1>2, <1>4, <1>8 DEF t

LEMMA EmptyFacts == Range(<<>>) = {} /\ IsInjective(<<>>) /\ <<>> \in Seq(Items)
BY DEF Range, IsInjective

LEMMA FiniteRange ==
    ASSUME NEW s \in Seq(Items)
    PROVE  Range(s) \subseteq Items /\ IsFiniteSet(Range(s))
<1>1. Range(s) \subseteq Items
    BY DEF Range
<1> QED
    BY <1>1, IngestionAssumption, FS_Subset

\* Places and contents of a batch without repetition are as many.
LEMMA PlacesCounted ==
    ASSUME NEW s \in Seq(Items), IsInjective(s), NEW S
    PROVE  Cardinality({k \in DOMAIN s : s[k] \in S}) = Cardinality(Range(s) \cap S)
<1> DEFINE D == {k \in DOMAIN s : s[k] \in S}
           T == Range(s) \cap S
           f == [k \in D |-> s[k]]
<1>1. f \in Injection(D, T)
    BY DEF Injection, IsInjective, Range
<1>2. IsFiniteSet(T)
    BY FiniteRange, FS_Subset
<1>3. \A x \in T : \E k \in D : f[k] = x
    BY DEF Range
<1>4. f \in Surjection(D, T)
    BY <1>1, <1>3 DEF Injection, Surjection
<1> HIDE DEF D, T, f
<1>5. Cardinality(D) = Cardinality(T)
    BY <1>1, <1>2, <1>4, FS_Injection
<1> QED
    BY <1>5 DEF D, T

LEMMA LengthCounted ==
    ASSUME NEW s \in Seq(Items), IsInjective(s)
    PROVE  Len(s) = Cardinality(Range(s))
<1>1. {k \in DOMAIN s : s[k] \in Range(s)} = 1..Len(s) /\ Range(s) \cap Range(s) = Range(s)
    BY DEF Range
<1>2. Cardinality(1..Len(s)) = Len(s)
    <2>1. Len(s) \in Nat
        OBVIOUS
    <2> QED
        BY <2>1, FS_Interval
<1> QED
    BY <1>1, <1>2, PlacesCounted

-----------------------------------------------------------------------------
(* Reading a storage *)

LEMMA ConcatFacts ==
    ASSUME NEW s \in Seq(Items), NEW t \in Seq(Items)
    PROVE  /\ s \o t \in Seq(Items) /\ Range(s \o t) = Range(s) \cup Range(t)
           /\ IsInjective(s) /\ IsInjective(t) /\ Range(s) \cap Range(t) = {} => IsInjective(s \o t)
<1> DEFINE j == s \o t
           m == Len(s)
           n == Len(t)
<1>1. /\ j \in Seq(Items) /\ m \in Nat /\ n \in Nat
      /\ DOMAIN j = 1..(m + n) /\ DOMAIN s = 1..m /\ DOMAIN t = 1..n
      /\ \A k \in 1..m : j[k] = s[k]
      /\ \A k \in (m + 1)..(m + n) : j[k] = t[k - m]
    OBVIOUS
<1> HIDE DEF j, m, n
<1>2. \A k \in 1..n : k + m \in (m + 1)..(m + n) /\ k + m \in DOMAIN j /\ j[k + m] = t[k]
    BY <1>1
<1>3. \A k \in DOMAIN j : \/ k \in DOMAIN s /\ j[k] = s[k]
                          \/ k - m \in DOMAIN t /\ j[k] = t[k - m] /\ k \in Int
    BY <1>1
<1>4. \A k \in DOMAIN s : k \in DOMAIN j /\ j[k] = s[k]
    BY <1>1
<1>5. ASSUME NEW x \in Range(s) \cup Range(t) PROVE x \in Range(j)
    <2>1. CASE x \in Range(s)
        BY <1>4, <2>1 DEF Range
    <2>2. CASE x \in Range(t)
        BY <1>1, <1>2, <2>2 DEF Range
    <2> QED
        BY <1>5, <2>1, <2>2
<1>6. Range(j) = Range(s) \cup Range(t)
    BY <1>3, <1>5 DEF Range
<1>7. ASSUME IsInjective(s), IsInjective(t), Range(s) \cap Range(t) = {}
      PROVE  IsInjective(j)
    <2> SUFFICES ASSUME NEW a \in DOMAIN j, NEW b \in DOMAIN j, j[a] = j[b] PROVE a = b
        BY DEF IsInjective
    <2>1. a \in Int /\ b \in Int /\ m \in Int
        BY <1>1
    <2>2. CASE a \in DOMAIN s /\ j[a] = s[a] /\ b \in DOMAIN s /\ j[b] = s[b]
        BY <1>7, <2>2 DEF IsInjective
    <2>3. CASE a - m \in DOMAIN t /\ j[a] = t[a - m] /\ b - m \in DOMAIN t /\ j[b] = t[b - m]
        <3>1. a - m = b - m
            BY <1>7, <2>3 DEF IsInjective
        <3> QED
            BY <2>1, <3>1
    <2>4. CASE a \in DOMAIN s /\ j[a] = s[a] /\ b - m \in DOMAIN t /\ j[b] = t[b - m]
        BY <1>7, <2>4 DEF Range
    <2>5. CASE b \in DOMAIN s /\ j[b] = s[b] /\ a - m \in DOMAIN t /\ j[a] = t[a - m]
        BY <1>7, <2>5 DEF Range
    <2> QED
        BY <1>3, <2>2, <2>3, <2>4, <2>5
<1> QED
    BY <1>1, <1>6, <1>7 DEF j

\* What the first m sequences of q give, one after the other.
Joins(g, q, m) == g = [i \in 1..m |-> IF i = 1 THEN q[i] ELSE g[i - 1] \o q[i]]

LEMMA JoinsDefined ==
    ASSUME NEW q \in Seq(Seq(Items))
    PROVE  \E g : Joins(g, q, Len(q))
<1> DEFINE K == {m \in Nat : \E g : Joins(g, q, m)}
<1>1. 0 \in K
    <2> DEFINE g == [i \in 1..0 |-> q[i]]
    <2>1. \A i \in 1..0 : FALSE
        OBVIOUS
    <2>2. Joins(g, q, 0)
        BY <2>1 DEF Joins
    <2> QED
        BY <2>2
<1>2. ASSUME NEW m \in Nat, m \in K PROVE m + 1 \in K
    <2>1. PICK g : Joins(g, q, m)
        BY <1>2
    <2> DEFINE h == [i \in 1..(m + 1) |-> IF i = 1 THEN q[i] ELSE g[i - 1] \o q[i]]
    <2>2. ASSUME NEW i \in 1..m PROVE h[i] = g[i]
        <3>1. i \in 1..(m + 1)
            OBVIOUS
        <3>2. g[i] = IF i = 1 THEN q[i] ELSE g[i - 1] \o q[i]
            BY <2>1, Zenon DEF Joins
        <3>3. h[i] = IF i = 1 THEN q[i] ELSE g[i - 1] \o q[i]
            BY <3>1, Zenon
        <3> QED
            BY <3>2, <3>3, Zenon
    <2>3. \A i \in 1..(m + 1) : i # 1 => i - 1 \in 1..m
        OBVIOUS
    <2>4. \A i \in 1..(m + 1) : h[i] = IF i = 1 THEN q[i] ELSE h[i - 1] \o q[i]
        BY <2>2, <2>3
    <2>5. h = [i \in 1..(m + 1) |-> h[i]]
        OBVIOUS
    <2> HIDE DEF h
    <2>6. Joins(h, q, m + 1)
        BY <2>4, <2>5 DEF Joins
    <2> QED
        BY <2>6
<1> HIDE DEF K
<1>3. Len(q) \in K
    BY <1>1, <1>2, NumberInduction
<1> QED
    BY <1>3 DEF K

LEMMA FlattenFacts ==
    ASSUME NEW q \in Seq(Seq(Items)),
           \A k \in DOMAIN q : IsInjective(q[k]),
           \A k \in DOMAIN q, l \in DOMAIN q : k # l => Range(q[k]) \cap Range(q[l]) = {}
    PROVE  /\ FlattenSeq(q) \in Seq(Items) /\ IsInjective(FlattenSeq(q))
           /\ Range(FlattenSeq(q)) = UNION {Range(q[k]) : k \in DOMAIN q}
<1>1. /\ DOMAIN q = 1..Len(q) /\ Len(q) \in Nat /\ \A k \in 1..Len(q) : q[k] \in Seq(Items)
      /\ Len(q) = 0 => q = <<>>
    OBVIOUS
<1>2. CASE Len(q) = 0
    <2>1. FlattenSeq(q) = <<>> /\ DOMAIN q = {}
        BY <1>1, <1>2 DEF FlattenSeq
    <2> QED
        BY <2>1, EmptyFacts
<1>3. CASE Len(q) # 0
    <2> DEFINE g == CHOOSE e : Joins(e, q, Len(q))
    <2>1. Joins(g, q, Len(q))
        BY JoinsDefined
    <2>2. FlattenSeq(q) = g[Len(q)]
        BY <1>3 DEF FlattenSeq, Joins
    <2> HIDE DEF g
    <2>3. \A i \in 1..Len(q) : g[i] = IF i = 1 THEN q[i] ELSE g[i - 1] \o q[i]
        BY <2>1, Zenon DEF Joins
    <2> DEFINE Parts(n) == UNION {Range(q[k]) : k \in 1..n}
               Right(n) == g[n] \in Seq(Items) /\ IsInjective(g[n]) /\ Range(g[n]) = Parts(n)
               K == {n \in Nat : n # 0 /\ n <= Len(q) => Right(n)}
    <2>4. 0 \in K
        OBVIOUS
    <2>5. ASSUME NEW n \in Nat, n \in K PROVE n + 1 \in K
        <3> SUFFICES ASSUME n + 1 <= Len(q) PROVE Right(n + 1)
            OBVIOUS
        <3>1. n + 1 \in 1..Len(q) /\ (n + 1) - 1 = n
            BY <1>1
        <3>2. q[n + 1] \in Seq(Items) /\ IsInjective(q[n + 1])
            BY <1>1, <3>1
        <3>3. CASE n = 0
            <4>1. n + 1 = 1 /\ 1..1 = {1}
                BY <3>3
            <4>2. g[1] = q[1]
                BY <2>3, <3>1, <4>1
            <4>3. Parts(1) = Range(q[1])
                BY <4>1
            <4> QED
                BY <3>2, <4>1, <4>2, <4>3
        <3>4. CASE n # 0
            <4>1. Right(n)
                BY <2>5, <3>1, <3>4
            <4>2. g[n + 1] = g[n] \o q[n + 1]
                <5>1. n + 1 # 1
                    BY <3>4
                <5>2. g[n + 1] = g[(n + 1) - 1] \o q[n + 1]
                    BY <2>3, <3>1, <5>1, Zenon
                <5> QED
                    BY <3>1, <5>2, Zenon
            <4>3. 1..(n + 1) = (1..n) \cup {n + 1} /\ \A k \in 1..n : k \in DOMAIN q /\ k # n + 1
                BY <1>1, <3>1
            <4>4. Parts(n + 1) = Parts(n) \cup Range(q[n + 1])
                BY <4>3
            <4>5. \A k \in 1..n : Range(q[k]) \cap Range(q[n + 1]) = {}
                BY <1>1, <3>1, <4>3
            <4>6. Parts(n) \cap Range(q[n + 1]) = {}
                BY <4>5
            <4>7. Range(g[n]) \cap Range(q[n + 1]) = {}
                BY <4>1, <4>6
            <4> DEFINE j == g[n] \o q[n + 1]
            <4>8. j \in Seq(Items) /\ IsInjective(j) /\ Range(j) = Range(g[n]) \cup Range(q[n + 1])
                BY <3>2, <4>1, <4>7, ConcatFacts
            <4> HIDE DEF Parts, j
            <4>9. Right(n + 1)
                BY <4>1, <4>4, <4>8, <4>2, Zenon DEF j
            <4> QED
                BY <4>9
        <3> QED
            BY <3>3, <3>4
    <2> HIDE DEF K
    <2>6. Len(q) \in K
        BY <1>1, <2>4, <2>5, NumberInduction
    <2> QED
        BY <1>1, <1>3, <2>2, <2>6 DEF K
<1> QED
    BY <1>2, <1>3

\* What is read of a file before an entry raises.
LEMMA UpToErrorFacts ==
    ASSUME NEW s \in Seq(Items), IsInjective(s)
    PROVE  /\ UpToError(s) \in Seq(Items) /\ IsInjective(UpToError(s))
           /\ Range(UpToError(s)) \subseteq Range(s)
           /\ Range(s) \cap Broken = {} => UpToError(s) = s
<1> DEFINE raises == {k \in DOMAIN s : s[k] \in Broken}
<1>1. raises = {} <=> Range(s) \cap Broken = {}
    BY DEF Range
<1>2. CASE raises = {}
    BY <1>1, <1>2 DEF UpToError
<1>3. CASE raises # {}
    <2>1. raises \subseteq Nat /\ \A x \in raises : \A y \in raises : x <= y <=> x =< y
        OBVIOUS
    <2>2. \E x \in raises : \A y \in raises : x <= y
        BY <1>3, <2>1, LeastNumber
    <2>3. Min(raises) \in raises
        BY <2>2 DEF Min
    <2> DEFINE m == Min(raises) - 1
    <2>4. UpToError(s) = SubSeq(s, 1, m)
        BY <1>3 DEF UpToError
    <2>5. m \in Nat /\ m <= Len(s) /\ DOMAIN s = 1..Len(s) /\ Len(s) \in Nat
        BY <2>3
    <2> HIDE DEF m, raises
    <2> DEFINE t == SubSeq(s, 1, m)
    <2>6. t \in Seq(Items) /\ DOMAIN t = 1..m /\ \A k \in 1..m : t[k] = s[k] /\ k \in DOMAIN s
        BY <2>5
    <2> HIDE DEF t
    <2>7. IsInjective(t) /\ Range(t) \subseteq Range(s)
        BY <2>6 DEF IsInjective, Range
    <2> QED
        BY <1>1, <1>3, <2>4, <2>6, <2>7 DEF t
<1> QED
    BY <1>2, <1>3

LEMMA ReadFileFacts ==
    ASSUME NEW files \in Storages, NEW f \in files
    PROVE  /\ ReadFile(f) \in Seq(Items) /\ IsInjective(ReadFile(f))
           /\ Range(ReadFile(f)) \subseteq Range(f.entries)
           /\ Entries(f) # <<>> /\ Range(f.entries) \cap Broken = {}
                 => Range(f.entries) \ (Junk \cup Old) \subseteq Range(ReadFile(f))
<1>1. f.entries \in Seq(Items) /\ IsInjective(f.entries)
    BY IngestionAssumption
<1>2. Entries(f) \in {<<>>, f.entries}
    BY DEF Entries, LinesOf
<1>3. Entries(f) \in Seq(Items) /\ IsInjective(Entries(f)) /\ Range(Entries(f)) \subseteq Range(f.entries)
    BY <1>1, <1>2, EmptyFacts
<1> DEFINE read == UpToError(Entries(f))
<1>4. /\ read \in Seq(Items) /\ IsInjective(read) /\ Range(read) \subseteq Range(f.entries)
      /\ Range(Entries(f)) \cap Broken = {} => read = Entries(f)
    BY <1>3, UpToErrorFacts
<1> HIDE DEF read
<1>5. ReadFile(f) = Only(read, Items \ (Junk \cup Old))
    BY DEF ReadFile, read
<1>6. /\ ReadFile(f) \in Seq(Items) /\ IsInjective(ReadFile(f))
      /\ Range(ReadFile(f)) = Range(read) \cap (Items \ (Junk \cup Old))
    BY <1>4, <1>5, OnlyFacts
<1>7. Range(f.entries) \subseteq Items
    BY <1>1, FiniteRange
<1> QED
    BY <1>2, <1>4, <1>6, <1>7

\* The batch of a storage holds every message the storage owes, each once.
LEMMA StorageFacts ==
    ASSUME NEW files \in Storages, NEW order \in SetToSeqs(files)
    PROVE  LET batch == FlattenSeq([k \in DOMAIN order |-> ReadFile(order[k])]) IN
           /\ batch \in Seq(Items) /\ IsInjective(batch)
           /\ UNION {Range(f.entries) \ (Junk \cup Old) :
                        f \in {f \in files : Entries(f) # <<>> /\ Range(f.entries) \cap Broken = {}}}
                 \subseteq Range(batch)
<1> DEFINE n == Cardinality(files)
           q == [k \in DOMAIN order |-> ReadFile(order[k])]
<1>1. IsFiniteSet(files) /\ n \in Nat
    BY IngestionAssumption, FS_CardinalityType
<1>2. order \in [1..n -> files] /\ \A k \in 1..n, l \in 1..n : k # l => order[k] # order[l]
    BY DEF SetToSeqs
<1>3. order \in Injection(1..n, files)
    BY <1>2 DEF Injection, IsInjective
<1>4. IsFiniteSet(1..n) /\ Cardinality(1..n) = n
    BY <1>1, FS_Interval
<1>5. order \in Surjection(1..n, files)
    BY <1>1, <1>3, <1>4, FS_Injection
<1>6. \A f \in files : \E k \in 1..n : order[k] = f
    BY <1>5 DEF Surjection
<1>7. DOMAIN q = 1..n /\ \A k \in 1..n : q[k] = ReadFile(order[k])
    BY <1>2
<1>8. ASSUME NEW k \in 1..n
      PROVE  /\ q[k] \in Seq(Items) /\ IsInjective(q[k])
             /\ Range(q[k]) \subseteq Range(order[k].entries)
    BY <1>2, <1>7, ReadFileFacts
<1>9. q \in Seq(Seq(Items))
    <2>1. q = [k \in 1..n |-> q[k]]
        BY <1>7
    <2> HIDE DEF q, n
    <2> QED
        BY <1>1, <1>8, <2>1
<1>10. ASSUME NEW k \in 1..n, NEW l \in 1..n, k # l
       PROVE  Range(q[k]) \cap Range(q[l]) = {}
    <2>1. order[k] \in files /\ order[l] \in files \ {order[k]}
        BY <1>2, <1>10
    <2>2. Range(order[k].entries) \cap Range(order[l].entries) = {}
        BY <2>1, IngestionAssumption
    <2> QED
        BY <1>8, <2>2
<1> HIDE DEF q, n
<1>11. /\ FlattenSeq(q) \in Seq(Items) /\ IsInjective(FlattenSeq(q))
       /\ Range(FlattenSeq(q)) = UNION {Range(q[k]) : k \in DOMAIN q}
    BY <1>7, <1>8, <1>9, <1>10, FlattenFacts
<1>12. ASSUME NEW f \in files, Entries(f) # <<>>, Range(f.entries) \cap Broken = {}
       PROVE  Range(f.entries) \ (Junk \cup Old) \subseteq Range(FlattenSeq(q))
    <2>1. PICK k \in 1..n : order[k] = f
        BY <1>6
    <2>2. Range(f.entries) \ (Junk \cup Old) \subseteq Range(q[k])
        BY <1>7, <1>12, <2>1, ReadFileFacts
    <2> QED
        BY <1>7, <1>11, <2>2
<1> QED
    BY <1>11, <1>12 DEF q

-----------------------------------------------------------------------------
(* The table grows *)

Knowns == {i \in Items : Known(i)}
Presents == {i \in Items : Present(i)}

LEMMA RowsGrow ==
    ASSUME rows \in [Items -> Nat], NEW S, rows' = Plus(rows, S)
    PROVE  /\ rows' \in [Items -> Nat]
           /\ Knowns \subseteq Knowns' /\ Presents \subseteq Presents'
           /\ S \cap Items \subseteq Presents'
           /\ \A i \in S \cap Items : Ext[i] # NoId => i \in Knowns'
<1>1. \A i \in Items : /\ rows'[i] = IF i \in S THEN rows[i] + 1 ELSE rows[i]
                       /\ rows[i] \in Nat
    BY DEF Plus
<1>2. \A i \in Items : /\ rows'[i] \in Nat /\ rows'[i] >= rows[i]
                       /\ i \in S => rows'[i] > 0
    BY <1>1
<1>3. \A i \in Items : rows[i] > 0 => rows'[i] > 0
    BY <1>1, <1>2
<1>4. rows' \in [Items -> Nat]
    BY <1>1, <1>2 DEF Plus
<1>5. \A i \in Items : Known(i) => Known(i)'
    BY <1>3 DEF Known
<1>6. \A i \in Items : Present(i) => Present(i)'
    BY <1>3, <1>5 DEF Present
<1>7. \A i \in S \cap Items : Present(i)' /\ (Ext[i] # NoId => Known(i)')
    BY <1>2 DEF Present, Known
<1> QED
    BY <1>4, <1>5, <1>6, <1>7 DEF Knowns, Presents

\* An INSERT that skips conflicts leaves every message of the batch in the table:
\* the one it inserts for an id is the first with that id.
LEMMA FreshStored ==
    ASSUME rows \in [Items -> Nat], NEW s \in Seq(Items), rows' = Plus(rows, Fresh(s))
    PROVE  Range(s) \subseteq Presents'
<1>1. \A i \in Items : /\ rows'[i] = IF i \in Fresh(s) THEN rows[i] + 1 ELSE rows[i]
                       /\ rows[i] \in Nat
    BY DEF Plus
<1>2. /\ Knowns \subseteq Knowns' /\ Fresh(s) \cap Items \subseteq Presents'
      /\ \A i \in Fresh(s) \cap Items : Ext[i] # NoId => i \in Knowns'
    BY RowsGrow
<1>3. ASSUME NEW k \in 1..Len(s) PROVE s[k] \in Presents'
    <2> DEFINE T == {l \in 1..Len(s) : Ext[s[l]] = Ext[s[k]]}
    <2>1. T \subseteq Nat /\ T # {} /\ s[k] \in Items /\ DOMAIN s = 1..Len(s)
        OBVIOUS
    <2>2. PICK l \in T : \A m \in T : l <= m
        BY <2>1, LeastNumber
    <2>3. l \in 1..Len(s) /\ s[l] \in Items /\ Ext[s[l]] = Ext[s[k]]
        BY <2>2
    <2>4. \A m \in 1..(l - 1) : m \in 1..Len(s) /\ ~ (l <= m)
        BY <2>3
    <2>5. \A m \in 1..(l - 1) : Ext[s[m]] # Ext[s[l]]
        BY <2>2, <2>3, <2>4
    <2>6. CASE Ext[s[k]] = NoId
        <3>1. s[k] \in Fresh(s)
            BY <2>1, <2>6 DEF Fresh
        <3> QED
            BY <1>2, <2>1, <3>1
    <2>7. CASE s[k] \in Knowns
        BY <1>2, <2>7 DEF Knowns, Presents, Present
    <2>8. CASE Ext[s[k]] # NoId /\ s[k] \notin Knowns
        <3>1. ~Known(s[l])
            BY <2>1, <2>3, <2>8 DEF Knowns, Known
        <3>2. s[l] \in Fresh(s)
            BY <2>1, <2>3, <2>5, <3>1 DEF Fresh
        <3>3. Known(s[l])'
            BY <1>2, <2>3, <2>8, <3>2 DEF Knowns
        <3>4. Known(s[k])'
            BY <2>3, <2>8, <3>3 DEF Known
        <3> QED
            BY <2>1, <3>4 DEF Presents, Present
    <2> QED
        BY <2>6, <2>7, <2>8
<1> QED
    BY <1>3 DEF Range

LEMMA FreshFacts ==
    ASSUME NEW s \in Seq(Items)
    PROVE  Fresh(s) \subseteq Range(s) /\ Fresh(s) \subseteq Items
BY DEF Fresh, Range

\* Counting a set of messages once each.
LEMMA PlusFacts ==
    ASSUME NEW f \in [Items -> Nat], NEW S \in SUBSET Items
    PROVE  /\ Plus(f, S) \in [Items -> Nat]
           /\ \A i \in Items : Plus(f, S)[i] = IF i \in S THEN f[i] + 1 ELSE f[i]
BY DEF Plus

-----------------------------------------------------------------------------
(* What holds of a call, by the messages whose id is known and those present *)

\* Every list of a call is a part of its batch, and has no message twice.
Shaped(k) ==
    /\ IsInjective(k.batch) /\ IsInjective(k.new) /\ IsInjective(k.todo)
    /\ Range(k.new) \cup Range(k.todo) \cup k.owed \subseteq Range(k.batch)

\* Nothing is counted before the insert, and only a loop has messages left.
Staged(k) ==
    /\ k.pc \in {"idle", "fetch", "check", "bulk"} =>
          k.count = 0 /\ \A i \in Items : k.added[i] = 0
    /\ k.pc \notin {"lookup", "insert"} => k.todo = <<>>
    /\ k.pc = "insert" => k.todo # <<>>

\* What the check leaves out is known; what a loop has done is present.
Covered(k, known, present) ==
    /\ k.pc = "bulk" => Range(k.batch) \subseteq known \cup Range(k.new)
    /\ k.pc \in {"lookup", "insert", "reply", "done", "failed"} /\ ~k.dead =>
          Range(k.batch) \ Bad \subseteq present \cup Range(k.todo)

\* One that was stored and still is in the loop has an id by which it is found; only
\* a lost answer may leave one without an id there.
Single(k, known) ==
    \A i \in Items :
        IF Ext[i] = NoId /\ k.lost
        THEN k.added[i] <= 2 /\ (i \in Range(k.todo) => k.added[i] <= 1)
        ELSE k.added[i] <= 1 /\ (i \in Range(k.todo) /\ k.added[i] > 0 => i \in known)

\* What is counted is present and done.
Done(k, present) == (Range(k.batch) \cap present) \ Range(k.todo)
Counted(k, present) == k.count <= Cardinality(Done(k, present))

Right(k, known, present) ==
    /\ Shaped(k) /\ Staged(k) /\ Covered(k, known, present)
    /\ Single(k, known) /\ Counted(k, present)

IngestionInv == TypeOK /\ \A c \in Calls : Right(call[c], Knowns, Presents)

-----------------------------------------------------------------------------
(* The invariant outlives what other calls store *)

LEMMA DoneFacts ==
    ASSUME NEW k \in CallRecords, NEW P \in SUBSET Items
    PROVE  IsFiniteSet(Done(k, P)) /\ Cardinality(Done(k, P)) \in Nat
<1>1. k.batch \in Seq(Items)
    BY DEF CallRecords
<1>2. Done(k, P) \subseteq Range(k.batch)
    BY DEF Done
<1> QED
    BY <1>1, <1>2, FiniteRange, FS_Subset, FS_CardinalityType

LEMMA RightGrows ==
    ASSUME NEW k \in CallRecords, NEW K \in SUBSET Items, NEW P \in SUBSET Items,
           NEW K2 \in SUBSET Items, NEW P2 \in SUBSET Items, K \subseteq K2, P \subseteq P2,
           Right(k, K, P)
    PROVE  Right(k, K2, P2)
<1>1. Shaped(k) /\ Staged(k) /\ Covered(k, K2, P2) /\ Single(k, K2)
    BY DEF Right, Covered, Single
<1>2. Counted(k, P2)
    <2>1. Done(k, P) \subseteq Done(k, P2)
        BY DEF Done
    <2>2. /\ Cardinality(Done(k, P)) <= Cardinality(Done(k, P2))
          /\ Cardinality(Done(k, P)) \in Nat /\ Cardinality(Done(k, P2)) \in Nat
        BY <2>1, DoneFacts, FS_Subset
    <2>3. k.count \in Nat /\ k.count <= Cardinality(Done(k, P))
        BY DEF CallRecords, Right, Counted
    <2>4. k.count <= Cardinality(Done(k, P2))
        BY <2>2, <2>3
    <2> QED
        BY <2>4 DEF Right, Counted
<1> QED
    BY <1>1, <1>2 DEF Right

\* A step of one call, which only adds to the table.
LEMMA CallMoves ==
    ASSUME IngestionInv, NEW c \in Calls, NEW k \in CallRecords, Set(c, k),
           upsert' \in BOOLEAN, rows' \in [Items -> Nat], round' \in 0..Rounds,
           Knowns \subseteq Knowns', Presents \subseteq Presents',
           Right(k, Knowns', Presents')
    PROVE  IngestionInv'
<1>1. call \in [Calls -> CallRecords] /\ \A d \in Calls : Right(call[d], Knowns, Presents)
    BY DEF IngestionInv, TypeOK
<1>2. call' \in [Calls -> CallRecords] /\ call'[c] = k
      /\ \A d \in Calls \ {c} : call'[d] = call[d] /\ call[d] \in CallRecords
    BY <1>1 DEF Set
<1>3. /\ Knowns \in SUBSET Items /\ Presents \in SUBSET Items
      /\ Knowns' \in SUBSET Items /\ Presents' \in SUBSET Items
    BY DEF Knowns, Presents
<1>4. ASSUME NEW d \in Calls PROVE Right(call'[d], Knowns', Presents')
    <2>1. CASE d = c
        BY <1>2, <2>1
    <2>2. CASE d # c
        <3>1. Right(call[d], Knowns', Presents')
            BY <1>1, <1>2, <1>3, <2>2, RightGrows
        <3> QED
            BY <1>2, <2>2, <3>1
    <2> QED
        BY <2>1, <2>2
<1>5. TypeOK'
    BY <1>2 DEF TypeOK
<1> QED
    BY <1>4, <1>5 DEF IngestionInv

\* A call that stores nothing leaves the table as it is.
LEMMA SameRows ==
    ASSUME UNCHANGED rows
    PROVE  Knowns' = Knowns /\ Presents' = Presents
<1>1. \A i \in Items : (Known(i)' <=> Known(i)) /\ (Present(i)' <=> Present(i))
    BY DEF Known, Present
<1> QED
    BY <1>1 DEF Knowns, Presents

\* A call that has nothing counted and nothing left to do.
LEMMA FreshCall ==
    ASSUME NEW k \in CallRecords, Shaped(k), k.count = 0, k.todo = <<>>,
           \A i \in Items : k.added[i] = 0,
           k.pc \in {"idle", "fetch", "check"} \/ (k.pc = "done" /\ k.batch = <<>>),
           NEW K \in SUBSET Items, NEW P \in SUBSET Items
    PROVE  Right(k, K, P)
<1>1. k.added \in [Items -> Nat]
    BY DEF CallRecords
<1>2. Staged(k) /\ Covered(k, K, P)
    BY EmptyFacts DEF Staged, Covered
<1>3. Single(k, K)
    BY DEF Single
<1>4. Counted(k, P)
    BY DoneFacts DEF Counted
<1> QED
    BY <1>2, <1>3, <1>4 DEF Right

LEMMA IdleFacts ==
    /\ Idle.added \in [Items -> Nat] /\ \A i \in Items : Idle.added[i] = 0
    /\ 0 \in 0..MaxRetries /\ 1 \in 1..Endpoints
    /\ Idle \in CallRecords /\ Shaped(Idle)
<1>1. Idle.added \in [Items -> Nat] /\ \A i \in Items : Idle.added[i] = 0
    BY DEF Idle
<1>2. 0 \in 0..MaxRetries /\ 1 \in 1..Endpoints
    BY IngestionAssumption
<1>3. Idle \in CallRecords
    BY <1>1, <1>2, EmptyFacts DEF Idle, CallRecords
<1>4. Shaped(Idle)
    BY EmptyFacts DEF Idle, Shaped
<1> QED
    BY <1>1, <1>2, <1>3, <1>4

LEMMA HavingFacts ==
    ASSUME NEW api \in BOOLEAN, NEW batch \in Seq(Items), IsInjective(batch),
           NEW owed \in SUBSET Range(batch),
           NEW K \in SUBSET Items, NEW P \in SUBSET Items
    PROVE  Having(api, batch, owed) \in CallRecords /\ Right(Having(api, batch, owed), K, P)
<1> DEFINE k == Having(api, batch, owed)
<1>1. owed \in SUBSET Items
    BY FiniteRange
<1>2. /\ k.pc = IF batch = <<>> THEN "done" ELSE "check"
      /\ k.batch = batch /\ k.new = <<>> /\ k.todo = <<>> /\ k.count = 0
      /\ k.owed = owed /\ k.added = Idle.added
    BY DEF Having, Idle
<1>3. k \in CallRecords
    BY <1>1, IdleFacts DEF Having, CallRecords, Idle
<1>4. Shaped(k)
    BY <1>2, EmptyFacts DEF Shaped
<1> HIDE DEF k
<1>5. Right(k, K, P)
    <2>1. \A i \in Items : k.added[i] = 0
        BY <1>2, IdleFacts
    <2>2. k.count = 0 /\ k.todo = <<>> /\ (k.pc \in {"idle", "fetch", "check"} \/ (k.pc = "done" /\ k.batch = <<>>))
        BY <1>2
    <2> QED
        BY <1>3, <1>4, <2>1, <2>2, FreshCall
<1> QED
    BY <1>3, <1>5 DEF k

-----------------------------------------------------------------------------
(* The source is read *)

\* A call starts with a batch.
LEMMA StartsWith ==
    ASSUME IngestionInv, NEW c \in Calls,
           NEW api \in BOOLEAN, NEW batch \in Seq(Items), IsInjective(batch),
           NEW owed \in SUBSET Range(batch),
           Set(c, Having(api, batch, owed)), round' \in 0..Rounds, UNCHANGED <<upsert, rows>>
    PROVE  IngestionInv'
<1>1. Knowns' \in SUBSET Items /\ Presents' \in SUBSET Items
    BY DEF Knowns, Presents
<1>2. /\ Having(api, batch, owed) \in CallRecords
      /\ Right(Having(api, batch, owed), Knowns', Presents')
    BY <1>1, HavingFacts
<1>3. Knowns' = Knowns /\ Presents' = Presents
    BY SameRows
<1>4. upsert' \in BOOLEAN /\ rows' \in [Items -> Nat]
    BY DEF IngestionInv, TypeOK
<1> QED
    BY <1>2, <1>3, <1>4, CallMoves

LEMMA RoundMoves ==
    ASSUME IngestionInv, round < Rounds
    PROVE  round + 1 \in 0..Rounds
BY IngestionAssumption DEF IngestionInv, TypeOK

LEMMA SourceKeepsInv ==
    ASSUME IngestionInv, NEW c \in Calls,
           \/ \E batch \in Batches : Deliver(c, batch) \/ Import(c, batch)
           \/ \E files \in Storages : ReadStorage(c, files)
           \/ StartFetch(c)
    PROVE  IngestionInv'
<1>1. ASSUME NEW batch \in Batches, Deliver(c, batch) \/ Import(c, batch)
      PROVE  IngestionInv'
    <2>1. batch \in Seq(Items) /\ IsInjective(batch)
        BY IngestionAssumption
    <2>2. round' \in 0..Rounds /\ UNCHANGED <<upsert, rows>>
        BY <1>1, RoundMoves DEF Deliver, Import, Free
    <2>3. PICK api \in BOOLEAN : Set(c, Having(api, batch, Range(batch)))
        BY <1>1 DEF Deliver, Import
    <2> QED
        BY <2>1, <2>2, <2>3, StartsWith
<1>2. ASSUME NEW files \in Storages, ReadStorage(c, files) PROVE IngestionInv'
    <2> DEFINE Read(order) == FlattenSeq([k \in DOMAIN order |-> ReadFile(order[k])])
               owed == UNION {Range(f.entries) \ (Junk \cup Old) :
                                 f \in {f \in files : Entries(f) # <<>>
                                           /\ Range(f.entries) \cap Broken = {}}}
    <2>1. PICK order \in SetToSeqs(files) : Set(c, Having(FALSE, Read(order), owed))
        BY <1>2 DEF ReadStorage
    <2>2. Read(order) \in Seq(Items) /\ IsInjective(Read(order)) /\ owed \subseteq Range(Read(order))
        BY StorageFacts
    <2>3. round' \in 0..Rounds /\ UNCHANGED <<upsert, rows>>
        BY <1>2, RoundMoves DEF ReadStorage, Free
    <2> HIDE DEF Read, owed
    <2> QED
        BY <2>1, <2>2, <2>3, StartsWith
<1>3. ASSUME StartFetch(c) PROVE IngestionInv'
    <2> DEFINE k == [Idle EXCEPT !.pc = "fetch"]
    <2>1. k \in CallRecords /\ Shaped(k) /\ k.count = 0 /\ k.todo = <<>> /\ k.pc = "fetch"
          /\ k.added = Idle.added
        BY IdleFacts DEF CallRecords, Idle, Shaped
    <2>2. Set(c, k) /\ round' \in 0..Rounds /\ UNCHANGED <<upsert, rows>>
        BY <1>3, RoundMoves DEF StartFetch, Free
    <2> HIDE DEF k
    <2>3. Knowns' \in SUBSET Items /\ Presents' \in SUBSET Items
        BY DEF Knowns, Presents
    <2>4. Right(k, Knowns', Presents')
        <3>1. \A i \in Items : k.added[i] = 0
            BY <2>1, IdleFacts
        <3> QED
            BY <2>1, <2>3, <3>1, FreshCall
    <2>5. upsert' \in BOOLEAN /\ rows' \in [Items -> Nat]
        BY <2>2 DEF IngestionInv, TypeOK
    <2> QED
        BY <2>1, <2>2, <2>4, <2>5, SameRows, CallMoves
<1> QED
    BY <1>1, <1>2, <1>3

\* A step of a call that leaves the table alone.
LEMMA CallTurns ==
    ASSUME IngestionInv, NEW c \in Calls, NEW k \in CallRecords, Set(c, k),
           UNCHANGED <<upsert, rows, round>>, Right(k, Knowns, Presents)
    PROVE  IngestionInv'
<1>1. upsert' \in BOOLEAN /\ rows' \in [Items -> Nat] /\ round' \in 0..Rounds
    BY DEF IngestionInv, TypeOK
<1>2. Knowns' = Knowns /\ Presents' = Presents
    BY SameRows
<1> QED
    BY <1>1, <1>2, CallMoves

LEMMA CallFacts ==
    ASSUME IngestionInv, NEW c \in Calls
    PROVE  /\ call[c] \in CallRecords /\ Right(call[c], Knowns, Presents)
           /\ Knowns \in SUBSET Items /\ Presents \in SUBSET Items /\ Knowns \subseteq Presents
           /\ rows \in [Items -> Nat]
BY DEF IngestionInv, TypeOK, Knowns, Presents, Present

LEMMA FetchKeepsInv ==
    ASSUME IngestionInv, NEW c \in Calls, Fetch(c)
    PROVE  IngestionInv'
<1> DEFINE k == call[c]
<1>1. /\ k \in CallRecords /\ Right(k, Knowns, Presents)
      /\ Knowns \in SUBSET Items /\ Presents \in SUBSET Items
    BY CallFacts
<1>2. ASSUME NEW answer \in Batches \cup {<<>>}, Fetched(c, answer) PROVE IngestionInv'
    <2>1. answer \in Seq(Items) /\ IsInjective(answer)
        BY IngestionAssumption, EmptyFacts
    <2>2. /\ Parsed(answer) \in Seq(Items) /\ IsInjective(Parsed(answer))
          /\ Range(Parsed(answer)) = Range(answer) \cap (Items \ Broken)
        BY <2>1, OnlyFacts DEF Parsed
    <2>3. Range(answer) \ Broken \subseteq Range(Parsed(answer))
        BY <2>1, <2>2, FiniteRange
    <2>4. /\ Set(c, Having(FALSE, Parsed(answer), Range(answer) \ Broken))
          /\ UNCHANGED <<upsert, rows>> /\ round' \in 0..Rounds
        BY <1>2 DEF Fetched, IngestionInv, TypeOK
    <2> QED
        BY <2>2, <2>3, <2>4, StartsWith
\* No attempt and no endpoint changes what the invariant speaks of.
<1>3. ASSUME k.pc = "fetch", NEW n \in 0..MaxRetries, NEW e \in 1..Endpoints,
             Set(c, [k EXCEPT !.attempt = n, !.endpoint = e]), UNCHANGED <<upsert, rows, round>>
      PROVE  IngestionInv'
    <2> DEFINE m == [k EXCEPT !.attempt = n, !.endpoint = e]
    <2>1. /\ m \in CallRecords /\ m.pc = "fetch" /\ m.batch = k.batch /\ m.new = k.new
          /\ m.todo = k.todo /\ m.count = k.count /\ m.added = k.added /\ m.owed = k.owed
        BY <1>1, <1>3 DEF CallRecords
    <2> HIDE DEF m
    <2>2. /\ Shaped(m) /\ m.count = 0 /\ m.todo = <<>>
          /\ \A i \in Items : m.added[i] = 0
        BY <1>1, <1>3, <2>1 DEF Right, Shaped, Staged
    <2>3. Right(m, Knowns, Presents)
        BY <1>1, <2>1, <2>2, FreshCall
    <2> QED
        BY <1>3, <2>1, <2>3, CallTurns DEF m
<1>4. k.pc = "fetch" /\ k.attempt \in 0..MaxRetries /\ k.endpoint \in 1..Endpoints
    BY <1>1 DEF Fetch, Fetched, NotFound, FetchFails, GiveUp, Trying, At, CallRecords
<1>5. k = [k EXCEPT !.attempt = k.attempt] /\ k = [k EXCEPT !.endpoint = k.endpoint]
    BY <1>1 DEF CallRecords
<1>6. ASSUME Set(c, [Idle EXCEPT !.pc = "done"]), UNCHANGED <<upsert, rows, round>>
      PROVE  IngestionInv'
    <2> DEFINE m == [Idle EXCEPT !.pc = "done"]
    <2>1. m \in CallRecords /\ Shaped(m) /\ m.count = 0 /\ m.todo = <<>> /\ m.pc = "done"
          /\ m.added = Idle.added /\ m.batch = <<>>
        BY IdleFacts DEF CallRecords, Idle, Shaped
    <2> HIDE DEF m
    <2>2. Right(m, Knowns, Presents)
        <3>1. \A i \in Items : m.added[i] = 0
            BY <2>1, IdleFacts
        <3> QED
            BY <1>1, <2>1, <3>1, FreshCall
    <2> QED
        BY <1>6, <2>1, <2>2, CallTurns DEF m
<1>7. ASSUME NotFound(c) PROVE IngestionInv'
    <2>1. CASE k.endpoint < Endpoints
        <3>1. k.endpoint + 1 \in 1..Endpoints
            BY <1>4, <2>1, IngestionAssumption
        <3>2. Set(c, [k EXCEPT !.endpoint = k.endpoint + 1])
            BY <1>7, <2>1 DEF NotFound
        <3>3. [k EXCEPT !.endpoint = k.endpoint + 1]
                 = [k EXCEPT !.attempt = k.attempt, !.endpoint = k.endpoint + 1]
            BY <1>1 DEF CallRecords
        <3> QED
            BY <1>3, <1>4, <1>7, <3>1, <3>2, <3>3 DEF NotFound
    <2>2. CASE ~ (k.endpoint < Endpoints)
        BY <1>6, <1>7, <2>2 DEF NotFound
    <2> QED
        BY <2>1, <2>2
<1>8. ASSUME FetchFails(c) PROVE IngestionInv'
    <2>1. k.attempt + 1 \in 0..MaxRetries /\ 1 \in 1..Endpoints
        BY <1>4, <1>8, IngestionAssumption DEF FetchFails, Trying
    <2>2. Set(c, [k EXCEPT !.attempt = k.attempt + 1, !.endpoint = 1])
        BY <1>8 DEF FetchFails, NextAttempt
    <2> QED
        BY <1>3, <1>4, <1>8, <2>1, <2>2 DEF FetchFails
<1> QED
    BY <1>2, <1>6, <1>7, <1>8 DEF Fetch, GiveUp

-----------------------------------------------------------------------------
(* The bulk insert *)

LEMMA CheckKeepsInv ==
    ASSUME IngestionInv, NEW c \in Calls, CheckExisting(c)
    PROVE  IngestionInv'
<1> DEFINE k == call[c]
           new == NewOf(k.batch)
<1>1. /\ k \in CallRecords /\ Right(k, Knowns, Presents)
      /\ Knowns \in SUBSET Items /\ Presents \in SUBSET Items /\ Knowns \subseteq Presents
    BY CallFacts
<1>2. /\ k.pc = "check" /\ k.batch \in Seq(Items) /\ IsInjective(k.batch)
      /\ k.count = 0 /\ k.todo = <<>> /\ k.added \in [Items -> Nat]
      /\ \A i \in Items : k.added[i] = 0
    BY <1>1 DEF CheckExisting, At, CallRecords, Right, Shaped, Staged
<1>3. new \in Seq(Items) /\ IsInjective(new) /\ Range(new) = Range(k.batch) \cap (Items \ Knowns)
    <2>1. {i \in Items : ~Known(i)} = Items \ Knowns
        BY DEF Knowns
    <2> QED
        BY <1>2, <2>1, OnlyFacts DEF NewOf
<1>4. Range(k.batch) \subseteq Knowns \cup Range(new)
    BY <1>2, <1>3, FiniteRange
<1> HIDE DEF new
<1>5. CASE new = <<>>
    <2> DEFINE m == [k EXCEPT !.pc = "reply"]
    <2>1. /\ m \in CallRecords /\ m.pc = "reply" /\ m.batch = k.batch /\ m.new = k.new
          /\ m.todo = k.todo /\ m.count = k.count /\ m.added = k.added /\ m.owed = k.owed
        BY <1>1 DEF CallRecords
    <2>2. Set(c, m) /\ UNCHANGED <<upsert, rows, round>>
        BY <1>5 DEF CheckExisting, new
    <2> HIDE DEF m
    <2>3. Shaped(m) /\ Staged(m) /\ Single(m, Knowns)
        BY <1>1, <1>2, <2>1 DEF Right, Shaped, Staged, Single
    <2>4. Covered(m, Knowns, Presents)
        BY <1>1, <1>4, <1>5, <2>1, EmptyFacts DEF Covered
    <2>5. Counted(m, Presents)
        BY <1>1, <2>1 DEF Right, Counted, Done
    <2> QED
        BY <2>1, <2>2, <2>3, <2>4, <2>5, CallTurns DEF Right
<1>6. CASE new # <<>>
    <2> DEFINE m == [k EXCEPT !.pc = "bulk", !.new = new]
    <2>1. /\ m \in CallRecords /\ m.pc = "bulk" /\ m.batch = k.batch /\ m.new = new
          /\ m.todo = k.todo /\ m.count = k.count /\ m.added = k.added /\ m.owed = k.owed
        BY <1>1, <1>3 DEF CallRecords
    <2>2. Set(c, m) /\ UNCHANGED <<upsert, rows, round>>
        BY <1>6 DEF CheckExisting, new
    <2> HIDE DEF m
    <2>3. Shaped(m) /\ Staged(m) /\ Single(m, Knowns)
        BY <1>1, <1>2, <1>3, <2>1 DEF Right, Shaped, Staged, Single
    <2>4. Covered(m, Knowns, Presents)
        BY <1>4, <2>1 DEF Covered
    <2>5. Counted(m, Presents)
        BY <1>1, <2>1 DEF Right, Counted, Done
    <2> QED
        BY <2>1, <2>2, <2>3, <2>4, <2>5, CallTurns DEF Right
<1> QED
    BY <1>5, <1>6

\* A call that is about to insert in bulk.
LEMMA BulkFacts ==
    ASSUME IngestionInv, NEW c \in Calls, At(c, "bulk")
    PROVE  /\ call[c].new \in Seq(Items) /\ IsInjective(call[c].new)
           /\ Range(call[c].new) \subseteq Range(call[c].batch)
           /\ call[c].batch \in Seq(Items) /\ Range(call[c].batch) \subseteq Items
           /\ Range(call[c].batch) \subseteq Knowns \cup Range(call[c].new)
           /\ call[c].count = 0 /\ call[c].todo = <<>>
           /\ call[c].added \in [Items -> Nat] /\ \A i \in Items : call[c].added[i] = 0
           /\ Fresh(call[c].new) \subseteq Range(call[c].new) /\ Fresh(call[c].new) \subseteq Items
<1> DEFINE k == call[c]
<1>1. k \in CallRecords /\ Right(k, Knowns, Presents)
    BY CallFacts
<1>2. /\ k.new \in Seq(Items) /\ IsInjective(k.new) /\ Range(k.new) \subseteq Range(k.batch)
      /\ k.batch \in Seq(Items) /\ Range(k.batch) \subseteq Knowns \cup Range(k.new)
      /\ k.count = 0 /\ k.todo = <<>> /\ k.added \in [Items -> Nat]
      /\ \A i \in Items : k.added[i] = 0
    BY <1>1 DEF At, CallRecords, Right, Shaped, Staged, Covered
<1> QED
    BY <1>2, FreshFacts, FiniteRange

LEMMA BulkInsertKeepsInv ==
    ASSUME IngestionInv, NEW c \in Calls, BulkInsert(c)
    PROVE  IngestionInv'
<1> DEFINE k == call[c]
           S == Fresh(k.new)
           m == [k EXCEPT !.pc = "reply", !.count = Len(k.new), !.added = Plus(k.added, S)]
<1>1. /\ k \in CallRecords /\ Right(k, Knowns, Presents) /\ rows \in [Items -> Nat]
    BY CallFacts
<1>2. /\ k.new \in Seq(Items) /\ IsInjective(k.new) /\ Range(k.new) \subseteq Range(k.batch)
      /\ k.batch \in Seq(Items) /\ Range(k.batch) \subseteq Items
      /\ Range(k.batch) \subseteq Knowns \cup Range(k.new)
      /\ k.count = 0 /\ k.todo = <<>>
      /\ k.added \in [Items -> Nat] /\ \A i \in Items : k.added[i] = 0
      /\ S \subseteq Range(k.new) /\ S \subseteq Items
    BY BulkFacts DEF BulkInsert
<1>3. rows' = Plus(rows, S) /\ Set(c, m) /\ UNCHANGED <<upsert, round>>
    BY DEF BulkInsert
<1>4. /\ Plus(k.added, S) \in [Items -> Nat]
      /\ \A i \in Items : Plus(k.added, S)[i] = IF i \in S THEN 1 ELSE 0
    <2>1. S \in SUBSET Items
        BY <1>2
    <2> HIDE DEF S
    <2>2. /\ Plus(k.added, S) \in [Items -> Nat]
          /\ \A i \in Items : Plus(k.added, S)[i] = IF i \in S THEN k.added[i] + 1 ELSE k.added[i]
        BY <1>2, <2>1, PlusFacts
    <2> QED
        BY <1>2, <2>2
<1>5. Len(k.new) \in Nat
    BY <1>2
<1>6. /\ m \in CallRecords /\ m.pc = "reply" /\ m.batch = k.batch /\ m.new = k.new
      /\ m.todo = <<>> /\ m.count = Len(k.new) /\ m.added = Plus(k.added, S) /\ m.owed = k.owed
    BY <1>1, <1>2, <1>4, <1>5 DEF CallRecords
<1> HIDE DEF m
<1>7. /\ rows' \in [Items -> Nat] /\ Knowns \subseteq Knowns' /\ Presents \subseteq Presents'
      /\ Range(k.new) \subseteq Presents'
    BY <1>1, <1>2, <1>3, RowsGrow, FreshStored
<1> HIDE DEF S
<1>8. Shaped(m) /\ Staged(m)
    BY <1>1, <1>2, <1>6, EmptyFacts DEF Right, Shaped, Staged
<1>9. Covered(m, Knowns', Presents')
    <2>1. Knowns' \subseteq Presents'
        BY DEF Knowns, Presents, Present
    <2> QED
        BY <1>2, <1>6, <1>7, <2>1 DEF Covered
<1>10. Single(m, Knowns')
    BY <1>4, <1>6, EmptyFacts DEF Single
<1>11. Counted(m, Presents')
    <2>1. IsFiniteSet(Range(k.new)) /\ IsFiniteSet(Range(k.batch))
        BY <1>2, FiniteRange
    <2>2. Len(k.new) = Cardinality(Range(k.new))
        BY <1>2, LengthCounted
    <2>3. Range(k.new) \subseteq Done(m, Presents') /\ Done(m, Presents') \subseteq Range(k.batch)
        BY <1>2, <1>6, <1>7, EmptyFacts DEF Done
    <2>4. Cardinality(Range(k.new)) <= Cardinality(Done(m, Presents'))
        BY <2>1, <2>3, FS_Subset
    <2> QED
        BY <1>6, <2>2, <2>4 DEF Counted
<1>12. upsert' \in BOOLEAN /\ round' \in 0..Rounds
    BY <1>3 DEF IngestionInv, TypeOK
<1> QED
    BY <1>3, <1>6, <1>7, <1>8, <1>9, <1>10, <1>11, <1>12, CallMoves DEF Right

\* A bulk insert that fails leaves nothing, or all of it when its answer was lost,
\* and goes on with single inserts of messages that still are to come.
LEMMA BulkFails ==
    ASSUME IngestionInv, NEW c \in Calls, At(c, "bulk"),
           NEW S \in SUBSET Fresh(call[c].new), NEW lost \in BOOLEAN, lost \/ S = {},
           NEW loop \in {"create", "fallback"}, NEW todo \in {call[c].new, call[c].batch},
           rows' = Plus(rows, S), UNCHANGED <<upsert, round>>,
           Set(c, [call[c] EXCEPT !.pc = "lookup", !.loop = loop, !.todo = todo,
                                  !.added = Plus(call[c].added, S), !.lost = lost])
    PROVE  IngestionInv'
<1> DEFINE k == call[c]
           m == [k EXCEPT !.pc = "lookup", !.loop = loop, !.todo = todo,
                          !.added = Plus(k.added, S), !.lost = lost]
<1>1. /\ k \in CallRecords /\ Right(k, Knowns, Presents) /\ rows \in [Items -> Nat]
    BY CallFacts
<1>2. /\ k.new \in Seq(Items) /\ IsInjective(k.new) /\ Range(k.new) \subseteq Range(k.batch)
      /\ k.batch \in Seq(Items) /\ Range(k.batch) \subseteq Items
      /\ Range(k.batch) \subseteq Knowns \cup Range(k.new)
      /\ k.count = 0 /\ k.added \in [Items -> Nat] /\ \A i \in Items : k.added[i] = 0
      /\ S \in SUBSET Items
    BY BulkFacts
<1>3. /\ Plus(k.added, S) \in [Items -> Nat]
      /\ \A i \in Items : Plus(k.added, S)[i] = IF i \in S THEN 1 ELSE 0
    <2>1. /\ Plus(k.added, S) \in [Items -> Nat]
          /\ \A i \in Items : Plus(k.added, S)[i] = IF i \in S THEN k.added[i] + 1 ELSE k.added[i]
        BY <1>2, PlusFacts
    <2> QED
        BY <1>2, <2>1
<1>4. /\ todo \in Seq(Items) /\ IsInjective(todo) /\ Range(todo) \subseteq Range(k.batch)
      /\ Range(k.batch) \subseteq Knowns \cup Range(todo)
    <2>1. IsInjective(k.batch)
        BY <1>1 DEF Right, Shaped
    <2> QED
        BY <1>2, <2>1
<1>5. /\ m \in CallRecords /\ m.pc = "lookup" /\ m.batch = k.batch /\ m.new = k.new
      /\ m.todo = todo /\ m.count = 0 /\ m.added = Plus(k.added, S) /\ m.owed = k.owed
      /\ m.lost = lost
    BY <1>1, <1>2, <1>3, <1>4 DEF CallRecords
<1>6. Set(c, m)
    OBVIOUS
<1> HIDE DEF m
<1>7. /\ rows' \in [Items -> Nat] /\ Knowns \subseteq Knowns' /\ Presents \subseteq Presents'
      /\ \A i \in S \cap Items : Ext[i] # NoId => i \in Knowns'
    BY <1>1, RowsGrow
<1>8. Shaped(m) /\ Staged(m)
    BY <1>1, <1>4, <1>5 DEF Right, Shaped, Staged
<1>9. Covered(m, Knowns', Presents')
    <2>1. Knowns' \subseteq Presents'
        BY DEF Knowns, Presents, Present
    <2> QED
        BY <1>4, <1>5, <1>7, <2>1 DEF Covered
<1>10. Single(m, Knowns')
    <2>1. \A i \in Items : m.added[i] <= 1 /\ (m.added[i] > 0 => lost /\ i \in S)
        BY <1>3, <1>5
    <2>2. \A i \in S : Ext[i] # NoId => i \in Knowns'
        BY <1>2, <1>7
    <2>3. \A i \in Items : m.added[i] <= 1 => m.added[i] <= 2
        BY <1>3, <1>5
    <2> QED
        BY <1>5, <2>1, <2>2, <2>3 DEF Single
<1>11. Counted(m, Presents')
    <2>1. Presents' \in SUBSET Items
        BY DEF Presents
    <2>2. Cardinality(Done(m, Presents')) \in Nat
        BY <1>5, <2>1, DoneFacts
    <2> QED
        BY <1>5, <2>2 DEF Counted
<1>12. upsert' \in BOOLEAN /\ round' \in 0..Rounds
    BY DEF IngestionInv, TypeOK
<1> QED
    BY <1>5, <1>6, <1>7, <1>8, <1>9, <1>10, <1>11, <1>12, CallMoves DEF Right

LEMMA BulkKeepsInv ==
    ASSUME IngestionInv, NEW c \in Calls, BulkConflict(c) \/ BulkError(c) \/ BulkAnswerLost(c)
    PROVE  IngestionInv'
<1> DEFINE k == call[c]
<1>1. /\ At(c, "bulk") /\ k \in CallRecords /\ k.added \in [Items -> Nat] /\ k.lost \in BOOLEAN
      /\ rows \in [Items -> Nat] /\ UNCHANGED <<upsert, round>>
    BY CallFacts DEF BulkConflict, BulkError, BulkAnswerLost, CallRecords
<1>2. Plus(k.added, {}) = k.added /\ Plus(rows, {}) = rows
    BY <1>1 DEF Plus
<1>3. CASE BulkConflict(c)
    <2>1. [k EXCEPT !.pc = "lookup", !.loop = "fallback", !.todo = k.new]
             = [k EXCEPT !.pc = "lookup", !.loop = "fallback", !.todo = k.new,
                         !.added = k.added, !.lost = k.lost]
        BY <1>1 DEF CallRecords
    <2>2. /\ rows' = Plus(rows, {})
          /\ Set(c, [k EXCEPT !.pc = "lookup", !.loop = "fallback", !.todo = k.new,
                               !.added = Plus(k.added, {}), !.lost = k.lost])
        BY <1>2, <1>3, <2>1 DEF BulkConflict
    <2> QED
        BY <1>1, <2>2, BulkFails
<1>4. CASE BulkError(c)
    <2>1. rows' = rows /\ Set(c, Retry(c, {}))
        BY <1>2, <1>4 DEF BulkError, Survivors
    <2>2. Retry(c, {}) = [k EXCEPT !.pc = "lookup", !.loop = "create", !.todo = k.batch,
                                   !.added = Plus(k.added, {}), !.lost = k.lost]
        BY <1>1 DEF CallRecords, Retry
    <2>3. /\ rows' = Plus(rows, {})
          /\ Set(c, [k EXCEPT !.pc = "lookup", !.loop = "create", !.todo = k.batch,
                               !.added = Plus(k.added, {}), !.lost = k.lost])
        BY <1>2, <2>1, <2>2
    <2> QED
        BY <1>1, <2>3, BulkFails
<1>5. CASE BulkAnswerLost(c)
    <2> DEFINE S == Fresh(k.new)
    <2>1. rows' = Plus(rows, S) /\ Set(c, [Retry(c, S) EXCEPT !.lost = TRUE])
        BY <1>5 DEF BulkAnswerLost
    <2> HIDE DEF S
    <2>2. [Retry(c, S) EXCEPT !.lost = TRUE]
             = [k EXCEPT !.pc = "lookup", !.loop = "create", !.todo = k.batch,
                         !.added = Plus(k.added, S), !.lost = TRUE]
        BY <1>1 DEF CallRecords, Retry
    <2> QED
        BY <1>1, <2>1, <2>2, BulkFails DEF S
<1> QED
    BY <1>3, <1>4, <1>5

-----------------------------------------------------------------------------
(* The single inserts *)

\* A call in a loop, with its next message.
LEMMA LoopFacts ==
    ASSUME IngestionInv, NEW c \in Calls, At(c, "lookup") \/ At(c, "insert"), call[c].todo # <<>>
    PROVE  LET k == call[c] IN
           LET i == Head(k.todo) IN
           /\ k.todo \in Seq(Items) /\ IsInjective(k.todo)
           /\ i \in Items /\ i \in Range(k.todo) /\ i \in Range(k.batch)
           /\ Tail(k.todo) \in Seq(Items) /\ IsInjective(Tail(k.todo))
           /\ Range(Tail(k.todo)) = Range(k.todo) \ {i}
           /\ Range(k.todo) \subseteq Range(k.batch)
           /\ k.added \in [Items -> Nat] /\ k.count \in Nat
<1> DEFINE k == call[c]
<1>1. k \in CallRecords /\ Right(k, Knowns, Presents)
    BY CallFacts
<1>2. /\ k.todo \in Seq(Items) /\ IsInjective(k.todo) /\ Range(k.todo) \subseteq Range(k.batch)
      /\ k.added \in [Items -> Nat] /\ k.count \in Nat
    BY <1>1 DEF CallRecords, Right, Shaped
<1> QED
    BY <1>2, TailFacts

\* One message less to do and one more that is present.
LEMMA OneMoreDone ==
    ASSUME NEW k \in CallRecords, NEW m \in CallRecords, NEW P \in SUBSET Items, NEW P2 \in SUBSET Items,
           P \subseteq P2, NEW i \in Range(k.todo), i \in P2, m.batch = k.batch,
           Range(k.todo) \subseteq Range(k.batch), Range(m.todo) \subseteq Range(k.todo) \ {i}
    PROVE  Cardinality(Done(k, P)) + 1 <= Cardinality(Done(m, P2))
<1> DEFINE D == Done(k, P)
           E == Done(m, P2)
<1>1. D \cup {i} \subseteq E /\ i \notin D
    BY DEF Done
<1>2. IsFiniteSet(D) /\ Cardinality(D) \in Nat /\ IsFiniteSet(E) /\ Cardinality(E) \in Nat
    BY DoneFacts
<1> HIDE DEF D, E
<1>3. IsFiniteSet(D \cup {i}) /\ Cardinality(D \cup {i}) = Cardinality(D) + 1
    BY <1>1, <1>2, FS_AddElement
<1>4. Cardinality(D \cup {i}) <= Cardinality(E)
    BY <1>1, <1>2, FS_Subset
<1>5. Cardinality(D) + 1 <= Cardinality(E)
    BY <1>2, <1>3, <1>4
<1> QED
    BY <1>5 DEF D, E

\* The loop goes on without its message, as that one is present, is refused, or the
\* call says so by its session.
LEMMA Skips ==
    ASSUME IngestionInv, NEW c \in Calls, At(c, "lookup") \/ At(c, "insert"),
           call[c].todo # <<>>, NEW n \in Nat, NEW rest \in {<<>>, Tail(call[c].todo)},
           NEW dead \in BOOLEAN, call[c].dead => dead,
           ~dead => rest = Tail(call[c].todo),
           Head(call[c].todo) \in Knowns \/ Head(call[c].todo) \in Bad \/ dead,
           n = call[c].count \/ (n = call[c].count + 1 /\ Head(call[c].todo) \in Knowns
                                 /\ rest = Tail(call[c].todo)),
           Set(c, [call[c] EXCEPT !.pc = "lookup", !.todo = rest, !.count = n, !.dead = dead]),
           UNCHANGED <<upsert, rows, round>>
    PROVE  IngestionInv'
<1> DEFINE k == call[c]
           i == Head(k.todo)
           m == [k EXCEPT !.pc = "lookup", !.todo = rest, !.count = n, !.dead = dead]
<1>1. /\ k \in CallRecords /\ Right(k, Knowns, Presents)
      /\ Knowns \in SUBSET Items /\ Presents \in SUBSET Items /\ Knowns \subseteq Presents
    BY CallFacts
<1>2. /\ k.todo \in Seq(Items) /\ IsInjective(k.todo)
      /\ i \in Items /\ i \in Range(k.todo) /\ i \in Range(k.batch)
      /\ Tail(k.todo) \in Seq(Items) /\ IsInjective(Tail(k.todo))
      /\ Range(Tail(k.todo)) = Range(k.todo) \ {i}
      /\ Range(k.todo) \subseteq Range(k.batch)
      /\ k.added \in [Items -> Nat] /\ k.count \in Nat
    BY LoopFacts
<1>3. /\ rest \in Seq(Items) /\ IsInjective(rest) /\ Range(rest) \subseteq Range(k.todo) \ {i}
    BY <1>2, EmptyFacts
<1>4. /\ m \in CallRecords /\ m.pc = "lookup" /\ m.batch = k.batch /\ m.new = k.new
      /\ m.todo = rest /\ m.count = n /\ m.added = k.added /\ m.owed = k.owed /\ m.dead = dead
      /\ m.lost = k.lost
    BY <1>1, <1>3 DEF CallRecords
<1>5. Set(c, m)
    OBVIOUS
<1>6. k.pc \in {"lookup", "insert"}
    BY DEF At
<1> HIDE DEF m
<1>7. Shaped(m) /\ Staged(m) /\ Single(m, Knowns)
    BY <1>1, <1>2, <1>3, <1>4 DEF Right, Shaped, Staged, Single
<1>8. Covered(m, Knowns, Presents)
    BY <1>1, <1>2, <1>4, <1>6 DEF Right, Covered
<1>9. Counted(m, Presents)
    <2>1. k.count <= Cardinality(Done(k, Presents))
        BY <1>1 DEF Right, Counted
    <2>2. /\ Cardinality(Done(k, Presents)) \in Nat
          /\ IsFiniteSet(Done(m, Presents)) /\ Cardinality(Done(m, Presents)) \in Nat
        BY <1>1, <1>4, DoneFacts
    <2>3. n <= Cardinality(Done(m, Presents))
        <3>1. CASE n = k.count
            <4>1. Done(k, Presents) \subseteq Done(m, Presents)
                BY <1>3, <1>4 DEF Done
            <4>2. Cardinality(Done(k, Presents)) <= Cardinality(Done(m, Presents))
                BY <2>2, <4>1, FS_Subset
            <4> QED
                BY <1>2, <2>1, <2>2, <3>1, <4>2
        <3>2. CASE n = k.count + 1 /\ i \in Knowns /\ rest = Tail(k.todo)
            <4>1. Cardinality(Done(k, Presents)) + 1 <= Cardinality(Done(m, Presents))
                BY <1>1, <1>2, <1>4, <3>2, OneMoreDone
            <4> QED
                BY <1>2, <2>1, <2>2, <3>2, <4>1
        <3> QED
            BY <3>1, <3>2
    <2> QED
        BY <1>4, <2>3 DEF Counted
<1> QED
    BY <1>1, <1>4, <1>5, <1>7, <1>8, <1>9, CallTurns DEF Right

LEMMA LookupKeepsInv ==
    ASSUME IngestionInv, NEW c \in Calls, Lookup(c)
    PROVE  IngestionInv'
<1> DEFINE k == call[c]
           i == Head(k.todo)
<1>1. /\ k \in CallRecords /\ Right(k, Knowns, Presents)
      /\ Knowns \in SUBSET Items /\ Presents \in SUBSET Items
    BY CallFacts
<1>2. At(c, "lookup") /\ k.todo # <<>> /\ UNCHANGED <<upsert, rows, round>> /\ k.pc = "lookup"
    BY DEF Lookup, At
<1>3. i \in Items /\ k.count \in Nat /\ k.dead \in BOOLEAN
    BY <1>1, <1>2, LoopFacts DEF CallRecords
<1>4. CASE Known(i)
    <2> DEFINE n == IF k.loop = "create" THEN k.count + 1 ELSE k.count
    <2>1. i \in Knowns /\ n \in Nat /\ (n = k.count \/ n = k.count + 1)
        BY <1>3, <1>4 DEF Knowns
    <2>2. Set(c, [k EXCEPT !.todo = Tail(k.todo), !.count = n])
        BY <1>4 DEF Lookup
    <2>3. [k EXCEPT !.todo = Tail(k.todo), !.count = n]
             = [k EXCEPT !.pc = "lookup", !.todo = Tail(k.todo), !.count = n, !.dead = k.dead]
        BY <1>1, <1>2 DEF CallRecords
    <2> HIDE DEF n
    <2> QED
        BY <1>2, <1>3, <2>1, <2>2, <2>3, Skips
<1>5. CASE ~Known(i)
    <2> DEFINE m == [k EXCEPT !.pc = "insert"]
    <2>1. /\ m \in CallRecords /\ m.pc = "insert" /\ m.batch = k.batch /\ m.new = k.new
          /\ m.todo = k.todo /\ m.count = k.count /\ m.added = k.added /\ m.owed = k.owed
          /\ m.dead = k.dead /\ m.lost = k.lost
        BY <1>1 DEF CallRecords
    <2>2. Set(c, m)
        BY <1>5 DEF Lookup
    <2> HIDE DEF m
    <2>3. Right(m, Knowns, Presents)
        BY <1>1, <1>2, <2>1 DEF Right, Shaped, Staged, Covered, Single, Counted, Done
    <2> QED
        BY <1>2, <2>1, <2>2, <2>3, CallTurns
<1> QED
    BY <1>4, <1>5

LEMMA InsertFailsKeepsInv ==
    ASSUME IngestionInv, NEW c \in Calls, InsertFails(c)
    PROVE  IngestionInv'
<1> DEFINE k == call[c]
           i == Head(k.todo)
<1>1. k \in CallRecords /\ Right(k, Knowns, Presents)
    BY CallFacts
<1>2. At(c, "insert") /\ UNCHANGED <<upsert, rows, round>> /\ k.pc = "insert" /\ k.todo # <<>>
    BY <1>1 DEF InsertFails, At, Right, Staged
<1>3. i \in Items /\ k.count \in Nat /\ k.dead \in BOOLEAN
    BY <1>1, <1>2, LoopFacts DEF CallRecords
<1>4. i \in Knowns \/ i \in Bad
    BY <1>3 DEF InsertFails, Knowns
<1>5. CASE k.loop = "fallback"
    <2>1. Set(c, [k EXCEPT !.pc = "lookup", !.todo = Tail(k.todo)])
        BY <1>5 DEF InsertFails, AfterFailure
    <2>2. [k EXCEPT !.pc = "lookup", !.todo = Tail(k.todo)]
             = [k EXCEPT !.pc = "lookup", !.todo = Tail(k.todo), !.count = k.count, !.dead = k.dead]
        BY <1>1 DEF CallRecords
    <2> QED
        BY <1>2, <1>3, <1>4, <2>1, <2>2, Skips
<1>6. CASE k.loop # "fallback"
    <2>1. Set(c, [k EXCEPT !.pc = "lookup", !.todo = <<>>, !.dead = TRUE])
        BY <1>6 DEF InsertFails, AfterFailure
    <2>2. [k EXCEPT !.pc = "lookup", !.todo = <<>>, !.dead = TRUE]
             = [k EXCEPT !.pc = "lookup", !.todo = <<>>, !.count = k.count, !.dead = TRUE]
        BY <1>1 DEF CallRecords
    <2> QED
        BY <1>2, <1>3, <1>4, <2>1, <2>2, Skips
<1> QED
    BY <1>5, <1>6

\* A message is stored, whether its call hears of it or not.
LEMMA InsertKeepsInv ==
    ASSUME IngestionInv, NEW c \in Calls, At(c, "insert"), ~Known(Head(call[c].todo)),
           NEW n \in {call[c].count, call[c].count + 1},
           NEW rest \in {<<>>, Tail(call[c].todo)}, NEW dead \in BOOLEAN, call[c].dead => dead,
           ~dead => rest = Tail(call[c].todo),
           rows' = Plus(rows, {Head(call[c].todo)}), UNCHANGED <<upsert, round>>,
           Set(c, [call[c] EXCEPT !.pc = "lookup", !.todo = rest, !.count = n, !.dead = dead,
                                  !.added = Plus(@, {Head(call[c].todo)})])
    PROVE  IngestionInv'
<1> DEFINE k == call[c]
           i == Head(k.todo)
           added == Plus(k.added, {i})
           m == [k EXCEPT !.pc = "lookup", !.todo = rest, !.count = n, !.dead = dead,
                          !.added = added]
<1>1. /\ k \in CallRecords /\ Right(k, Knowns, Presents) /\ rows \in [Items -> Nat]
      /\ Knowns \in SUBSET Items /\ Presents \in SUBSET Items
    BY CallFacts
<1>2. /\ k.pc = "insert" /\ k.todo # <<>> /\ ~Known(i) /\ rows' = Plus(rows, {i}) /\ Set(c, m)
    BY <1>1 DEF At, Right, Staged
<1>3. /\ k.todo \in Seq(Items) /\ IsInjective(k.todo)
      /\ i \in Items /\ i \in Range(k.todo) /\ i \in Range(k.batch)
      /\ rest \in Seq(Items) /\ IsInjective(rest) /\ Range(rest) \subseteq Range(k.todo) \ {i}
      /\ ~dead => Range(rest) = Range(k.todo) \ {i}
      /\ Range(k.todo) \subseteq Range(k.batch)
      /\ k.added \in [Items -> Nat] /\ k.count \in Nat
    BY <1>2, LoopFacts, EmptyFacts
<1>4. /\ added \in [Items -> Nat]
      /\ added[i] = k.added[i] + 1
      /\ \A j \in Items \ {i} : added[j] = k.added[j]
    BY <1>3 DEF Plus
<1>5. n \in Nat /\ n <= k.count + 1
    BY <1>3
<1> HIDE DEF i, added
<1>6. /\ m \in CallRecords /\ m.pc = "lookup" /\ m.batch = k.batch /\ m.new = k.new
      /\ m.todo = rest /\ m.count = n /\ m.added = added
      /\ m.owed = k.owed /\ m.dead = dead /\ m.lost = k.lost
    BY <1>1, <1>3, <1>4, <1>5 DEF CallRecords
<1> HIDE DEF m
<1>7. /\ rows' \in [Items -> Nat] /\ Knowns \subseteq Knowns' /\ Presents \subseteq Presents'
      /\ i \in Presents'
    BY <1>1, <1>2, <1>3, RowsGrow
<1>8. Shaped(m) /\ Staged(m)
    BY <1>1, <1>3, <1>6 DEF Right, Shaped, Staged
<1>9. Covered(m, Knowns', Presents')
    BY <1>1, <1>2, <1>3, <1>6, <1>7 DEF Right, Covered
<1>10. Single(m, Knowns')
    <2> SUFFICES ASSUME NEW j \in Items
                 PROVE  IF Ext[j] = NoId /\ m.lost
                        THEN m.added[j] <= 2 /\ (j \in Range(m.todo) => m.added[j] <= 1)
                        ELSE /\ m.added[j] <= 1
                             /\ j \in Range(m.todo) /\ m.added[j] > 0 => j \in Knowns'
        BY DEF Single
    <2>1. /\ k.added[j] \in Nat
          /\ IF Ext[j] = NoId /\ k.lost
             THEN k.added[j] <= 2 /\ (j \in Range(k.todo) => k.added[j] <= 1)
             ELSE k.added[j] <= 1 /\ (j \in Range(k.todo) /\ k.added[j] > 0 => j \in Knowns)
        BY <1>1, <1>3 DEF Right, Single
    <2>2. CASE j = i
        <3>1. i \notin Knowns /\ i \notin Range(rest)
            BY <1>2, <1>3 DEF Knowns
        <3>2. IF Ext[j] = NoId /\ k.lost THEN k.added[i] <= 1 ELSE k.added[i] = 0
            BY <1>3, <2>1, <2>2, <3>1
        <3> QED
            BY <1>4, <1>6, <2>1, <2>2, <3>1, <3>2
    <2>3. CASE j # i
        <3>1. m.added[j] = k.added[j] /\ (j \in Range(m.todo) => j \in Range(k.todo))
            BY <1>3, <1>4, <1>6, <2>3
        <3> QED
            BY <1>6, <1>7, <2>1, <3>1
    <2> QED
        BY <2>2, <2>3
<1>11. Counted(m, Presents')
    <2>1. k.count <= Cardinality(Done(k, Presents))
        BY <1>1 DEF Right, Counted
    <2>2. Presents' \in SUBSET Items
        BY DEF Presents
    <2>3. Cardinality(Done(k, Presents)) \in Nat /\ Cardinality(Done(m, Presents')) \in Nat
        BY <1>1, <1>6, <2>2, DoneFacts
    <2>4. Cardinality(Done(k, Presents)) + 1 <= Cardinality(Done(m, Presents'))
        BY <1>1, <1>3, <1>6, <1>7, <2>2, OneMoreDone
    <2> QED
        BY <1>3, <1>5, <1>6, <2>1, <2>3, <2>4 DEF Counted
<1>12. upsert' \in BOOLEAN /\ round' \in 0..Rounds
    BY <1>2 DEF IngestionInv, TypeOK
<1> QED
    BY <1>2, <1>6, <1>7, <1>8, <1>9, <1>10, <1>11, <1>12, CallMoves DEF Right

LEMMA InsertOneKeepsInv ==
    ASSUME IngestionInv, NEW c \in Calls, InsertOne(c)
    PROVE  IngestionInv'
<1> DEFINE k == call[c]
<1>1. k \in CallRecords
    BY CallFacts
<1>2. At(c, "insert") /\ UNCHANGED <<upsert, round>> /\ k.dead \in BOOLEAN
    BY <1>1 DEF InsertOne, CallRecords
<1>3. [k EXCEPT !.pc = "lookup", !.todo = Tail(@), !.count = @ + 1, !.added = Plus(@, {Head(k.todo)})]
         = [k EXCEPT !.pc = "lookup", !.todo = Tail(k.todo), !.count = k.count + 1,
                     !.dead = k.dead, !.added = Plus(@, {Head(k.todo)})]
    BY <1>1 DEF CallRecords
<1> QED
    BY <1>2, <1>3, InsertKeepsInv DEF InsertOne

LEMMA InsertAnswerLostKeepsInv ==
    ASSUME IngestionInv, NEW c \in Calls, InsertAnswerLost(c)
    PROVE  IngestionInv'
<1> DEFINE k == call[c]
           S == {Head(k.todo)}
<1>1. k \in CallRecords
    BY CallFacts
<1>2. /\ At(c, "insert") /\ UNCHANGED <<upsert, round>> /\ k.dead \in BOOLEAN
      /\ Set(c, [AfterFailure(c) EXCEPT !.added = Plus(@, S)])
      /\ ~Known(Head(k.todo)) /\ rows' = Plus(rows, S)
    BY <1>1 DEF InsertAnswerLost, CallRecords
<1> HIDE DEF S
<1>3. CASE k.loop = "fallback"
    <2>1. [AfterFailure(c) EXCEPT !.added = Plus(@, S)]
             = [k EXCEPT !.pc = "lookup", !.todo = Tail(k.todo), !.count = k.count,
                         !.dead = k.dead, !.added = Plus(@, S)]
        BY <1>1, <1>3 DEF AfterFailure, CallRecords
    <2> QED
        BY <1>2, <2>1, InsertKeepsInv DEF S
<1>4. CASE k.loop # "fallback"
    <2>1. [AfterFailure(c) EXCEPT !.added = Plus(@, S)]
             = [k EXCEPT !.pc = "lookup", !.todo = <<>>, !.count = k.count,
                         !.dead = TRUE, !.added = Plus(@, S)]
        BY <1>1, <1>4 DEF AfterFailure, CallRecords
    <2> QED
        BY <1>2, <2>1, InsertKeepsInv DEF S
<1> QED
    BY <1>3, <1>4

LEMMA EndKeepsInv ==
    ASSUME IngestionInv, NEW c \in Calls, LoopDone(c) \/ Reply(c)
    PROVE  IngestionInv'
<1> DEFINE k == call[c]
<1>1. k \in CallRecords /\ Right(k, Knowns, Presents)
    BY CallFacts
<1>2. PICK pc \in {"reply", "done", "failed"} :
          Set(c, [k EXCEPT !.pc = pc]) /\ UNCHANGED <<upsert, rows, round>>
    BY DEF LoopDone, Reply
<1>3. k.pc \in {"lookup", "reply"} /\ k.todo = <<>>
    BY <1>1 DEF LoopDone, Reply, At, Right, Staged
<1> DEFINE m == [k EXCEPT !.pc = pc]
<1>4. /\ m \in CallRecords /\ m.pc = pc /\ m.batch = k.batch /\ m.new = k.new
      /\ m.todo = k.todo /\ m.count = k.count /\ m.added = k.added /\ m.owed = k.owed
      /\ m.dead = k.dead /\ m.lost = k.lost
    BY <1>1 DEF CallRecords
<1> HIDE DEF m
<1>5. Shaped(m) /\ Single(m, Knowns) /\ Counted(m, Presents)
    BY <1>1, <1>4 DEF Right, Shaped, Single, Counted, Done
<1>6. Staged(m) /\ Covered(m, Knowns, Presents)
    BY <1>1, <1>2, <1>3, <1>4 DEF Right, Staged, Covered
<1> QED
    BY <1>2, <1>4, <1>5, <1>6, CallTurns DEF Right, m

-----------------------------------------------------------------------------
(* The theorems *)

LEMMA InitInv == Init => IngestionInv
<1> SUFFICES ASSUME Init PROVE IngestionInv
    OBVIOUS
<1>1. TypeOK
    BY IdleFacts, IngestionAssumption DEF Init, TypeOK
<1>2. Knowns \in SUBSET Items /\ Presents \in SUBSET Items
    BY DEF Knowns, Presents
<1>3. Idle.count = 0 /\ Idle.todo = <<>> /\ Idle.pc = "idle"
    BY DEF Idle
<1>4. Idle \in CallRecords /\ Shaped(Idle) /\ \A i \in Items : Idle.added[i] = 0
    BY IdleFacts
<1>5. Right(Idle, Knowns, Presents)
    BY <1>2, <1>3, <1>4, FreshCall
<1> QED
    BY <1>1, <1>5 DEF Init, IngestionInv

LEMMA NextKeepsInv == IngestionInv /\ [Next]_vars => IngestionInv'
<1> SUFFICES ASSUME IngestionInv, [Next]_vars PROVE IngestionInv'
    OBVIOUS
<1>1. CASE UNCHANGED vars
    <2>1. UNCHANGED <<upsert, rows, call, round>>
        BY <1>1 DEF vars
    <2>2. TypeOK' /\ Knowns' = Knowns /\ Presents' = Presents
        BY <2>1, SameRows DEF IngestionInv, TypeOK
    <2> QED
        BY <2>1, <2>2 DEF IngestionInv
<1>2. ASSUME NEW c \in Calls, NEW batch \in Batches, Deliver(c, batch) \/ Import(c, batch)
      PROVE  IngestionInv'
    BY <1>2, SourceKeepsInv
<1>3. ASSUME NEW c \in Calls, NEW files \in Storages, ReadStorage(c, files)
      PROVE  IngestionInv'
    BY <1>3, SourceKeepsInv
<1>4. ASSUME NEW c \in Calls, StartFetch(c) PROVE IngestionInv'
    BY <1>4, SourceKeepsInv
<1>5. ASSUME NEW c \in Calls, Fetch(c) PROVE IngestionInv'
    BY <1>5, FetchKeepsInv
<1>6. ASSUME NEW c \in Calls, Store(c) PROVE IngestionInv'
    BY <1>6, CheckKeepsInv, BulkInsertKeepsInv, BulkKeepsInv, LookupKeepsInv,
       InsertOneKeepsInv, InsertFailsKeepsInv, InsertAnswerLostKeepsInv, EndKeepsInv DEF Store
<1> QED
    BY <1>1, <1>2, <1>3, <1>4, <1>5, <1>6 DEF Next

LEMMA IngestionInvHolds == Spec => []IngestionInv
BY InitInv, NextKeepsInv, PTL DEF Spec

\* Every variable keeps its type, and with it the local variables of each call.
THEOREM IngestionTypeCorrect == Spec => []TypeOK
<1>1. IngestionInv => TypeOK
    BY DEF IngestionInv
<1> QED
    BY <1>1, IngestionInvHolds, PTL

\* For any messages, sources and overlapping calls, with every failure of a bulk or
\* a single insert and with answers of the database that are lost: a call that has
\* answered, in a session that survived, left no message out that the source held
\* and the database takes.
THEOREM NothingIsLost == Spec => []NothingLost
<1>1. IngestionInv => NothingLost
    <2> SUFFICES ASSUME IngestionInv, NEW c \in Calls, Answered(c), ~call[c].dead,
                        NEW i \in call[c].owed \ Bad
                 PROVE  Present(i)
        BY DEF NothingLost
    <2>1. /\ call[c].owed \subseteq Range(call[c].batch) /\ call[c].todo = <<>>
          /\ Range(call[c].batch) \ Bad \subseteq Presents \cup Range(call[c].todo)
        BY CallFacts DEF Answered, Right, Shaped, Staged, Covered
    <2>2. i \in Presents
        BY <2>1, EmptyFacts
    <2> QED
        BY <2>2 DEF Presents
<1> QED
    BY <1>1, IngestionInvHolds, PTL

\* One call stores a message once, in every error and also when the database commits
\* its bulk insert and the answer is lost: the retry finds what has an external id.
\* What has none is repeated in that case only, and no more than once.
THEOREM MessagesAreStoredOnce == Spec => []StoredOnce
<1>1. IngestionInv => StoredOnce
    BY CallFacts DEF StoredOnce, Right, Single
<1> QED
    BY <1>1, IngestionInvHolds, PTL

LEMMA CountedPresent ==
    ASSUME IngestionInv, NEW c \in Calls
    PROVE  call[c].count
              <= Cardinality({k \in DOMAIN call[c].batch : Present(call[c].batch[k])})
<1> DEFINE k == call[c]
           S == Range(k.batch) \cap Presents
<1>1. k \in CallRecords /\ Right(k, Knowns, Presents) /\ Presents \in SUBSET Items
    BY CallFacts
<1>2. /\ k.count <= Cardinality(Done(k, Presents)) /\ k.count \in Nat
      /\ k.batch \in Seq(Items) /\ IsInjective(k.batch)
    BY <1>1 DEF CallRecords, Right, Counted, Shaped
<1>3. IsFiniteSet(S) /\ Done(k, Presents) \subseteq S /\ Cardinality(Done(k, Presents)) \in Nat
    BY <1>1, <1>2, FiniteRange, FS_Subset, DoneFacts DEF Done
<1>4. Cardinality(Done(k, Presents)) <= Cardinality(S) /\ Cardinality(S) \in Nat
    BY <1>3, FS_Subset, FS_CardinalityType
<1>5. {n \in DOMAIN k.batch : Present(k.batch[n])} = {n \in DOMAIN k.batch : k.batch[n] \in Presents}
    BY <1>2 DEF Presents
<1>6. Cardinality({n \in DOMAIN k.batch : k.batch[n] \in Presents}) = Cardinality(S)
    BY <1>2, PlacesCounted
<1> HIDE DEF k, S
<1>7. k.count <= Cardinality(S)
    BY <1>2, <1>3, <1>4
<1> QED
    BY <1>5, <1>6, <1>7 DEF k

\* bulk_create, _bulk_create_fallback and create of repositories.py: no call counts
\* more messages than its batch has in the table, whatever fails and whichever
\* answer is lost.
THEOREM CountedMessagesAreStored == Spec => []CountedIsStored
<1>1. IngestionInv => CountedIsStored
    BY CountedPresent DEF CountedIsStored
<1> QED
    BY <1>1, IngestionInvHolds, PTL
===============================================================================
