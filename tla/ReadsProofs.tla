------------------------------ MODULE ReadsProofs -----------------------------
(***************************************************************************)
(* What the two caches and the lists of rules guarantee for any contents,  *)
(* TTL, limits and number of processes, with every fault.  EmbeddingCache: *)
(* the vector of a text is its own, and is served for less than three TTLs.*)
(* ResultCache: a result belongs to the model version it is served for,    *)
(* and is served for one.  PatasApi: walks and analyses miss no rule that  *)
(* stays.  At the end the three side by side, as Reads composes them.      *)
(***************************************************************************)
EXTENDS Reads, FiniteSums, SequenceTheorems

-----------------------------------------------------------------------------
(* EmbeddingCache: the inductive invariant *)

\* A vector in hand is one of its text, and not too old.
Sound(v, x) == v # None => v.of = x /\ v.seen - v.born < 3 * TTL

\* The vectors that were not found stand in `missing`, in the order of the list.
Placed(k) ==
    /\ Place(k.found, Len(k.found)) = Len(k.missing)
    /\ \A i \in 1..Len(k.found) : k.found[i] = None =>
        /\ Place(k.found, i) \in 1..Len(k.missing)
        /\ k.missing[Place(k.found, i)] = k.texts[i]

\* As many vectors as texts were asked for are the vectors of those texts.
InOrder(k) ==
    /\ Len(k.got) <= k.asked /\ k.asked <= Len(k.missing)
    /\ Len(k.got) = k.asked => \A i \in 1..Len(k.got) : k.got[i] = k.missing[i]

WellFormed(k) ==
    /\ Len(k.found) <= Len(k.texts)
    /\ k.pc = "lookup" => Len(k.found) < Len(k.texts) /\ k.asked = 0 /\ k.got = <<>>
    /\ k.pc \in {"ask", "store", "done"} => Len(k.found) = Len(k.texts)
    /\ k.pc \in {"lookup", "ask", "store"} => Placed(k)
    /\ k.pc = "store" => k.asked = Len(k.missing)
    /\ k.pc = "done" => \A i \in 1..Len(k.found) : k.found[i] # None
    /\ InOrder(k)
    /\ \A i \in 1..Len(k.found) : Sound(k.found[i], k.texts[i])

\* What a tier holds is of its text, and each refill adds one TTL.
RedisGood(e, x) == e # None => e.of = x /\ clock < e.until /\ e.until <= e.born + 2 * TTL
SqliteGood(e, x) == e # None => e.of = x /\ e.until <= e.born + TTL
LocalGood(e, x) == e # None => e.of = x /\ clock < e.until /\ e.until < e.born + 3 * TTL

TiersGood ==
    \A x \in Texts :
        /\ RedisGood(redis[x], x)
        /\ SqliteGood(sqlite[x], x)
        /\ \A p \in Procs : LocalGood(local[p][x], x)

CacheInv == TypeOK /\ TiersGood /\ \A c \in Calls : WellFormed(call[c])

-----------------------------------------------------------------------------
(* One call *)

LEMMA Constants ==
    /\ \A c \in Calls : ProcOf[c] \in Procs
    /\ \A texts \in Requests : texts \in Seq(Texts) /\ texts # <<>>
    /\ TTL \in Nat /\ TTL > 0
    /\ BatchSize \in Nat /\ BatchSize > 0
    /\ None \notin Vectors
BY CacheAssumption DEF CacheAssumption, Vectors

LEMMA PlaceType ==
    ASSUME NEW found, NEW i \in Nat
    PROVE  Place(found, i) \in Nat /\ Place(found, 0) = 0
<1>1. IsFiniteSet({j \in 1..i : found[j] = None})
    <2>1. IsFiniteSet(1..i)
        BY FS_Interval
    <2>2. {j \in 1..i : found[j] = None} \in SUBSET (1..i)
        OBVIOUS
    <2> QED
        BY <2>1, <2>2, FS_Subset
<1>2. {j \in 1..0 : found[j] = None} = {}
    OBVIOUS
<1> QED
    BY <1>1, <1>2, FS_CardinalityType, FS_EmptySet DEF Place

\* One more text changes the place of no earlier one.
LEMMA PlaceAppend ==
    ASSUME NEW S, NEW found \in Seq(S), NEW v
    PROVE  /\ \A i \in 0..Len(found) : Place(Append(found, v), i) = Place(found, i)
           /\ v = None => Place(Append(found, v), Len(found) + 1) = Place(found, Len(found)) + 1
           /\ v # None => Place(Append(found, v), Len(found) + 1) = Place(found, Len(found))
<1> DEFINE n == Len(found)
           longer == Append(found, v)
           T == {j \in 1..n : found[j] = None}
           U == {j \in 1..(n + 1) : longer[j] = None}
<1>1. n \in Nat /\ longer[n + 1] = v /\ \A j \in 1..n : longer[j] = found[j]
    OBVIOUS
<1>2. ASSUME NEW i \in 0..n PROVE Place(longer, i) = Place(found, i)
    <2>1. {j \in 1..i : longer[j] = None} = {j \in 1..i : found[j] = None}
        BY <1>1
    <2> QED
        BY <2>1 DEF Place
<1>3. IsFiniteSet(T) /\ n + 1 \notin T
    <2>1. IsFiniteSet(1..n)
        BY <1>1, FS_Interval
    <2>2. T \in SUBSET (1..n)
        OBVIOUS
    <2>3. n + 1 \notin T
        BY <1>1
    <2> HIDE DEF T
    <2> QED
        BY <2>1, <2>2, <2>3, FS_Subset
<1>4. ASSUME v = None PROVE Place(longer, n + 1) = Place(found, n) + 1
    <2>1. U = T \cup {n + 1}
        BY <1>1, <1>4
    <2>2. Cardinality(U) = Cardinality(T) + 1
        BY <1>3, <2>1, FS_AddElement
    <2> QED
        BY <2>2 DEF Place
<1>5. ASSUME v # None PROVE Place(longer, n + 1) = Place(found, n)
    <2>1. U = T
        BY <1>1, <1>5
    <2> QED
        BY <2>1 DEF Place
<1> QED
    BY <1>2, <1>4, <1>5
LEMMA Fields ==
    ASSUME NEW k \in CallRecords
    PROVE  /\ k.texts \in Seq(Texts) /\ k.missing \in Seq(Texts) /\ k.got \in Seq(Texts)
           /\ k.found \in Seq(Vectors \cup {None})
           /\ k.asked \in Nat /\ k.stored \in Nat
           /\ Len(k.texts) \in Nat /\ Len(k.missing) \in Nat /\ Len(k.got) \in Nat
           /\ Len(k.found) \in Nat
BY DEF CallRecords

\* A text is found, or it joins those that are missing.
LEMMA LookedGood ==
    ASSUME NEW k \in CallRecords, WellFormed(k), k.pc = "lookup",
           NEW v \in Vectors \cup {None}, Sound(v, k.texts[Len(k.found) + 1])
    PROVE  Looked(k, v) \in CallRecords /\ WellFormed(Looked(k, v))
<1> DEFINE n == Len(k.found)
           x == k.texts[n + 1]
           found == Append(k.found, v)
           missing == IF v = None THEN Append(k.missing, x) ELSE k.missing
           pc == IF n + 1 < Len(k.texts) THEN "lookup"
                 ELSE IF missing = <<>> THEN "done" ELSE "ask"
           m == Looked(k, v)
<1>1. /\ n \in Nat /\ n < Len(k.texts) /\ k.asked = 0 /\ k.got = <<>> /\ Placed(k)
      /\ \A i \in 1..n : Sound(k.found[i], k.texts[i])
    BY Fields DEF WellFormed
<1>2. x \in Texts
    BY <1>1, Fields
<1>3. /\ found \in Seq(Vectors \cup {None}) /\ Len(found) = n + 1
      /\ found[n + 1] = v /\ \A i \in 1..n : found[i] = k.found[i]
    BY Fields
<1>4. missing \in Seq(Texts)
    BY <1>2, Fields
<1>5. m = [k EXCEPT !.found = found, !.missing = missing, !.pc = pc]
    BY <1>3 DEF Looked
<1>6. pc \in {"lookup", "ask", "done"}
    OBVIOUS
<1>7. m \in CallRecords
    BY <1>3, <1>4, <1>5, <1>6 DEF CallRecords
<1>8. /\ m.pc = pc /\ m.texts = k.texts /\ m.found = found /\ m.missing = missing
      /\ m.asked = 0 /\ m.got = <<>> /\ m.stored = k.stored
    BY <1>1, <1>5 DEF CallRecords
<1>9. \A i \in 1..(n + 1) : Sound(found[i], k.texts[i])
    BY <1>1, <1>3
<1>10. Place(found, n + 1) = Len(missing)
    <2>1. Place(k.found, n) = Len(k.missing)
        BY <1>1 DEF Placed
    <2> QED
        BY <2>1, PlaceAppend, Fields
<1>11. ASSUME NEW i \in 1..(n + 1), found[i] = None
       PROVE  Place(found, i) \in 1..Len(missing) /\ missing[Place(found, i)] = k.texts[i]
    <2>1. CASE i = n + 1
        <3>1. v = None /\ missing = Append(k.missing, x)
            BY <1>3, <1>11, <2>1
        <3> QED
            BY <1>10, <2>1, <3>1, Fields
    <2>2. CASE i \in 1..n
        <3>1. k.found[i] = None /\ Place(found, i) = Place(k.found, i)
            BY <1>3, <1>11, <2>2, PlaceAppend, Fields
        <3>2. /\ Place(k.found, i) \in 1..Len(k.missing)
              /\ k.missing[Place(k.found, i)] = k.texts[i]
            BY <1>1, <2>2, <3>1 DEF Placed
        <3>3. Place(k.found, i) \in 1..Len(missing)
                /\ missing[Place(k.found, i)] = k.missing[Place(k.found, i)]
            BY <3>2, Fields
        <3> QED
            BY <3>1, <3>2, <3>3
    <2> QED
        BY <1>1, <2>1, <2>2
<1> HIDE DEF found, missing, x, m, pc, n
<1>12. Placed(m)
    BY <1>3, <1>8, <1>10, <1>11 DEF Placed
<1>13. InOrder(m)
    BY <1>4, <1>8 DEF InOrder
<1>14. ASSUME pc = "done" PROVE \A i \in 1..(n + 1) : found[i] # None
    <2>1. missing = <<>>
        BY <1>14 DEF pc
    <2>2. Len(missing) = 0
        BY <2>1
    <2> QED
        BY <1>11, <2>2
<1>15. /\ pc = "lookup" => n + 1 < Len(k.texts)
       /\ pc # "lookup" => n + 1 = Len(k.texts)
    BY <1>1, Fields DEF pc
<1>16. pc # "store"
    BY DEF pc
<1>17. WellFormed(m)
    BY <1>1, <1>3, <1>8, <1>9, <1>12, <1>13, <1>14, <1>15, <1>16, Fields DEF WellFormed
<1> QED
    BY <1>7, <1>17 DEF m
LEMMA BatchFacts ==
    ASSUME NEW k \in CallRecords, WellFormed(k)
    PROVE  /\ Last(k) \in Nat /\ k.asked <= Last(k) /\ Last(k) <= Len(k.missing)
           /\ Batch(k) \in Seq(Texts) /\ Len(Batch(k)) = Last(k) - k.asked
           /\ \A j \in 1..Len(Batch(k)) : Batch(k)[j] = k.missing[k.asked + j]
<1>1. k.asked <= Len(k.missing) /\ k.asked \in Nat /\ Len(k.missing) \in Nat
    BY Fields DEF WellFormed, InOrder
<1>2. Last(k) \in Nat /\ k.asked <= Last(k) /\ Last(k) <= Len(k.missing)
    BY <1>1, Constants DEF Last
<1>3. k.missing \in Seq(Texts)
    BY Fields
<1> DEFINE a == k.asked
           b == Last(k)
           s == k.missing
<1>4. ASSUME NEW T, NEW q \in Seq(T), NEW i \in Nat, NEW j \in Nat, i <= j, j <= Len(q)
      PROVE  /\ SubSeq(q, i + 1, j) \in Seq(T) /\ Len(SubSeq(q, i + 1, j)) = j - i
             /\ \A l \in 1..(j - i) : SubSeq(q, i + 1, j)[l] = q[i + l]
    BY <1>4
<1>5. /\ SubSeq(s, a + 1, b) \in Seq(Texts) /\ Len(SubSeq(s, a + 1, b)) = b - a
      /\ \A l \in 1..(b - a) : SubSeq(s, a + 1, b)[l] = s[a + l]
    <2> HIDE DEF a, b, s
    <2>1. a \in Nat /\ b \in Nat /\ a <= b /\ b <= Len(s) /\ s \in Seq(Texts)
        BY <1>1, <1>2, <1>3 DEF a, b, s
    <2> QED
        BY <1>4, <2>1
<1>6. Batch(k) = SubSeq(s, a + 1, b)
    BY DEF Batch
<1>7. Len(Batch(k)) = b - a /\ \A l \in 1..(b - a) : Batch(k)[l] = s[a + l]
    BY <1>5, <1>6
<1> QED
    BY <1>2, <1>5, <1>6, <1>7

\* What an answer leaves out is missed in the count.
LEMMA AnsweredGood ==
    ASSUME NEW k \in CallRecords, WellFormed(k), k.pc = "ask",
           NEW vectors \in Seq(Texts), Len(vectors) <= Len(Batch(k)),
           Len(vectors) = Len(Batch(k)) => vectors = Batch(k),
           NEW m, m = [k EXCEPT !.got = @ \o vectors, !.asked = Last(k),
                                !.pc = IF Last(k) < Len(k.missing) THEN "ask" ELSE "store"]
    PROVE  m \in CallRecords /\ WellFormed(m)
<1> DEFINE got == k.got \o vectors
           pc == IF Last(k) < Len(k.missing) THEN "ask" ELSE "store"
           a == k.asked
           b == Last(k)
<1>1. /\ a \in Nat /\ b \in Nat /\ a <= b /\ b <= Len(k.missing)
      /\ Len(Batch(k)) = b - a
      /\ \A j \in 1..Len(Batch(k)) : Batch(k)[j] = k.missing[a + j]
    BY BatchFacts, Fields
<1>2. /\ Len(k.got) <= a /\ Len(k.got) \in Nat /\ Len(vectors) \in Nat
      /\ Len(k.got) = a => \A i \in 1..Len(k.got) : k.got[i] = k.missing[i]
    BY Fields DEF WellFormed, InOrder
<1>3. /\ got \in Seq(Texts) /\ Len(got) = Len(k.got) + Len(vectors)
      /\ \A i \in 1..Len(k.got) : got[i] = k.got[i]
      /\ \A i \in 1..Len(vectors) : got[Len(k.got) + i] = vectors[i]
    BY Fields
<1>4. pc \in {"ask", "store"} /\ (pc = "ask" => b < Len(k.missing)) /\ (pc = "store" => b = Len(k.missing))
    BY <1>1, Fields
<1>5. m = [k EXCEPT !.got = got, !.asked = b, !.pc = pc]
    BY DEF CallRecords
<1>6. m \in CallRecords
    BY <1>1, <1>3, <1>4, <1>5 DEF CallRecords
<1>7. /\ m.pc = pc /\ m.texts = k.texts /\ m.found = k.found /\ m.missing = k.missing
      /\ m.asked = b /\ m.got = got
    BY <1>5 DEF CallRecords
<1> HIDE DEF got, pc, b
<1>8. ASSUME Len(got) = b, NEW i \in 1..Len(got) PROVE got[i] = k.missing[i]
    <2>1. Len(k.got) = a /\ Len(vectors) = Len(Batch(k)) /\ vectors = Batch(k)
        BY <1>1, <1>2, <1>3, <1>8
    <2>2. CASE i \in 1..Len(k.got)
        BY <1>2, <1>3, <2>1, <2>2
    <2>3. CASE i > Len(k.got)
        <3>1. i - a \in 1..Len(vectors) /\ i = Len(k.got) + (i - a)
            <4>1. i \in Nat /\ a \in Nat /\ Len(vectors) \in Nat /\ Len(k.got) = a
                BY <1>1, <1>2, <2>1
            <4>2. i <= a + Len(vectors) /\ a < i
                BY <1>3, <2>1, <2>3, <4>1
            <4> QED
                BY <4>1, <4>2
        <3>2. got[i] = vectors[i - a]
            BY <1>3, <3>1
        <3>3. Batch(k)[i - a] = k.missing[a + (i - a)]
            BY <1>1, <2>1, <3>1
        <3>4. a + (i - a) = i
            BY <1>1, <3>1
        <3> QED
            BY <2>1, <3>2, <3>3, <3>4
    <2> QED
        BY <1>2, <1>3, <2>2, <2>3
<1>9. InOrder(m)
    BY <1>1, <1>2, <1>3, <1>7, <1>8 DEF InOrder
<1>10. Placed(m)
    <2>1. Placed(k)
        BY DEF WellFormed
    <2> QED
        BY <1>7, <2>1 DEF Placed
<1>11. WellFormed(m)
    BY <1>4, <1>7, <1>9, <1>10 DEF WellFormed
<1> QED
    BY <1>6, <1>11

LEMMA WithoutShorter ==
    ASSUME NEW s \in Seq(Texts), NEW i \in 1..Len(s)
    PROVE  Without(s, i) \in Seq(Texts) /\ Len(Without(s, i)) = Len(s) - 1
<1> DEFINE l == SubSeq(s, 1, i - 1)
           r == SubSeq(s, i + 1, Len(s))
<1>1. l \in Seq(Texts) /\ Len(l) = i - 1
    OBVIOUS
<1>2. r \in Seq(Texts) /\ Len(r) = Len(s) - i
    OBVIOUS
<1>3. Without(s, i) = l \o r
    BY DEF Without
<1> HIDE DEF l, r
<1>4. ASSUME NEW x \in Seq(Texts), NEW y \in Seq(Texts)
      PROVE  x \o y \in Seq(Texts) /\ Len(x \o y) = Len(x) + Len(y)
    OBVIOUS
<1>5. l \o r \in Seq(Texts) /\ Len(l \o r) = Len(l) + Len(r)
    BY <1>1, <1>2, <1>4
<1>6. Len(s) \in Nat /\ i \in Int
    OBVIOUS
<1>7. (i - 1) + (Len(s) - i) = Len(s) - 1
    BY <1>6
<1> QED
    BY <1>1, <1>2, <1>3, <1>5, <1>7
\* The merge has enough vectors only when it has the right ones.
LEMMA MergedGood ==
    ASSUME clock \in Nat, NEW k \in CallRecords, WellFormed(k), k.pc = "store",
           ~(Len(k.got) < Len(k.missing)),
           NEW m, m = [k EXCEPT !.pc = "done", !.found = Merged(k)]
    PROVE  m \in CallRecords /\ WellFormed(m)
<1> DEFINE n == Len(k.found)
           found == Merged(k)
<1>1. /\ n \in Nat /\ n = Len(k.texts) /\ Len(k.got) = Len(k.missing)
      /\ \A i \in 1..Len(k.got) : k.got[i] = k.missing[i]
      /\ Placed(k)
    BY Fields DEF WellFormed, InOrder
<1>2. ASSUME NEW i \in 1..n
      PROVE  found[i] \in Vectors /\ found[i] # None /\ Sound(found[i], k.texts[i])
    <2>1. CASE k.found[i] = None
        <3> DEFINE v == k.got[Place(k.found, i)]
        <3>1. v = k.texts[i]
            BY <1>1, <2>1 DEF Placed
        <3>2. found[i] = [of |-> v, born |-> clock, seen |-> clock]
            BY <2>1 DEF Merged, Seen, Entry
        <3>3. v \in Texts
            BY <1>1, <3>1, Fields
        <3>4. found[i] \in Vectors
            BY <3>2, <3>3 DEF Vectors
        <3>5. found[i].of = v /\ found[i].born = clock /\ found[i].seen = clock
            BY <3>2
        <3>6. clock - clock < 3 * TTL
            BY Constants
        <3> QED
            BY <3>1, <3>4, <3>5, <3>6, Constants DEF Sound
    <2>2. CASE k.found[i] # None
        <3>1. found[i] = k.found[i]
            BY <2>2 DEF Merged
        <3>2. k.found[i] \in Vectors /\ Sound(k.found[i], k.texts[i])
            BY <2>2, Fields DEF WellFormed
        <3> QED
            BY <2>2, <3>1, <3>2
    <2> QED
        BY <2>1, <2>2
<1>3. found \in Seq(Vectors \cup {None}) /\ Len(found) = n
    <2>1. found = [i \in 1..n |-> found[i]]
        BY DEF Merged
    <2> HIDE DEF found
    <2> QED
        BY <1>1, <1>2, <2>1
<1>4. m \in CallRecords
    BY <1>3 DEF CallRecords
<1>5. /\ m.pc = "done" /\ m.found = found /\ m.texts = k.texts /\ m.got = k.got
      /\ m.missing = k.missing /\ m.asked = k.asked
    BY DEF CallRecords
<1>6. InOrder(k)
    BY DEF WellFormed
<1>7. InOrder(m)
    BY <1>5, <1>6 DEF InOrder
<1> HIDE DEF found
<1> QED
    BY <1>1, <1>2, <1>3, <1>4, <1>5, <1>7 DEF WellFormed

LEMMA EmptyGood ==
    ASSUME NEW texts \in Seq(Texts), NEW pc \in {"idle", "lookup", "failed"},
           pc = "lookup" => texts # <<>>,
           NEW m, m = CallAt(pc, texts)
    PROVE  m \in CallRecords /\ WellFormed(m)
<1>1. m \in CallRecords
    <2>1. <<>> \in Seq(Texts) /\ <<>> \in Seq(Vectors \cup {None}) /\ 0 \in Nat
        OBVIOUS
    <2>2. ASSUME NEW f \in Seq(Vectors \cup {None}), NEW s \in Seq(Texts), NEW z \in Nat
          PROVE  [pc |-> pc, texts |-> texts, found |-> f, missing |-> s,
                  asked |-> z, got |-> s, stored |-> z] \in CallRecords
        BY DEF CallRecords
    <2> QED
        BY <2>1, <2>2 DEF CallAt
<1>2. /\ m.pc = pc /\ m.texts = texts /\ m.found = <<>> /\ m.missing = <<>>
      /\ m.asked = 0 /\ m.got = <<>>
    BY DEF CallAt
<1>3. Place(<<>>, 0) = 0
    BY PlaceType
<1>4. Placed(m) /\ InOrder(m)
    BY <1>2, <1>3 DEF Placed, InOrder
<1>5. Len(texts) \in Nat /\ (texts # <<>> => Len(texts) > 0)
    OBVIOUS
<1> QED
    BY <1>1, <1>2, <1>4, <1>5 DEF WellFormed

-----------------------------------------------------------------------------
(* The tiers *)

\* What is read from a tier, and what it leaves in the faster ones.
LEMMA FromRedis ==
    ASSUME clock \in Nat, NEW x \in Texts, NEW e \in Entries, e # None, RedisGood(e, x)
    PROVE  /\ Refill(e) \in Entries /\ LocalGood(Refill(e), x)
           /\ Seen(e) \in Vectors /\ Sound(Seen(e), x)
BY Constants DEF Entries, Vectors, RedisGood, LocalGood, Refill, Seen, Sound

LEMMA FromSqlite ==
    ASSUME clock \in Nat, NEW x \in Texts, NEW e \in Entries, SqliteGood(e, x), Valid(e)
    PROVE  /\ Refill(e) \in Entries /\ RedisGood(Refill(e), x) /\ LocalGood(Refill(e), x)
           /\ Seen(e) \in Vectors /\ Sound(Seen(e), x)
<1>1. /\ e.of = x /\ clock <= e.until /\ e.until <= e.born + TTL
      /\ e.born \in Nat /\ e.until \in Nat /\ TTL \in Nat /\ TTL > 0 /\ clock \in Nat
    BY Constants DEF Entries, SqliteGood, Valid
<1>2. /\ clock < clock + TTL /\ clock + TTL <= e.born + 2 * TTL
      /\ clock + TTL < e.born + 3 * TTL /\ clock - e.born < 3 * TTL
    BY <1>1
<1>3. Refill(e) \in Entries /\ Refill(e).of = x /\ Refill(e).born = e.born
        /\ Refill(e).until = clock + TTL
    BY <1>1 DEF Entries, Refill
<1>4. Seen(e) \in Vectors /\ Seen(e).of = x /\ Seen(e).born = e.born /\ Seen(e).seen = clock
    BY <1>1 DEF Vectors, Seen
<1> QED
    BY <1>2, <1>3, <1>4 DEF RedisGood, LocalGood, Sound

LEMMA FromLocal ==
    ASSUME clock \in Nat, NEW x \in Texts, NEW e \in Entries, e # None, LocalGood(e, x)
    PROVE  Seen(e) \in Vectors /\ Sound(Seen(e), x)
BY Constants DEF Entries, Vectors, LocalGood, Seen, Sound

LEMMA NewEntry ==
    ASSUME clock \in Nat, NEW x \in Texts
    PROVE  /\ Entry(x) \in Entries
           /\ RedisGood(Entry(x), x) /\ SqliteGood(Entry(x), x) /\ LocalGood(Entry(x), x)
BY Constants DEF Entries, RedisGood, SqliteGood, LocalGood, Entry

LEMMA WrittenCases ==
    ASSUME NEW tier \in [Texts -> Entries \cup {None}], NEW x \in Texts,
           NEW e \in Entries \cup {None}, NEW fault, NEW new \in Written(tier, x, e, fault)
    PROVE  /\ new \in [Texts -> Entries \cup {None}]
           /\ \A y \in Texts : new[y] = tier[y] \/ (y = x /\ new[y] = e)
BY DEF Written
-----------------------------------------------------------------------------
(* The steps *)

TiersOK ==
    /\ clock \in Nat
    /\ client \in [Procs -> BOOLEAN]
    /\ redis \in [Texts -> Entries \cup {None}]
    /\ sqlite \in [Texts -> Entries \cup {None}]
    /\ local \in [Procs -> [Texts -> Entries \cup {None}]]
    /\ TiersGood

CallsOK == call \in [Calls -> CallRecords] /\ \A c \in Calls : WellFormed(call[c])

LEMMA TwoParts == CacheInv <=> TiersOK /\ CallsOK
BY DEF CacheInv, TypeOK, TiersOK, CallsOK

LEMMA CallChanged ==
    ASSUME CallsOK, NEW c \in Calls, NEW m \in CallRecords, WellFormed(m),
           call' = [call EXCEPT ![c] = m]
    PROVE  CallsOK'
<1>1. call' \in [Calls -> CallRecords]
    BY DEF CallsOK
<1>2. ASSUME NEW d \in Calls PROVE WellFormed(call'[d])
    <2>1. call'[d] = m \/ call'[d] = call[d]
        BY DEF CallsOK
    <2> QED
        BY <2>1 DEF CallsOK
<1> QED
    BY <1>1, <1>2 DEF CallsOK

LEMMA TiersSame ==
    ASSUME TiersOK, UNCHANGED <<clock, client, redis, sqlite, local>>
    PROVE  TiersOK'
BY DEF TiersOK, TiersGood, RedisGood, SqliteGood, LocalGood

\* At one moment, every tier may keep what it has or take what is good.
LEMMA TiersChanged ==
    ASSUME TiersOK, UNCHANGED <<clock, client>>,
           redis' \in [Texts -> Entries \cup {None}],
           sqlite' \in [Texts -> Entries \cup {None}],
           local' \in [Procs -> [Texts -> Entries \cup {None}]],
           \A y \in Texts : redis'[y] = redis[y] \/ RedisGood(redis'[y], y),
           \A y \in Texts : sqlite'[y] = sqlite[y] \/ SqliteGood(sqlite'[y], y),
           \A r \in Procs : \A y \in Texts :
                local'[r][y] = local[r][y] \/ LocalGood(local'[r][y], y)
    PROVE  TiersOK'
<1>1. ASSUME NEW y \in Texts
      PROVE  /\ RedisGood(redis'[y], y) /\ SqliteGood(sqlite'[y], y)
             /\ \A r \in Procs : LocalGood(local'[r][y], y)
    <2>1. /\ RedisGood(redis[y], y) /\ SqliteGood(sqlite[y], y)
          /\ \A r \in Procs : LocalGood(local[r][y], y)
        BY DEF TiersOK, TiersGood
    <2> QED
        BY <2>1
<1>2. TiersGood'
    BY <1>1 DEF TiersGood, RedisGood, SqliteGood, LocalGood
<1> QED
    BY <1>2 DEF TiersOK

LEMMA LookingUp ==
    ASSUME CacheInv, NEW c \in Calls, At(c, "lookup")
    PROVE  /\ call[c] \in CallRecords /\ WellFormed(call[c]) /\ call[c].pc = "lookup"
           /\ Wanted(c) \in Texts /\ Wanted(c) = call[c].texts[Len(call[c].found) + 1]
           /\ Proc(c) \in Procs
<1>1. call[c] \in CallRecords /\ WellFormed(call[c]) /\ call[c].pc = "lookup"
    BY DEF CacheInv, TypeOK, At
<1>2. /\ call[c].texts \in Seq(Texts) /\ Len(call[c].found) \in Nat
      /\ Len(call[c].found) < Len(call[c].texts)
    BY <1>1, Fields DEF WellFormed
<1>3. Wanted(c) \in Texts
    BY <1>2 DEF Wanted
<1> QED
    BY <1>1, <1>3, Constants DEF Wanted, Proc

LEMMA Noted ==
    ASSUME CacheInv, NEW c \in Calls, At(c, "lookup"),
           NEW v \in Vectors \cup {None}, Sound(v, Wanted(c)), Note(c, v)
    PROVE  CallsOK'
<1>1. /\ call[c] \in CallRecords /\ WellFormed(call[c]) /\ call[c].pc = "lookup"
      /\ Sound(v, call[c].texts[Len(call[c].found) + 1])
    BY LookingUp
<1>2. Looked(call[c], v) \in CallRecords /\ WellFormed(Looked(call[c], v))
    BY <1>1, LookedGood
<1>3. CallsOK /\ call' = [call EXCEPT ![c] = Looked(call[c], v)]
    BY TwoParts DEF Note
<1> QED
    BY <1>2, <1>3, CallChanged
LEMMA HitRedisStep ==
    ASSUME CacheInv, NEW c \in Calls, HitRedis(c)
    PROVE  CacheInv'
<1> DEFINE x == Wanted(c)
           p == Proc(c)
           e == redis[x]
<1>1. /\ At(c, "lookup") /\ e # None /\ Note(c, Seen(e))
      /\ local' = [local EXCEPT ![p][x] = Refill(e)]
      /\ UNCHANGED <<clock, client, redis, sqlite>>
    BY DEF HitRedis
<1>2. x \in Texts /\ p \in Procs
    BY <1>1, LookingUp
<1>3. TiersOK /\ clock \in Nat /\ e \in Entries /\ RedisGood(e, x)
    BY <1>1, <1>2, TwoParts DEF TiersOK, TiersGood
<1>4. /\ Refill(e) \in Entries /\ LocalGood(Refill(e), x)
      /\ Seen(e) \in Vectors /\ Sound(Seen(e), x)
    BY <1>1, <1>2, <1>3, FromRedis
<1>5. CallsOK'
    BY <1>1, <1>4, Noted
<1> HIDE DEF x, p, e
<1>6. /\ local' \in [Procs -> [Texts -> Entries \cup {None}]]
      /\ \A r \in Procs : \A y \in Texts :
            local'[r][y] = local[r][y] \/ LocalGood(local'[r][y], y)
    <2>1. local \in [Procs -> [Texts -> Entries \cup {None}]]
        BY <1>3 DEF TiersOK
    <2> QED
        BY <1>1, <1>2, <1>4, <2>1
<1>7. TiersOK'
    <2>1. redis \in [Texts -> Entries \cup {None}] /\ sqlite \in [Texts -> Entries \cup {None}]
        BY <1>3 DEF TiersOK
    <2> QED
        BY <1>1, <1>3, <1>6, <2>1, TiersChanged
<1> QED
    BY <1>5, <1>7, TwoParts, PTL

LEMMA HitSqliteStep ==
    ASSUME CacheInv, NEW c \in Calls, HitSqlite(c)
    PROVE  CacheInv'
<1> DEFINE x == Wanted(c)
           p == Proc(c)
           e == sqlite[x]
<1>1. /\ At(c, "lookup") /\ Valid(e) /\ Note(c, Seen(e))
      /\ local' = [local EXCEPT ![p][x] = Refill(e)]
      /\ redis' \in Written(redis, x, Refill(e), "redis") \/ redis' = redis
      /\ UNCHANGED <<clock, client, sqlite>>
    BY DEF HitSqlite, PastRedis
<1>2. x \in Texts /\ p \in Procs
    BY <1>1, LookingUp
<1>3. /\ TiersOK /\ clock \in Nat /\ e \in Entries /\ SqliteGood(e, x)
      /\ redis \in [Texts -> Entries \cup {None}] /\ sqlite \in [Texts -> Entries \cup {None}]
      /\ local \in [Procs -> [Texts -> Entries \cup {None}]]
    BY <1>1, <1>2, TwoParts DEF TiersOK, TiersGood, Valid
<1>4. /\ Refill(e) \in Entries /\ RedisGood(Refill(e), x) /\ LocalGood(Refill(e), x)
      /\ Seen(e) \in Vectors /\ Sound(Seen(e), x)
    BY <1>1, <1>2, <1>3, FromSqlite
<1>5. CallsOK'
    BY <1>1, <1>4, Noted
<1> HIDE DEF x, p, e
<1>6. /\ local' \in [Procs -> [Texts -> Entries \cup {None}]]
      /\ \A r \in Procs : \A y \in Texts :
            local'[r][y] = local[r][y] \/ LocalGood(local'[r][y], y)
    BY <1>1, <1>2, <1>3, <1>4
<1>7. /\ redis' \in [Texts -> Entries \cup {None}]
      /\ \A y \in Texts : redis'[y] = redis[y] \/ RedisGood(redis'[y], y)
    BY <1>1, <1>2, <1>3, <1>4, WrittenCases
<1>8. TiersOK'
    BY <1>1, <1>3, <1>6, <1>7, TiersChanged
<1> QED
    BY <1>5, <1>8, TwoParts, PTL

LEMMA ExpiredSqliteStep ==
    ASSUME CacheInv, NEW c \in Calls, ExpiredSqlite(c)
    PROVE  CacheInv'
<1> DEFINE x == Wanted(c)
<1>1. /\ At(c, "lookup") /\ Note(c, None)
      /\ sqlite' \in Written(sqlite, x, None, "sqlite")
      /\ UNCHANGED <<clock, client, redis, local>>
    BY DEF ExpiredSqlite, PastRedis
<1>2. x \in Texts
    BY <1>1, LookingUp
<1>3. /\ TiersOK
      /\ redis \in [Texts -> Entries \cup {None}] /\ sqlite \in [Texts -> Entries \cup {None}]
      /\ local \in [Procs -> [Texts -> Entries \cup {None}]]
    BY TwoParts DEF TiersOK
<1>4. CallsOK'
    BY <1>1, Noted DEF Sound
<1> HIDE DEF x
<1>5. /\ sqlite' \in [Texts -> Entries \cup {None}]
      /\ \A y \in Texts : sqlite'[y] = sqlite[y] \/ sqlite'[y] = None
    BY <1>1, <1>2, <1>3 DEF Written
<1>6. /\ sqlite' \in [Texts -> Entries \cup {None}]
      /\ \A y \in Texts : sqlite'[y] = sqlite[y] \/ SqliteGood(sqlite'[y], y)
    BY <1>5 DEF SqliteGood
<1>7. TiersOK'
    BY <1>1, <1>3, <1>6, TiersChanged
<1> QED
    BY <1>4, <1>7, TwoParts, PTL

LEMMA LookLocalStep ==
    ASSUME CacheInv, NEW c \in Calls, LookLocal(c)
    PROVE  CacheInv'
<1> DEFINE x == Wanted(c)
           e == local[Proc(c)][x]
           v == IF e = None THEN None ELSE Seen(e)
<1>1. /\ At(c, "lookup") /\ Note(c, v)
      /\ UNCHANGED <<clock, client, redis, sqlite, local>>
    BY DEF LookLocal, PastRedis
<1>2. x \in Texts /\ Proc(c) \in Procs
    BY <1>1, LookingUp
<1>3. TiersOK /\ clock \in Nat /\ e \in Entries \cup {None} /\ LocalGood(e, x)
    BY <1>2, TwoParts DEF TiersOK, TiersGood
<1>4. v \in Vectors \cup {None} /\ Sound(v, x)
    BY <1>2, <1>3, FromLocal DEF Sound
<1>5. CallsOK'
    BY <1>1, <1>4, Noted
<1>6. TiersOK'
    BY <1>1, <1>3, TiersSame
<1> QED
    BY <1>5, <1>6, TwoParts, PTL

LEMMA OnlyCall ==
    ASSUME CacheInv, NEW c \in Calls, NEW m \in CallRecords, WellFormed(m),
           call' = [call EXCEPT ![c] = m],
           UNCHANGED <<clock, client, redis, sqlite, local>>
    PROVE  CacheInv'
<1>1. TiersOK /\ CallsOK
    BY TwoParts
<1>2. CallsOK'
    BY <1>1, CallChanged
<1>3. TiersOK'
    BY <1>1, TiersSame
<1> QED
    BY <1>2, <1>3, TwoParts, PTL

LEMMA BeginStep ==
    ASSUME CacheInv, NEW c \in Calls, NEW texts \in Requests, Begin(c, texts)
    PROVE  CacheInv'
<1>1. /\ call' = [call EXCEPT ![c] = CallAt("lookup", texts)]
      /\ UNCHANGED <<clock, client, redis, sqlite, local>>
    BY DEF Begin
<1>2. CallAt("lookup", texts) \in CallRecords /\ WellFormed(CallAt("lookup", texts))
    BY Constants, EmptyGood
<1> QED
    BY <1>1, <1>2, OnlyCall

LEMMA NoCallGood ==
    ASSUME NEW pc \in {"idle", "failed"}
    PROVE  CallAt(pc, <<>>) \in CallRecords /\ WellFormed(CallAt(pc, <<>>))
<1>1. <<>> \in Seq(Texts)
    OBVIOUS
<1> QED
    BY <1>1, EmptyGood

LEMMA AnsweredStep ==
    ASSUME CacheInv, NEW c \in Calls, NEW vectors \in Seq(Texts), Answered(c, vectors),
           Len(vectors) <= Len(Batch(call[c])),
           Len(vectors) = Len(Batch(call[c])) => vectors = Batch(call[c])
    PROVE  CacheInv'
<1> DEFINE k == call[c]
           m == [k EXCEPT !.got = @ \o vectors, !.asked = Last(k),
                          !.pc = IF Last(k) < Len(k.missing) THEN "ask" ELSE "store"]
<1>1. /\ k.pc = "ask" /\ call' = [call EXCEPT ![c] = m]
      /\ UNCHANGED <<clock, client, redis, sqlite, local>>
    BY DEF Answered, At
<1>2. k \in CallRecords /\ WellFormed(k)
    BY DEF CacheInv, TypeOK
<1>3. m \in CallRecords /\ WellFormed(m)
    BY <1>1, <1>2, AnsweredGood
<1> HIDE DEF m
<1> QED
    BY <1>1, <1>3, OnlyCall

LEMMA AnswerStep ==
    ASSUME CacheInv, NEW c \in Calls, Answer(c) \/ ShortAnswer(c)
    PROVE  CacheInv'
<1>1. call[c] \in CallRecords /\ WellFormed(call[c])
    BY DEF CacheInv, TypeOK
<1>2. Batch(call[c]) \in Seq(Texts)
    BY <1>1, BatchFacts
<1>3. CASE Answer(c)
    BY <1>2, <1>3, AnsweredStep DEF Answer
<1>4. CASE ShortAnswer(c)
    <2>1. PICK i \in DOMAIN Batch(call[c]) : Answered(c, Without(Batch(call[c]), i))
        BY <1>4 DEF ShortAnswer
    <2>2. /\ Without(Batch(call[c]), i) \in Seq(Texts)
          /\ Len(Without(Batch(call[c]), i)) = Len(Batch(call[c])) - 1
        BY <1>2, <2>1, WithoutShorter
    <2>3. Len(Batch(call[c])) \in Nat
        BY <1>2
    <2> QED
        BY <2>1, <2>2, <2>3, AnsweredStep
<1> QED
    BY <1>3, <1>4

LEMMA NoAnswerStep ==
    ASSUME CacheInv, NEW c \in Calls, NoAnswer(c)
    PROVE  CacheInv'
<1>1. /\ call' = [call EXCEPT ![c] = CallAt("failed", <<>>)]
      /\ UNCHANGED <<clock, client, redis, sqlite, local>>
    BY DEF NoAnswer
<1> QED
    BY <1>1, NoCallGood, OnlyCall
\* set_batch writes the vectors only when there are as many as texts: then the
\* vector is the one of the text.
LEMMA StoreStep ==
    ASSUME CacheInv, NEW c \in Calls, Store(c)
    PROVE  CacheInv'
<1> DEFINE k == call[c]
           x == k.missing[k.stored + 1]
           e == Entry(x)
           m == [k EXCEPT !.stored = k.stored + 1]
<1>1. k \in CallRecords /\ WellFormed(k) /\ TiersOK /\ CallsOK
    BY TwoParts DEF CallsOK
<1>2. /\ k.pc = "store" /\ Len(k.got) = Len(k.missing) /\ k.stored < Len(k.missing)
    BY DEF Store, At, Complete, Pairs
<1>3. /\ k.stored + 1 \in 1..Len(k.missing)
      /\ \A i \in 1..Len(k.got) : k.got[i] = k.missing[i]
    BY <1>1, <1>2, Fields DEF WellFormed, InOrder
<1>4. k.got[k.stored + 1] = x /\ x \in Texts
    BY <1>1, <1>2, <1>3, Fields
<1>5. /\ local' = [local EXCEPT ![Proc(c)][x] = e]
      /\ redis' \in Written(redis, x, e, "redis") \/ redis' = redis
      /\ sqlite' \in Written(sqlite, x, e, "sqlite")
      /\ call' = [call EXCEPT ![c] = m]
      /\ UNCHANGED <<clock, client>>
    BY <1>4 DEF Store
<1>6. /\ clock \in Nat /\ Proc(c) \in Procs
      /\ redis \in [Texts -> Entries \cup {None}] /\ sqlite \in [Texts -> Entries \cup {None}]
      /\ local \in [Procs -> [Texts -> Entries \cup {None}]]
    BY <1>1, Constants DEF TiersOK, Proc
<1>7. e \in Entries /\ RedisGood(e, x) /\ SqliteGood(e, x) /\ LocalGood(e, x)
    BY <1>4, <1>6, NewEntry
<1>8. m \in CallRecords /\ WellFormed(m)
    <2>1. m \in CallRecords
        <3>1. ASSUME NEW r \in CallRecords, NEW n \in Nat
              PROVE  [r EXCEPT !.stored = n] \in CallRecords
            BY DEF CallRecords
        <3>2. k.stored + 1 \in Nat
            BY <1>1, Fields
        <3> QED
            BY <1>1, <3>1, <3>2
    <2>2. /\ m.pc = k.pc /\ m.texts = k.texts /\ m.found = k.found
          /\ m.missing = k.missing /\ m.asked = k.asked /\ m.got = k.got
        BY <1>1 DEF CallRecords
    <2> HIDE DEF m
    <2> QED
        BY <1>1, <2>1, <2>2 DEF WellFormed, Placed, InOrder
<1> HIDE DEF x, e, m, k
<1>9. CallsOK'
    BY <1>1, <1>5, <1>8, CallChanged
<1>10. /\ local' \in [Procs -> [Texts -> Entries \cup {None}]]
       /\ \A r \in Procs : \A y \in Texts :
            local'[r][y] = local[r][y] \/ LocalGood(local'[r][y], y)
    BY <1>4, <1>5, <1>6, <1>7
<1>11. /\ redis' \in [Texts -> Entries \cup {None}]
       /\ \A y \in Texts : redis'[y] = redis[y] \/ RedisGood(redis'[y], y)
    BY <1>4, <1>5, <1>6, <1>7, WrittenCases
<1>12. /\ sqlite' \in [Texts -> Entries \cup {None}]
       /\ \A y \in Texts : sqlite'[y] = sqlite[y] \/ SqliteGood(sqlite'[y], y)
    BY <1>4, <1>5, <1>6, <1>7, WrittenCases
<1>13. TiersOK'
    BY <1>1, <1>5, <1>10, <1>11, <1>12, TiersChanged
<1> QED
    BY <1>9, <1>13, TwoParts, PTL

LEMMA MergeStep ==
    ASSUME CacheInv, NEW c \in Calls, Merge(c)
    PROVE  CacheInv'
<1> DEFINE k == call[c]
           m == [k EXCEPT !.pc = "done", !.found = Merged(k)]
<1>1. /\ clock \in Nat /\ k \in CallRecords /\ WellFormed(k) /\ k.pc = "store"
      /\ UNCHANGED <<clock, client, redis, sqlite, local>>
    BY DEF CacheInv, TypeOK, Merge, At
<1>2. CASE Len(k.got) < Len(k.missing)
    <2>1. call' = [call EXCEPT ![c] = CallAt("failed", <<>>)]
        BY <1>2 DEF Merge
    <2> QED
        BY <1>1, <2>1, NoCallGood, OnlyCall
<1>3. CASE ~(Len(k.got) < Len(k.missing))
    <2>1. call' = [call EXCEPT ![c] = m]
        BY <1>3 DEF Merge
    <2>2. m \in CallRecords /\ WellFormed(m)
        BY <1>1, <1>3, MergedGood
    <2> HIDE DEF m
    <2> QED
        BY <1>1, <2>1, <2>2, OnlyCall
<1> QED
    BY <1>2, <1>3

\* Redis and the maps drop what has expired at the new time.
LEMMA TickStep ==
    ASSUME CacheInv, Tick
    PROVE  CacheInv'
<1>1. /\ clock \in Nat /\ clock' = clock + 1
      /\ redis' = Dropped(redis, clock + 1)
      /\ local' = [p \in Procs |-> Dropped(local[p], clock + 1)]
      /\ UNCHANGED <<client, sqlite, call>>
    BY DEF CacheInv, TypeOK, Tick
<1>2. TiersOK
    BY TwoParts
<1>3. ASSUME NEW tier \in [Texts -> Entries \cup {None}]
      PROVE  /\ Dropped(tier, clock + 1) \in [Texts -> Entries \cup {None}]
             /\ \A x \in Texts :
                    \/ Dropped(tier, clock + 1)[x] = None
                    \/ /\ Dropped(tier, clock + 1)[x] = tier[x] /\ tier[x] \in Entries
                       /\ clock + 1 < tier[x].until
    BY <1>1 DEF Dropped, Entries
<1>4. redis' \in [Texts -> Entries \cup {None}]
    BY <1>1, <1>2, <1>3 DEF TiersOK
<1>5. local' \in [Procs -> [Texts -> Entries \cup {None}]]
    BY <1>1, <1>2, <1>3 DEF TiersOK
<1>6. ASSUME NEW x \in Texts
      PROVE  /\ RedisGood(redis[x], x)' /\ SqliteGood(sqlite[x], x)'
             /\ \A p \in Procs : LocalGood(local[p][x], x)'
    <2>1. /\ RedisGood(redis[x], x) /\ SqliteGood(sqlite[x], x)
          /\ \A p \in Procs : LocalGood(local[p][x], x)
        BY <1>2 DEF TiersOK, TiersGood
    <2>2. RedisGood(redis[x], x)'
        <3>1. redis'[x] = None \/ (redis'[x] = redis[x] /\ clock + 1 < redis[x].until)
            BY <1>1, <1>2, <1>3 DEF TiersOK
        <3> QED
            BY <1>1, <2>1, <3>1 DEF RedisGood
    <2>3. SqliteGood(sqlite[x], x)'
        BY <1>1, <2>1 DEF SqliteGood
    <2>4. ASSUME NEW p \in Procs PROVE LocalGood(local[p][x], x)'
        <3>1. local[p] \in [Texts -> Entries \cup {None}] /\ local'[p] = Dropped(local[p], clock + 1)
            BY <1>1, <1>2 DEF TiersOK
        <3>2. local'[p][x] = None \/ (local'[p][x] = local[p][x] /\ clock + 1 < local[p][x].until)
            BY <1>3, <3>1
        <3> QED
            BY <1>1, <2>1, <3>2 DEF LocalGood
    <2> QED
        BY <2>2, <2>3, <2>4
<1>7. TiersOK'
    BY <1>1, <1>2, <1>4, <1>5, <1>6 DEF TiersOK, TiersGood
<1>8. CallsOK'
    BY <1>1, TwoParts DEF CallsOK
<1> QED
    BY <1>7, <1>8, TwoParts, PTL
LEMMA RestartStep ==
    ASSUME CacheInv, NEW p \in Procs, Restart(p)
    PROVE  CacheInv'
<1>1. /\ client' \in {[client EXCEPT ![p] = up] : up \in BOOLEAN}
      /\ local' = [local EXCEPT ![p] = Empty]
      /\ call' = [c \in Calls |-> IF ProcOf[c] = p THEN CallAt("idle", <<>>) ELSE call[c]]
      /\ UNCHANGED <<clock, redis, sqlite>>
    BY DEF Restart, Idle
<1>2. TiersOK /\ CallsOK
    BY TwoParts
<1>3. client' \in [Procs -> BOOLEAN]
    BY <1>1, <1>2 DEF TiersOK
<1>4. Empty \in [Texts -> Entries \cup {None}] /\ \A x \in Texts : Empty[x] = None
    BY DEF Empty
<1>5. local' \in [Procs -> [Texts -> Entries \cup {None}]]
    BY <1>1, <1>2, <1>4 DEF TiersOK
<1>6. ASSUME NEW r \in Procs, NEW x \in Texts
      PROVE  local'[r][x] = local[r][x] \/ local'[r][x] = None
    BY <1>1, <1>2, <1>4 DEF TiersOK
<1>7. TiersGood'
    BY <1>1, <1>2, <1>6 DEF TiersOK, TiersGood, RedisGood, SqliteGood, LocalGood
<1>8. TiersOK'
    BY <1>1, <1>2, <1>3, <1>5, <1>7 DEF TiersOK
<1>9. CallsOK'
    <2>1. CallAt("idle", <<>>) \in CallRecords /\ WellFormed(CallAt("idle", <<>>))
        BY NoCallGood
    <2>2. ASSUME NEW c \in Calls PROVE call'[c] \in CallRecords /\ WellFormed(call'[c])
        BY <1>1, <1>2, <2>1 DEF CallsOK
    <2>3. call' \in [Calls -> CallRecords]
        BY <1>1, <1>2, <2>1 DEF CallsOK
    <2> QED
        BY <2>2, <2>3 DEF CallsOK
<1> QED
    BY <1>8, <1>9, TwoParts, PTL

LEMMA EvictStep ==
    ASSUME CacheInv, NEW x \in Texts, Evict(x)
    PROVE  CacheInv'
<1>1. redis' = [redis EXCEPT ![x] = None] /\ UNCHANGED <<clock, client, sqlite, local, call>>
    BY DEF Evict
<1>2. TiersOK /\ CallsOK
    BY TwoParts
<1>3. /\ redis' \in [Texts -> Entries \cup {None}]
      /\ \A y \in Texts : redis'[y] = redis[y] \/ redis'[y] = None
    BY <1>1, <1>2 DEF TiersOK
<1>4. TiersGood'
    BY <1>1, <1>2, <1>3 DEF TiersOK, TiersGood, RedisGood, SqliteGood, LocalGood
<1>5. TiersOK'
    BY <1>1, <1>2, <1>3, <1>4 DEF TiersOK
<1>6. CallsOK'
    BY <1>1, <1>2 DEF CallsOK
<1> QED
    BY <1>5, <1>6, TwoParts, PTL

LEMMA CacheInit == Init => CacheInv
<1> SUFFICES ASSUME Init PROVE CacheInv
    OBVIOUS
<1>1. Empty \in [Texts -> Entries \cup {None}] /\ \A x \in Texts : Empty[x] = None
    BY DEF Empty
<1>2. TiersOK
    BY <1>1 DEF Init, TiersOK, TiersGood, RedisGood, SqliteGood, LocalGood
<1>3. CallAt("idle", <<>>) \in CallRecords /\ WellFormed(CallAt("idle", <<>>))
    BY NoCallGood
<1>4. call = [c \in Calls |-> CallAt("idle", <<>>)]
    BY DEF Init, Idle
<1>5. CallsOK
    BY <1>3, <1>4 DEF CallsOK
<1> QED
    BY <1>2, <1>5, TwoParts

LEMMA CacheNext == CacheInv /\ [Next]_vars => CacheInv'
<1> SUFFICES ASSUME CacheInv, [Next]_vars PROVE CacheInv'
    OBVIOUS
<1>1. CASE \E c \in Calls : Step(c)
    <2>1. PICK c \in Calls : Step(c)
        BY <1>1
    <2> QED
        BY <2>1, BeginStep, HitRedisStep, HitSqliteStep, ExpiredSqliteStep, LookLocalStep,
           AnswerStep, NoAnswerStep, StoreStep, MergeStep DEF Step
<1>2. CASE \E p \in Procs : Restart(p)
    BY <1>2, RestartStep
<1>3. CASE \E x \in Texts : Evict(x)
    BY <1>3, EvictStep
<1>4. CASE Tick
    BY <1>4, TickStep
<1>5. CASE UNCHANGED vars
    <2>1. TiersOK /\ CallsOK
        BY TwoParts
    <2>2. UNCHANGED <<clock, client, redis, sqlite, local>> /\ UNCHANGED call
        BY <1>5 DEF vars
    <2>3. TiersOK'
        BY <2>1, <2>2, TiersSame
    <2>4. CallsOK'
        BY <2>1, <2>2 DEF CallsOK
    <2> QED
        BY <2>3, <2>4, TwoParts, PTL
<1> QED
    BY <1>1, <1>2, <1>3, <1>4, <1>5 DEF Next

-----------------------------------------------------------------------------
(* EmbeddingCache: the theorems *)

LEMMA CacheInvAlways == Spec => []CacheInv
BY CacheInit, CacheNext, PTL DEF Spec

\* The tiers and the calls of generate_embeddings keep their types: a position
\* of the result never runs past the vectors that were computed.
THEOREM CacheTypeCorrect == Spec => []TypeOK
<1>1. CacheInv => TypeOK
    BY DEF CacheInv
<1> QED
    BY <1>1, CacheInvAlways, PTL

\* No tier holds, and generate_embeddings never returns, a vector of another
\* text, whatever answers were short and whatever else failed.
THEOREM VectorsAreOwn == Spec => []OwnVector
<1>1. CacheInv => OwnVector
    <2> SUFFICES ASSUME CacheInv PROVE OwnVector
        OBVIOUS
    <2>1. ASSUME NEW tier \in Tiers, NEW x \in Texts, tier[x] # None PROVE tier[x].of = x
        BY <2>1 DEF CacheInv, TiersGood, RedisGood, SqliteGood, LocalGood, Tiers
    <2>2. ASSUME NEW c \in Calls, At(c, "done")
          PROVE  /\ Len(call[c].found) = Len(call[c].texts)
                 /\ \A i \in DOMAIN call[c].texts :
                     call[c].found[i] # None /\ call[c].found[i].of = call[c].texts[i]
        <3>1. call[c] \in CallRecords /\ WellFormed(call[c]) /\ call[c].pc = "done"
            BY <2>2 DEF CacheInv, TypeOK, At
        <3>2. /\ Len(call[c].found) = Len(call[c].texts)
              /\ \A i \in 1..Len(call[c].found) : call[c].found[i] # None
              /\ \A i \in 1..Len(call[c].found) : Sound(call[c].found[i], call[c].texts[i])
            BY <3>1 DEF WellFormed
        <3>3. DOMAIN call[c].texts = 1..Len(call[c].found)
            BY <3>1, <3>2, Fields
        <3> QED
            BY <3>2, <3>3 DEF Sound
    <2> QED
        BY <2>1, <2>2 DEF OwnVector
<1> QED
    BY <1>1, CacheInvAlways, PTL

\* EmbeddingCache.get never serves a vector that was computed three TTLs ago.
THEOREM AgeAlwaysBounded == Spec => []AgeBounded
<1>1. CacheInv => AgeBounded
    <2> SUFFICES ASSUME CacheInv, NEW c \in Calls, NEW i \in DOMAIN call[c].found,
                        call[c].found[i] # None
                 PROVE  call[c].found[i].seen - call[c].found[i].born < 3 * TTL
        BY DEF AgeBounded
    <2>1. call[c] \in CallRecords /\ WellFormed(call[c])
        BY DEF CacheInv, TypeOK
    <2>2. i \in 1..Len(call[c].found)
        BY <2>1, Fields
    <2> QED
        BY <2>1, <2>2 DEF WellFormed, Sound
<1> QED
    BY <1>1, CacheInvAlways, PTL

-----------------------------------------------------------------------------
(* ResultCache *)

\* What is stored is of the version of its key and not of the future; a call
\* computes for the version of the key under which it asked.
EntryGood(n, e) == e # None => e.by = n[2] /\ e.at <= now

ResultInv ==
    /\ Results!ResultTypeOK
    /\ \A n \in Results!Names :
          /\ EntryGood(n, inRedis[n]) /\ EntryGood(n, inSqlite[n])
          /\ inRedis[n] # None => now < inRedis[n].at + ResultTTL
    /\ \A c \in Calls : asking[c] # None => asking[c].by = asking[c].name[2]
    /\ served # None => served.by = served.for /\ served.seen - served.at <= ResultTTL

LEMMA ResultFields ==
    ASSUME Results!ResultAssumption
    PROVE  /\ ResultTTL \in Nat /\ ResultTime \in Nat /\ Default \in Versions
           /\ \A c \in Calls : ProcOf[c] \in Procs
           /\ None \notin Results!Results
           /\ \A n \in Results!Names : n[2] \in Versions
           /\ \A e \in Results!Results : e.by \in Versions /\ e.at \in 0..ResultTime
           /\ \A q \in [name : Results!Names, by : Versions] : q.name \in Results!Names /\ q.by \in Versions
<1>1. Results!Results \subseteq [by : Versions, at : Nat]
    BY DEF Results!Results
<1> QED
    BY <1>1 DEF Results!ResultAssumption, Results!Names, Results!Results

\* A hit in either tier serves what is there.
LEMMA ServeStep ==
    ASSUME Results!ResultAssumption, ResultInv, NEW n \in Results!Names,
           NEW tier \in [Results!Names -> Results!Results \cup {None}],
           tier[n] # None, EntryGood(n, tier[n]), now - tier[n].at <= ResultTTL, Results!Serves(tier, n)
    PROVE  ResultInv'
<1>1. /\ served' = [by |-> tier[n].by, at |-> tier[n].at, for |-> n[2], seen |-> now]
      /\ UNCHANGED <<now, model, online, inRedis, inSqlite, asking>>
    BY DEF Results!Serves
<1>2. /\ tier[n].by \in Versions /\ tier[n].at \in 0..ResultTime /\ n[2] \in Versions
      /\ now \in 0..ResultTime /\ tier[n].by = n[2]
    BY ResultFields DEF EntryGood, ResultInv, Results!ResultTypeOK
<1>3. /\ served' \in [by : Versions, at : 0..ResultTime, for : Versions, seen : 0..ResultTime]
      /\ served'.by = served'.for /\ served'.seen - served'.at <= ResultTTL
    BY <1>1, <1>2
<1>4. Results!ResultTypeOK'
    BY <1>1, <1>3 DEF ResultInv, Results!ResultTypeOK
<1> QED
    BY <1>1, <1>3, <1>4 DEF ResultInv, EntryGood

\* An entry of either tier that a step leaves, removes or, as the answer of a
\* call to the LLM, writes; at a time that goes on.
Answers(c, n, new) ==
    asking[c] # None /\ n = asking[c].name /\ new = [by |-> asking[c].by, at |-> now]

Rewritten(n, old, new) == new = old \/ new = None \/ \E c \in Calls : Answers(c, n, new)

\* The rest of the invariant after a step that serves nothing.
LEMMA TierStep ==
    ASSUME Results!ResultAssumption, ResultInv,
           inRedis' \in [Results!Names -> Results!Results \cup {None}],
           inSqlite' \in [Results!Names -> Results!Results \cup {None}],
           \A n \in Results!Names : Rewritten(n, inRedis[n], inRedis'[n])
                              /\ Rewritten(n, inSqlite[n], inSqlite'[n]),
           UNCHANGED <<now, served>>,
           model' \in [Procs -> Versions], online' \in [Procs -> BOOLEAN],
           \A d \in Calls : \/ asking'[d] \in {asking[d], None}
                            \/ asking'[d] \in [name : Results!Names, by : Versions]
                               /\ asking'[d].by = asking'[d].name[2],
           asking' \in [Calls -> [name : Results!Names, by : Versions] \cup {None}]
    PROVE  ResultInv'
<1>1. Results!ResultTypeOK'
    BY DEF ResultInv, Results!ResultTypeOK
<1>2. ASSUME NEW n \in Results!Names, NEW old, NEW new, EntryGood(n, old), Rewritten(n, old, new)
      PROVE  EntryGood(n, new)
    <2>1. CASE new = old \/ new = None
        BY <1>2, <2>1 DEF EntryGood
    <2>2. ASSUME NEW c \in Calls, Answers(c, n, new) PROVE EntryGood(n, new)
        <3>1. asking[c].by = n[2] /\ now \in Nat
            BY <2>2 DEF ResultInv, Results!ResultTypeOK, Answers
        <3>2. new.by = asking[c].by /\ new.at = now
            BY <2>2 DEF Answers
        <3> QED
            BY <3>1, <3>2 DEF EntryGood
    <2> QED
        BY <1>2, <2>1, <2>2 DEF Rewritten
<1>3. ASSUME NEW n \in Results!Names
      PROVE  EntryGood(n, inRedis'[n]) /\ EntryGood(n, inSqlite'[n])
    <2>1. EntryGood(n, inRedis[n]) /\ EntryGood(n, inSqlite[n])
        BY DEF ResultInv
    <2> QED
        BY <1>2, <2>1
<1>4. ASSUME NEW n \in Results!Names, inRedis'[n] # None
      PROVE  now < inRedis'[n].at + ResultTTL
    <2>1. CASE inRedis'[n] = inRedis[n]
        BY <1>4, <2>1 DEF ResultInv
    <2>2. ASSUME NEW c \in Calls, Answers(c, n, inRedis'[n])
          PROVE  now < inRedis'[n].at + ResultTTL
        <3>1. inRedis'[n].at = now /\ now \in Nat /\ ResultTTL \in Nat /\ ResultTTL > 0
            BY <2>2 DEF Answers, ResultInv, Results!ResultTypeOK, Results!ResultAssumption
        <3> QED
            BY <3>1
    <2> QED
        BY <1>4, <2>1, <2>2 DEF Rewritten
<1>5. ASSUME NEW d \in Calls, asking'[d] # None
      PROVE  asking'[d].by = asking'[d].name[2]
    BY <1>5 DEF ResultInv
<1> QED
    BY <1>1, <1>3, <1>4, <1>5 DEF ResultInv, EntryGood

LEMMA ResultStep ==
    ASSUME Results!ResultAssumption, ResultInv, Results!ResultNext
    PROVE  ResultInv'
<1>0. /\ Results!ResultTypeOK
      /\ inRedis \in [Results!Names -> Results!Results \cup {None}]
      /\ inSqlite \in [Results!Names -> Results!Results \cup {None}]
      /\ asking \in [Calls -> [name : Results!Names, by : Versions] \cup {None}]
      /\ model \in [Procs -> Versions] /\ online \in [Procs -> BOOLEAN]
      /\ now \in 0..ResultTime
    BY DEF ResultInv, Results!ResultTypeOK
<1>1. ASSUME NEW c \in Calls, NEW n \in Results!Names, Results!HitRedis(c, n)
      PROVE  ResultInv'
    <2>1. inRedis[n] # None /\ Results!Serves(inRedis, n)
        BY <1>1 DEF Results!HitRedis
    <2>2. now - inRedis[n].at <= ResultTTL
        <3>1. inRedis[n] \in Results!Results
            BY <1>0, <2>1
        <3>2. now < inRedis[n].at + ResultTTL
            BY <2>1 DEF ResultInv
        <3> QED
            BY <1>0, <3>1, <3>2, ResultFields
    <2> QED
        BY <1>0, <2>1, <2>2, ServeStep DEF ResultInv
<1>2. ASSUME NEW c \in Calls, NEW n \in Results!Names, Results!HitSqlite(c, n)
      PROVE  ResultInv'
    <2>1. inSqlite[n] # None /\ Results!Serves(inSqlite, n) /\ ~(inSqlite[n].at + ResultTTL < now)
        BY <1>2 DEF Results!HitSqlite, Results!Outdated
    <2>2. now - inSqlite[n].at <= ResultTTL
        <3>1. inSqlite[n] \in Results!Results
            BY <1>0, <2>1
        <3> QED
            BY <1>0, <2>1, <3>1, ResultFields
    <2> QED
        BY <1>0, <2>1, <2>2, ServeStep DEF ResultInv
<1>3. ASSUME NEW c \in Calls, NEW n \in Results!Names, Results!Miss(c, n)
      PROVE  ResultInv'
    <2> DEFINE asked == [name |-> n, by |-> model[ProcOf[c]]]
    <2>1. /\ n[2] = model[ProcOf[c]]
          /\ asking' = [asking EXCEPT ![c] = asked]
          /\ inSqlite' = inSqlite \/ inSqlite' = [inSqlite EXCEPT ![n] = None]
          /\ UNCHANGED <<now, model, online, inRedis, served>>
        BY <1>3 DEF Results!Miss, Results!Begins, Results!Model
    <2>2. asked \in [name : Results!Names, by : Versions] /\ asked.by = asked.name[2]
        BY <1>0, <2>1, ResultFields
    <2> HIDE DEF asked
    <2>3. /\ inSqlite' \in [Results!Names -> Results!Results \cup {None}]
          /\ \A m \in Results!Names : inSqlite'[m] = inSqlite[m] \/ inSqlite'[m] = None
        BY <1>0, <2>1
    <2>4. /\ asking' \in [Calls -> [name : Results!Names, by : Versions] \cup {None}]
          /\ \A d \in Calls : asking'[d] = asking[d] \/ asking'[d] = asked
        BY <1>0, <2>1, <2>2
    <2> QED
        BY <1>0, <2>1, <2>2, <2>3, <2>4, TierStep DEF Rewritten
<1>4. ASSUME NEW c \in Calls, Results!Done(c), NEW tier, tier \in [Results!Names -> Results!Results \cup {None}]
      PROVE  /\ Results!Put(tier, c) \in [Results!Names -> Results!Results \cup {None}]
             /\ \A n \in Results!Names : Rewritten(n, tier[n], Results!Put(tier, c)[n])
    <2> DEFINE new == [by |-> asking[c].by, at |-> now]
    <2>1. asking[c] # None /\ asking[c].name \in Results!Names /\ asking[c].by \in Versions
        BY <1>0, <1>4, ResultFields DEF Results!Done
    <2>2. new \in Results!Results
        BY <1>0, <2>1 DEF Results!Results
    <2>3. \A n \in Results!Names : n = asking[c].name => Answers(c, n, new)
        BY <2>1 DEF Answers
    <2>4. Results!Put(tier, c) = [tier EXCEPT ![asking[c].name] = new]
        BY DEF Results!Put, Results!StoreUnder
    <2> HIDE DEF new
    <2> QED
        BY <1>4, <2>1, <2>2, <2>3, <2>4 DEF Rewritten
<1>5. ASSUME NEW c \in Calls, Results!StoreRedis(c) \/ Results!StoreSqlite(c) \/ Results!StoreNothing(c)
      PROVE  ResultInv'
    <2>1. Results!Done(c) /\ inRedis' \in {inRedis, Results!Put(inRedis, c)}
                    /\ inSqlite' \in {inSqlite, Results!Put(inSqlite, c)}
        BY <1>5 DEF Results!StoreRedis, Results!StoreSqlite, Results!StoreNothing
    <2>2. /\ asking' = [asking EXCEPT ![c] = None]
          /\ UNCHANGED <<now, model, online, served>>
        BY <2>1 DEF Results!Done
    <2>3. /\ inRedis' \in [Results!Names -> Results!Results \cup {None}]
          /\ \A n \in Results!Names : Rewritten(n, inRedis[n], inRedis'[n])
        BY <1>0, <1>4, <2>1 DEF Rewritten
    <2>4. /\ inSqlite' \in [Results!Names -> Results!Results \cup {None}]
          /\ \A n \in Results!Names : Rewritten(n, inSqlite[n], inSqlite'[n])
        BY <1>0, <1>4, <2>1 DEF Rewritten
    <2>5. /\ asking' \in [Calls -> [name : Results!Names, by : Versions] \cup {None}]
          /\ \A d \in Calls : asking'[d] \in {asking[d], None}
        BY <1>0, <2>2
    <2> QED
        BY <1>0, <2>2, <2>3, <2>4, <2>5, TierStep
<1>6. ASSUME NEW p \in Procs, NEW v, Results!Remove(p, v)
      PROVE  /\ inRedis' \in [Results!Names -> Results!Results \cup {None}]
             /\ inSqlite' \in [Results!Names -> Results!Results \cup {None}]
             /\ \A n \in Results!Names : Rewritten(n, inRedis[n], inRedis'[n])
                                   /\ Rewritten(n, inSqlite[n], inSqlite'[n])
    <2>1. ASSUME NEW tier \in [Results!Names -> Results!Results \cup {None}]
          PROVE  /\ Results!Without(tier, v) \in [Results!Names -> Results!Results \cup {None}]
                 /\ \A n \in Results!Names : Results!Without(tier, v)[n] \in {tier[n], None}
        BY DEF Results!Without
    <2>2. inRedis' \in {inRedis, Results!Without(inRedis, v)} /\ inSqlite' \in {inSqlite, Results!Without(inSqlite, v)}
        BY <1>6 DEF Results!Remove
    <2> QED
        BY <1>0, <2>1, <2>2 DEF Rewritten
<1>7. ASSUME NEW p \in Procs, Results!Invalidate(p)
      PROVE  ResultInv'
    <2>1. Results!Remove(p, model[p]) /\ UNCHANGED <<now, model, online, asking, served>>
        BY <1>7 DEF Results!Invalidate
    <2> QED
        BY <1>0, <1>6, <2>1, TierStep
<1>8. ASSUME NEW p \in Procs, NEW v \in Versions, Results!SetModelVersion(p, v)
      PROVE  ResultInv'
    <2>1. /\ Results!Remove(p, v) /\ model' = [model EXCEPT ![p] = v]
          /\ UNCHANGED <<now, online, asking, served>>
        BY <1>8 DEF Results!SetModelVersion
    <2>2. model' \in [Procs -> Versions]
        BY <1>0, <2>1
    <2> QED
        BY <1>0, <1>6, <2>1, <2>2, TierStep
<1>9. ASSUME NEW p \in Procs, Results!Restart(p)
      PROVE  ResultInv'
    <2>1. /\ model' = [model EXCEPT ![p] = Default]
          /\ \E up \in BOOLEAN : online' = [online EXCEPT ![p] = up]
          /\ asking' = [c \in Calls |-> IF ProcOf[c] = p THEN None ELSE asking[c]]
          /\ UNCHANGED <<now, inRedis, inSqlite, served>>
        BY <1>9 DEF Results!Restart
    <2>2. model' \in [Procs -> Versions] /\ online' \in [Procs -> BOOLEAN]
        BY <1>0, <2>1, ResultFields
    <2>3. /\ asking' \in [Calls -> [name : Results!Names, by : Versions] \cup {None}]
          /\ \A d \in Calls : asking'[d] \in {asking[d], None}
        BY <1>0, <2>1
    <2> QED
        BY <1>0, <2>1, <2>2, <2>3, TierStep DEF Rewritten
<1>10. CASE Results!Tick
    <2>1. /\ now < ResultTime /\ now' = now + 1
          /\ inRedis' = [n \in Results!Names |-> IF inRedis[n] # None /\ inRedis[n].at + ResultTTL <= now + 1
                                           THEN None ELSE inRedis[n]]
          /\ UNCHANGED <<model, online, inSqlite, asking, served>>
        BY <1>10 DEF Results!Tick
    <2>2. Results!ResultTypeOK'
        BY <1>0, <2>1, ResultFields DEF Results!ResultTypeOK
    <2>3. ASSUME NEW n \in Results!Names
          PROVE  /\ EntryGood(n, inRedis[n])' /\ EntryGood(n, inSqlite[n])'
                 /\ inRedis'[n] # None => now' < inRedis'[n].at + ResultTTL
        <3>1. \A e \in Results!Results : e.at \in Nat
            BY ResultFields
        <3>2. EntryGood(n, inRedis[n]) /\ EntryGood(n, inSqlite[n])
            BY DEF ResultInv
        <3>3. inRedis'[n] # None => inRedis'[n] = inRedis[n] /\ ~(inRedis[n].at + ResultTTL <= now + 1)
            BY <2>1
        <3> QED
            BY <1>0, <2>1, <3>1, <3>2, <3>3, ResultFields DEF EntryGood
    <2> QED
        BY <2>1, <2>2, <2>3 DEF ResultInv, EntryGood
<1> QED
    BY <1>1, <1>2, <1>3, <1>5, <1>7, <1>8, <1>9, <1>10 DEF Results!ResultNext

LEMMA ResultStarts ==
    ASSUME Results!ResultAssumption, Results!ResultInit
    PROVE  ResultInv
<1>1. \A n \in Results!Names : Results!Nothing[n] = None
    BY DEF Results!Nothing
<1>2. Results!ResultTypeOK
    BY ResultFields DEF Results!ResultInit, Results!ResultTypeOK, Results!Nothing
<1> QED
    BY <1>1, <1>2 DEF Results!ResultInit, ResultInv, EntryGood

LEMMA ResultStutter ==
    ASSUME ResultInv, UNCHANGED <<now, model, online, inRedis, inSqlite, asking, served>>
    PROVE  ResultInv'
BY DEF ResultInv, Results!ResultTypeOK, EntryGood

-----------------------------------------------------------------------------
(* PatasApi: what its operators say *)

\* What the instance takes from other modules is what they say.
LEMMA ApiSame ==
    ASSUME NEW s, NEW S
    PROVE  /\ Api!Range(s) = Range(s) /\ Api!Cardinality(S) = Cardinality(S)
           /\ Api!IsFiniteSet(S) <=> IsFiniteSet(S)
<1>1. Api!Range(s) = Range(s)
    BY DEF Api!Range, Range
<1>2. Api!Cardinality(S) = Cardinality(S)
    BY DEF Api!Cardinality, Cardinality
<1>3. Api!IsFiniteSet(S) <=> IsFiniteSet(S)
    BY DEF Api!IsFiniteSet, IsFiniteSet
<1> QED
    BY <1>1, <1>2, <1>3

LEMMA Bounds ==
    ASSUME Api!ApiAssumption
    PROVE  /\ IsFiniteSet(Rules) /\ Limit \in Nat /\ Limit > 0 /\ SummaryLimit \in Nat
           /\ ExportLimit \in Nat /\ MaxStamp \in Nat /\ MaxChanges \in Nat
           /\ None \notin {"candidate", "shadow", "active", "deprecated"}
BY ApiSame DEF Api!ApiAssumption

\* The order of the queries of an analysis is that of the lifecycle.
LEMMA StatusFacts ==
    /\ Api!Range(Api!Statuses) = {"candidate", "shadow", "active", "deprecated"}
    /\ Api!Range(Api!Queried) = {"candidate", "shadow", "active"} /\ Len(Api!Queried) = 3
    /\ Api!Rank("candidate") = 1 /\ Api!Rank("shadow") = 2 /\ Api!Rank("active") = 3
    /\ Api!Rank("deprecated") = 4
    /\ \A k \in 1..3 : Api!Queried[k] \in Api!Range(Api!Queried) /\ Api!Rank(Api!Queried[k]) = k
<1>1. /\ DOMAIN Api!Statuses = 1..4 /\ DOMAIN Api!Queried = 1..3 /\ Len(Api!Queried) = 3
      /\ Api!Statuses[1] = "candidate" /\ Api!Statuses[2] = "shadow" /\ Api!Statuses[3] = "active"
      /\ Api!Statuses[4] = "deprecated"
      /\ Api!Queried[1] = "candidate" /\ Api!Queried[2] = "shadow" /\ Api!Queried[3] = "active"
    BY DEF Api!Statuses, Api!Queried
<1>2. \A k \in 1..4 : k = 1 \/ k = 2 \/ k = 3 \/ k = 4
    OBVIOUS
<1>3. \A k \in 1..3 : k = 1 \/ k = 2 \/ k = 3
    OBVIOUS
<1>4. Api!Range(Api!Statuses) = {"candidate", "shadow", "active", "deprecated"}
    BY <1>1, <1>2 DEF Api!Range
<1>5. Api!Range(Api!Queried) = {"candidate", "shadow", "active"}
    BY <1>1, <1>3 DEF Api!Range
<1>6. Api!Rank("candidate") = 1
    BY <1>1, <1>2 DEF Api!Rank
<1>7. Api!Rank("shadow") = 2
    BY <1>1, <1>2 DEF Api!Rank
<1>8. Api!Rank("active") = 3
    BY <1>1, <1>2 DEF Api!Rank
<1>9. Api!Rank("deprecated") = 4
    BY <1>1, <1>2 DEF Api!Rank
<1>10. \A k \in 1..3 : Api!Queried[k] \in Api!Range(Api!Queried) /\ Api!Rank(Api!Queried[k]) = k
    BY <1>1, <1>3, <1>5, <1>6, <1>7, <1>8
<1> QED
    BY <1>1, <1>4, <1>5, <1>6, <1>7, <1>8, <1>9, <1>10

\* The rules of S that are younger than r, in the table t.
YoungerIn(t, S, r) == {x \in S : t[x].stamp > t[r].stamp}

LEMMA YoungerFinite ==
    ASSUME Api!ApiAssumption, NEW S, S \subseteq Rules, NEW Y, Y \subseteq S
    PROVE  IsFiniteSet(S) /\ IsFiniteSet(Y) /\ Cardinality(S) \in Nat /\ Cardinality(Y) \in Nat
           /\ Cardinality(Y) <= Cardinality(S)
<1>1. IsFiniteSet(S)
    BY Bounds, FS_Subset
<1> QED
    BY <1>1, FS_Subset, FS_CardinalityType

\* ORDER BY created_at DESC: all of S, and a rule that shares its created_at with no
\* other comes after exactly the younger ones.
LEMMA NewestPlace ==
    ASSUME Api!ApiAssumption, rule \in [Rules -> Api!RuleRows], NEW S, S \subseteq Rules,
           NEW s \in Api!Newest(S)
    PROVE  /\ s \in Seq(Rules) /\ Api!Range(s) = S /\ Len(s) = Cardinality(S)
           /\ \A r \in S : (\A x \in S \ {r} : rule[x].stamp # rule[r].stamp) =>
                  /\ Cardinality(YoungerIn(rule, S, r)) + 1 \in 1..Len(s)
                  /\ s[Cardinality(YoungerIn(rule, S, r)) + 1] = r
<1> DEFINE n == Cardinality(S)
<1>1. IsFiniteSet(S) /\ n \in Nat
    BY YoungerFinite
<1>2. /\ s \in [1..n -> S] /\ (\A i, j \in 1..n : i # j => s[i] # s[j])
      /\ \A k, l \in DOMAIN s : k < l => rule[s[k]].stamp >= rule[s[l]].stamp
    BY ApiSame DEF Api!Newest, Api!SetToSeqs
<1> HIDE DEF n
<1>3. IsFiniteSet(1..n) /\ Cardinality(1..n) = n
    BY <1>1, FS_Interval
<1>4. s \in Injection(1..n, S)
    BY <1>2 DEF Injection, IsInjective
<1>5. s \in Surjection(1..n, S)
    BY <1>1, <1>3, <1>4, FS_Injection DEF n
<1>6. s \in Seq(S) /\ s \in Seq(Rules) /\ Len(s) = n /\ DOMAIN s = 1..n
    BY <1>1, <1>2
<1>7. Api!Range(s) = S
    BY <1>2, <1>5, <1>6 DEF Api!Range, Surjection
<1>8. ASSUME NEW r \in S, \A x \in S \ {r} : rule[x].stamp # rule[r].stamp
      PROVE  Cardinality(YoungerIn(rule, S, r)) + 1 \in 1..n /\ s[Cardinality(YoungerIn(rule, S, r)) + 1] = r
    <2>1. PICK k \in 1..n : s[k] = r
        BY <1>5 DEF Surjection
    <2>2. \A x \in S : rule[x].stamp \in Nat
        <3>1. 0..MaxStamp \subseteq Nat
            OBVIOUS
        <3> QED
            BY <3>1 DEF Api!RuleRows
    <2>3. ASSUME NEW j \in 1..n, j < k PROVE s[j] \in YoungerIn(rule, S, r)
        <3>1. s[j] \in S /\ s[j] # r /\ rule[s[j]].stamp >= rule[r].stamp
            BY <1>1, <1>2, <1>6, <2>1, <2>3
        <3>2. rule[s[j]].stamp # rule[r].stamp
            BY <1>8, <3>1
        <3> QED
            BY <2>2, <3>1, <3>2 DEF YoungerIn
    <2>4. ASSUME NEW x \in YoungerIn(rule, S, r) PROVE \E j \in 1..n : j < k /\ s[j] = x
        <3>1. x \in S /\ rule[x].stamp > rule[r].stamp
            BY <2>4 DEF YoungerIn
        <3>2. PICK j \in 1..n : s[j] = x
            BY <1>5, <3>1 DEF Surjection
        <3>3. j # k
            BY <2>1, <2>2, <3>1, <3>2
        <3>4. ASSUME k < j PROVE FALSE
            BY <1>1, <1>2, <1>6, <2>1, <2>2, <3>1, <3>2, <3>4
        <3> QED
            BY <1>1, <3>2, <3>3, <3>4
    <2> DEFINE B == [j \in 1..(k - 1) |-> s[j]]
    <2>5. k \in Nat /\ k - 1 \in Nat /\ 1..(k - 1) = {j \in 1..n : j < k}
        BY <1>1
    <2>6. B \in Bijection(1..(k - 1), YoungerIn(rule, S, r))
        BY <1>2, <2>3, <2>4, <2>5 DEF Bijection, Injection, Surjection, IsInjective
    <2>7. IsFiniteSet(1..(k - 1)) /\ Cardinality(1..(k - 1)) = k - 1
        BY <2>5, FS_Interval
    <2>8. ExistsBijection(1..(k - 1), YoungerIn(rule, S, r))
        BY <2>6 DEF ExistsBijection
    <2>9. Cardinality(YoungerIn(rule, S, r)) = k - 1
        BY <2>7, <2>8, FS_Bijection
    <2> QED
        BY <2>1, <2>5, <2>9
<1> QED
    BY <1>6, <1>7, <1>8 DEF n

\* Both slices of a page.
LEMMA SliceFacts ==
    ASSUME NEW T, NEW s \in Seq(T), NEW n \in Nat
    PROVE  /\ Api!UpTo(n, s) \in Seq(T) /\ Api!From(n, s) \in Seq(T)
           /\ Len(Api!UpTo(n, s)) = IF n < Len(s) THEN n ELSE Len(s)
           /\ Len(Api!From(n, s)) = IF n < Len(s) THEN Len(s) - n ELSE 0
           /\ \A k \in 1..Len(Api!UpTo(n, s)) : Api!UpTo(n, s)[k] = s[k]
           /\ \A k \in 1..Len(Api!From(n, s)) : Api!From(n, s)[k] = s[n + k]
<1> DEFINE m == IF n < Len(s) THEN n ELSE Len(s)
<1>1. Len(s) \in Nat /\ m \in Nat /\ m <= Len(s)
    OBVIOUS
<1>2. ASSUME NEW i \in Nat, NEW j \in Nat, i <= j, j <= Len(s)
      PROVE  /\ SubSeq(s, i + 1, j) \in Seq(T) /\ Len(SubSeq(s, i + 1, j)) = j - i
             /\ \A l \in 1..(j - i) : SubSeq(s, i + 1, j)[l] = s[i + l]
    BY <1>2
<1> HIDE DEF m
<1>3. Api!UpTo(n, s) = SubSeq(s, 1, m)
    BY DEF Api!UpTo, m
<1>4. /\ SubSeq(s, 1, m) \in Seq(T) /\ Len(SubSeq(s, 1, m)) = m
      /\ \A l \in 1..m : SubSeq(s, 1, m)[l] = s[l]
    BY <1>1
<1>5. CASE n < Len(s)
    <2>1. Api!From(n, s) = SubSeq(s, n + 1, Len(s))
        BY DEF Api!From
    <2>2. /\ SubSeq(s, n + 1, Len(s)) \in Seq(T) /\ Len(SubSeq(s, n + 1, Len(s))) = Len(s) - n
          /\ \A l \in 1..(Len(s) - n) : SubSeq(s, n + 1, Len(s))[l] = s[n + l]
        BY <1>1, <1>2, <1>5
    <2> QED
        BY <1>3, <1>4, <1>5, <2>1, <2>2 DEF m
<1>6. CASE ~(n < Len(s))
    <2>1. Api!From(n, s) = <<>>
        BY <1>1, <1>6, SubSeqEmpty DEF Api!From
    <2>2. Len(Api!From(n, s)) = 0 /\ Api!From(n, s) \in Seq(T) /\ 1..0 = {}
        BY <2>1
    <2> QED
        BY <1>3, <1>4, <1>6, <2>2 DEF m
<1> QED
    BY <1>5, <1>6

\* A page holds its part of the order; a short one ends it.
LEMMA PageFacts ==
    ASSUME Api!ApiAssumption, NEW s \in Seq(Rules), NEW offset \in Nat,
           NEW read, read \in {s, Api!UpTo(Api!Fetched(offset), s)},
           NEW page, page = Api!UpTo(Limit, Api!From(offset, read))
    PROVE  /\ page \in Seq(Rules)
           /\ \A k \in 1..Len(s) : k > offset =>
                  IF k <= offset + Limit THEN s[k] \in Api!Range(page) ELSE ~(Len(page) < Limit)
<1>1. Limit \in Nat /\ Limit > 0 /\ Len(s) \in Nat /\ Api!Fetched(offset) = offset + Limit
    BY Bounds DEF Api!Fetched
<1>0. \A t \in Seq(Rules), n \in Nat :
         /\ Api!UpTo(n, t) \in Seq(Rules)
         /\ Len(Api!UpTo(n, t)) = IF n < Len(t) THEN n ELSE Len(t)
         /\ \A k \in 1..Len(Api!UpTo(n, t)) : Api!UpTo(n, t)[k] = t[k]
    BY SliceFacts
<1>2. /\ read \in Seq(Rules) /\ Len(read) \in Nat
      /\ Len(read) = Len(s) \/ (Len(read) = offset + Limit /\ Len(read) <= Len(s))
      /\ \A k \in 1..Len(read) : read[k] = s[k]
    <2>1. CASE read = s
        BY <1>1, <2>1
    <2>2. CASE read = Api!UpTo(Api!Fetched(offset), s)
        <3>1. read = Api!UpTo(offset + Limit, s) /\ offset + Limit \in Nat
            BY <1>1, <2>2
        <3> QED
            BY <1>0, <1>1, <3>1
    <2> QED
        BY <2>1, <2>2
<1> DEFINE rest == Api!From(offset, read)
<1>3. /\ rest \in Seq(Rules) /\ Len(rest) = IF offset < Len(read) THEN Len(read) - offset ELSE 0
      /\ \A k \in 1..Len(rest) : rest[k] = read[offset + k]
    BY <1>2, SliceFacts
<1> HIDE DEF rest
<1>4. /\ page \in Seq(Rules) /\ Len(page) = IF Limit < Len(rest) THEN Limit ELSE Len(rest)
      /\ \A k \in 1..Len(page) : page[k] = rest[k]
    <2>1. page = Api!UpTo(Limit, rest)
        BY DEF rest
    <2> QED
        BY <1>0, <1>1, <1>3, <2>1
<1>5. ASSUME NEW k \in 1..Len(s), k > offset, k <= offset + Limit PROVE s[k] \in Api!Range(page)
    <2>1. k \in Nat /\ k - offset \in 1..Limit /\ k <= Len(read)
        BY <1>1, <1>2, <1>5
    <2>2. k - offset \in 1..Len(rest)
        BY <1>1, <1>2, <1>3, <1>5, <2>1
    <2>3. k - offset \in 1..Len(page)
        BY <1>1, <1>3, <1>4, <2>1, <2>2
    <2>4. offset + (k - offset) = k
        BY <2>1
    <2>5. page[k - offset] = s[k]
        BY <1>2, <1>3, <1>4, <2>1, <2>2, <2>3, <2>4
    <2>6. DOMAIN page = 1..Len(page)
        BY <1>4
    <2> QED
        BY <2>3, <2>5, <2>6 DEF Api!Range
<1>6. ASSUME NEW k \in 1..Len(s), k > offset + Limit PROVE ~(Len(page) < Limit)
    BY <1>1, <1>2, <1>3, <1>4, <1>6
<1> QED
    BY <1>1, <1>4, <1>5, <1>6

\* Every text of a list is that of a rule that stays in it.
LEMMA UniqueCovers ==
    ASSUME NEW s \in Seq(Rules)
    PROVE  /\ Api!Unique(s) \subseteq Api!Range(s)
           /\ \A r \in Api!Range(s) : \E x \in Api!Unique(s) : SqlOf[x] = SqlOf[r]
<1>1. Len(s) \in Nat /\ DOMAIN s = 1..Len(s)
    OBVIOUS
<1>2. Api!Unique(s) \subseteq Api!Range(s)
    BY DEF Api!Unique, Api!Range
<1>3. ASSUME NEW r \in Api!Range(s) PROVE \E x \in Api!Unique(s) : SqlOf[x] = SqlOf[r]
    <2> DEFINE T == {k \in 1..Len(s) : SqlOf[s[k]] = SqlOf[r]}
    <2>1. T \subseteq Nat /\ T # {}
        BY <1>1, <1>3 DEF Api!Range
    <2>2. PICK k \in T : \A l \in T : k <= l
        BY <2>1, LeastNumber
    <2>3. \A l \in 1..(k - 1) : SqlOf[s[l]] # SqlOf[s[k]]
        BY <1>1, <2>2
    <2>4. s[k] \in Api!Unique(s)
        BY <1>1, <2>2, <2>3 DEF Api!Unique
    <2> QED
        BY <2>2, <2>4
<1> QED
    BY <1>2, <1>3

-----------------------------------------------------------------------------
(* PatasApi: the inductive invariant *)

\* What the operators of PatasApi say of rules in the table t.
Listed(t, f) ==
    {r \in Rules : t[r].status \in IF f = None THEN Api!Range(Api!Statuses) ELSE {f}}

Twin(t, r) == \E x \in Listed(t, None) \ {r} : t[x].stamp = t[r].stamp

Fits(t, r, strict) == strict => t[r].precise

LEMMA TableFacts ==
    /\ \A f : Api!There(f) = Listed(rule, f)
    /\ \A r : Api!Tied(r) <=> Twin(rule, r)
    /\ \A r, strict : Api!Meets(r, strict) <=> Fits(rule, r, strict)
BY DEF Api!There, Listed, Api!Tied, Twin, Api!Meets, Fits

RequestRecords ==
    [pc: {"idle", "page", "rules", "walked", "status", "summaries", "answered", "exported"},
     filter: {None} \cup Api!Range(Api!Statuses), strict: BOOLEAN, unique: BOOLEAN,
     offset: Nat, phase: 1..4, list: Seq(Rules), todo: Seq(Rules),
     kept: Seq(Rules), seen: SUBSET Rules, exported: SUBSET Rules, owed: SUBSET Rules]

\* The walk has shown r, or its text.
Shown(q, r) ==
    IF q.unique THEN \E x \in q.seen : SqlOf[x] = SqlOf[r] ELSE r \in q.seen

\* How many rules the list asked for has before r.
Ahead(t, q, r) == Cardinality(YoungerIn(t, Listed(t, q.filter), r))

Gathered(q) == Api!Range(q.kept) \cup Api!Range(q.todo)

\* A rule that is owed was shown, or is in the page at hand, or still ahead of it.
WalkGood(t, q) ==
    /\ q.pc \in {"page", "rules"} =>
          \A r \in q.owed : r \in Listed(t, q.filter) /\ Fits(t, r, q.strict)
    /\ q.pc = "page" =>
          \A r \in q.owed : Twin(t, r) \/ Shown(q, r) \/ Ahead(t, q, r) >= q.offset
    /\ q.pc = "rules" => \A r \in q.owed :
          \/ Twin(t, r) \/ Shown(q, r) \/ r \in Gathered(q)
          \/ ~(Len(q.list) < Limit) /\ Ahead(t, q, r) >= q.offset + Limit
    /\ q.pc = "walked" => \A r \in q.owed : Twin(t, r) \/ Shown(q, r)

\* A rule that is owed was listed, or is in a status that is still to be read.
ToRead(t, q, r) == t[r].status \in Api!Range(Api!Queried) /\ Api!Rank(t[r].status) >= q.phase

AnalysisGood(t, q) ==
    /\ q.pc \in {"status", "summaries"} => \A r \in q.owed : Fits(t, r, q.strict)
    /\ q.pc = "status" => \A r \in q.owed : r \in Api!Range(q.list) \/ ToRead(t, q, r)
    /\ q.pc = "summaries" /\ Len(q.list) <= SummaryLimit => q.owed \subseteq Gathered(q)
    /\ q.pc = "answered" /\ Len(q.list) <= SummaryLimit => q.owed \subseteq q.seen

ApiInv ==
    /\ rule \in [Rules -> Api!RuleRows] /\ changes \in 0..MaxChanges
    /\ request \in RequestRecords
    /\ WalkGood(rule, request) /\ AnalysisGood(rule, request)

LEMMA ApiInvTyped ==
    ASSUME ApiInv
    PROVE  Api!ApiTypeOK
BY DEF ApiInv, Api!ApiTypeOK, RequestRecords

LEMMA IdleRecord ==
    Api!Idle \in RequestRecords /\ Api!Idle.pc = "idle" /\ Api!Idle.filter = None /\ Api!Idle.strict = FALSE
    /\ Api!Idle.unique = FALSE /\ Api!Idle.offset = 0 /\ Api!Idle.phase = 1 /\ Api!Idle.list = <<>>
    /\ Api!Idle.todo = <<>> /\ Api!Idle.kept = <<>> /\ Api!Idle.seen = {} /\ Api!Idle.exported = {}
    /\ Api!Idle.owed = {}
<1>1. 1 \in 1..4 /\ 0 \in Nat /\ <<>> \in Seq(Rules) /\ {} \in SUBSET Rules
    OBVIOUS
<1> QED
    BY <1>1 DEF Api!Idle, RequestRecords

LEMMA ListedFacts ==
    ASSUME Api!ApiAssumption, NEW t \in [Rules -> Api!RuleRows],
           NEW f \in {None} \cup Api!Range(Api!Statuses)
    PROVE  /\ Listed(t, f) \subseteq Listed(t, None) /\ Listed(t, None) \subseteq Rules
           /\ Listed(t, None) = {r \in Rules : t[r].status # "none"}
           /\ f # None => Listed(t, f) = {r \in Rules : t[r].status = f}
           /\ None \notin Api!Range(Api!Statuses) /\ "none" \notin Api!Range(Api!Statuses)
<1>1. Api!Range(Api!Statuses) = {"candidate", "shadow", "active", "deprecated"}
    BY StatusFacts
<1>2. None \notin Api!Range(Api!Statuses) /\ "none" \notin Api!Range(Api!Statuses)
    BY <1>1, Bounds
<1>3. \A r \in Rules : t[r].status \in {"none"} \cup Api!Range(Api!Statuses)
    BY DEF Api!RuleRows
<1> QED
    BY <1>2, <1>3 DEF Listed

LEMMA AheadType ==
    ASSUME Api!ApiAssumption, NEW t, NEW q, NEW r
    PROVE  Ahead(t, q, r) \in Nat
<1>1. YoungerIn(t, Listed(t, q.filter), r) \subseteq Rules
    BY DEF YoungerIn, Listed
<1> QED
    BY <1>1, YoungerFinite DEF Ahead

-----------------------------------------------------------------------------
(* PatasApi: the steps of the other calls *)

\* What the new table u leaves to a rule that is owed.
Undisturbed(t, u, q, r) ==
    /\ q.pc \in {"page", "rules", "status", "summaries"} /\ Fits(t, r, q.strict)
          => Fits(u, r, q.strict)
    /\ q.pc \in {"page", "rules"} /\ r \in Listed(t, q.filter)
          => /\ r \in Listed(u, q.filter)
             /\ YoungerIn(t, Listed(t, q.filter), r) \subseteq YoungerIn(u, Listed(u, q.filter), r)
    /\ q.pc = "status" /\ ToRead(t, q, r) => ToRead(u, q, r)

LEMMA OwedShrinks ==
    ASSUME Api!ApiAssumption,
           NEW t \in [Rules -> Api!RuleRows], NEW u \in [Rules -> Api!RuleRows],
           NEW q \in RequestRecords, WalkGood(t, q), AnalysisGood(t, q),
           q.pc \notin {"idle", "walked", "answered", "exported"},
           NEW owed \in SUBSET q.owed,
           \A x \in Listed(t, None) : x \in Listed(u, None) /\ u[x].stamp = t[x].stamp,
           \A r \in owed : Undisturbed(t, u, q, r)
    PROVE  LET p == [q EXCEPT !.owed = owed] IN
           p \in RequestRecords /\ WalkGood(u, p) /\ AnalysisGood(u, p)
<1> DEFINE p == [q EXCEPT !.owed = owed]
<1>1. p \in RequestRecords
    BY DEF RequestRecords
<1>2. /\ p.pc = q.pc /\ p.filter = q.filter /\ p.strict = q.strict /\ p.unique = q.unique
      /\ p.offset = q.offset /\ p.phase = q.phase /\ p.list = q.list /\ p.todo = q.todo
      /\ p.kept = q.kept /\ p.seen = q.seen /\ p.owed = owed
    BY DEF RequestRecords
<1> HIDE DEF p
<1>3. /\ q.filter \in {None} \cup Api!Range(Api!Statuses) /\ q.offset \in Nat /\ Limit \in Nat
      /\ q.owed \subseteq Rules /\ SummaryLimit \in Nat
    BY Bounds DEF RequestRecords
<1>4. Listed(t, q.filter) \subseteq Listed(t, None)
    BY <1>3, ListedFacts
<1>5. ASSUME NEW r \in Listed(t, None), Twin(t, r) PROVE Twin(u, r)
    <2>1. PICK x \in Listed(t, None) \ {r} : t[x].stamp = t[r].stamp
        BY <1>5 DEF Twin
    <2>2. x \in Listed(u, None) /\ x # r /\ u[x].stamp = u[r].stamp
        BY <2>1
    <2> QED
        BY <2>2 DEF Twin
<1>6. \A r : Shown(q, r) <=> Shown(p, r)
    BY <1>2 DEF Shown
<1>7. Gathered(p) = Gathered(q)
    BY <1>2 DEF Gathered
<1>8. ASSUME NEW r \in owed, q.pc \in {"page", "rules"}
      PROVE  /\ r \in Listed(t, None) /\ r \in Listed(u, p.filter) /\ Fits(u, r, p.strict)
             /\ Ahead(t, q, r) \in Nat /\ Ahead(u, p, r) \in Nat /\ Ahead(t, q, r) <= Ahead(u, p, r)
    <2>1. r \in Listed(t, q.filter) /\ Fits(t, r, q.strict)
        BY <1>8 DEF WalkGood
    <2>2. r \in Listed(u, q.filter) /\ Fits(u, r, q.strict)
          /\ YoungerIn(t, Listed(t, q.filter), r) \subseteq YoungerIn(u, Listed(u, q.filter), r)
        BY <1>8, <2>1 DEF Undisturbed
    <2>3. YoungerIn(u, Listed(u, q.filter), r) \subseteq Rules
        BY DEF YoungerIn, Listed
    <2>4. Cardinality(YoungerIn(t, Listed(t, q.filter), r))
              <= Cardinality(YoungerIn(u, Listed(u, q.filter), r))
        <3>1. IsFiniteSet(YoungerIn(u, Listed(u, q.filter), r))
            BY <2>3, YoungerFinite
        <3> QED
            BY <2>2, <3>1, FS_Subset
    <2>5. Ahead(t, q, r) \in Nat /\ Ahead(u, p, r) \in Nat
        BY AheadType
    <2>6. Ahead(t, q, r) <= Ahead(u, p, r)
        BY <1>2, <2>4 DEF Ahead
    <2> QED
        BY <1>2, <1>4, <2>1, <2>2, <2>5, <2>6
<1>9. WalkGood(u, p)
    <2>1. p.pc \in {"page", "rules"} =>
              \A r \in p.owed : r \in Listed(u, p.filter) /\ Fits(u, r, p.strict)
        BY <1>2, <1>8
    <2>2. ASSUME p.pc = "page", NEW r \in owed
          PROVE  Twin(u, r) \/ Shown(p, r) \/ Ahead(u, p, r) >= p.offset
        <3>1. Twin(t, r) \/ Shown(q, r) \/ Ahead(t, q, r) >= q.offset
            BY <1>2, <2>2 DEF WalkGood
        <3> QED
            BY <1>2, <1>3, <1>5, <1>6, <1>8, <2>2, <3>1
    <2>3. ASSUME p.pc = "rules", NEW r \in owed
          PROVE  \/ Twin(u, r) \/ Shown(p, r) \/ r \in Gathered(p)
                 \/ ~(Len(p.list) < Limit) /\ Ahead(u, p, r) >= p.offset + Limit
        <3>1. \/ Twin(t, r) \/ Shown(q, r) \/ r \in Gathered(q)
              \/ ~(Len(q.list) < Limit) /\ Ahead(t, q, r) >= q.offset + Limit
            BY <1>2, <2>3 DEF WalkGood
        <3>2. CASE ~(Len(q.list) < Limit) /\ Ahead(t, q, r) >= q.offset + Limit
            <4>1. Ahead(u, p, r) >= p.offset + Limit
                BY <1>2, <1>3, <1>8, <2>3, <3>2
            <4> QED
                BY <1>2, <3>2, <4>1
        <3> QED
            BY <1>2, <1>5, <1>6, <1>7, <1>8, <2>3, <3>1, <3>2
    <2> QED
        BY <1>2, <2>1, <2>2, <2>3 DEF WalkGood
<1>10. AnalysisGood(u, p)
    <2>1. ASSUME p.pc \in {"status", "summaries"}, NEW r \in owed PROVE Fits(u, r, p.strict)
        BY <1>2, <2>1 DEF AnalysisGood, Undisturbed
    <2>2. ASSUME p.pc = "status", NEW r \in owed PROVE r \in Api!Range(p.list) \/ ToRead(u, p, r)
        <3>1. r \in Api!Range(q.list) \/ ToRead(t, q, r)
            BY <1>2, <2>2 DEF AnalysisGood
        <3>2. ToRead(u, q, r) => ToRead(u, p, r)
            BY <1>2 DEF ToRead
        <3> QED
            BY <1>2, <2>2, <3>1, <3>2 DEF Undisturbed
    <2>3. p.pc = "summaries" /\ Len(p.list) <= SummaryLimit => owed \subseteq Gathered(p)
        BY <1>2, <1>7 DEF AnalysisGood
    <2> QED
        BY <1>2, <2>1, <2>2, <2>3 DEF AnalysisGood
<1> QED
    BY <1>1, <1>9, <1>10 DEF p

LEMMA TableMoves ==
    ASSUME Api!ApiAssumption, ApiInv,
           rule' \in [Rules -> Api!RuleRows], changes' \in 0..MaxChanges,
           request.pc \notin {"idle", "walked", "answered", "exported"},
           NEW owed \in SUBSET request.owed,
           request' = [request EXCEPT !.owed = owed],
           \A x \in Listed(rule, None) : x \in Listed(rule', None) /\ rule'[x].stamp = rule[x].stamp,
           \A r \in owed : Undisturbed(rule, rule', request, r)
    PROVE  ApiInv'
<1> DEFINE t == rule
           u == rule'
           q == request
           p == [q EXCEPT !.owed = owed]
<1>1. /\ t \in [Rules -> Api!RuleRows] /\ u \in [Rules -> Api!RuleRows] /\ q \in RequestRecords
      /\ WalkGood(t, q) /\ AnalysisGood(t, q)
    BY DEF ApiInv
<1>2. \A x \in Listed(t, None) : x \in Listed(u, None) /\ u[x].stamp = t[x].stamp
    OBVIOUS
<1>3. q.pc \notin {"idle", "walked", "answered", "exported"} /\ owed \in SUBSET q.owed
    OBVIOUS
<1>4. \A r \in owed : Undisturbed(t, u, q, r)
    OBVIOUS
<1>5. request' = p
    OBVIOUS
<1> HIDE DEF t, u, q
<1>6. p \in RequestRecords /\ WalkGood(u, p) /\ AnalysisGood(u, p)
    BY <1>1, <1>2, <1>3, <1>4, OwedShrinks
<1> HIDE DEF p
<1>7. request' \in RequestRecords /\ WalkGood(rule', request') /\ AnalysisGood(rule', request')
    BY <1>5, <1>6 DEF u
<1> QED
    BY <1>7 DEF ApiInv

LEMMA ChangeFacts ==
    ASSUME Api!ApiAssumption, ApiInv, Api!Change
    PROVE  /\ changes' \in 0..MaxChanges
           /\ request.pc \notin {"idle", "walked", "answered", "exported"}
<1>1. changes \in 0..MaxChanges /\ MaxChanges \in Nat
    BY Bounds DEF ApiInv
<1>2. changes < MaxChanges /\ changes' = changes + 1
    BY DEF Api!Change
<1>3. request.pc \notin {"idle", "walked", "answered", "exported"}
    BY DEF Api!Change
<1> QED
    BY <1>1, <1>2, <1>3

LEMMA RowFacts ==
    ASSUME Api!ApiAssumption, NEW t \in [Rules -> Api!RuleRows], NEW r \in Rules
    PROVE  /\ t[r].status \in {"none"} \cup Api!Range(Api!Statuses)
           /\ t[r].stamp \in 0..MaxStamp /\ t[r].stamp \in Nat /\ t[r].precise \in BOOLEAN
<1>1. 0..MaxStamp \subseteq Nat
    OBVIOUS
<1> QED
    BY <1>1 DEF Api!RuleRows

\* A new rule is behind nobody who is listed.
LEMMA StepCreate ==
    ASSUME Api!ApiAssumption, ApiInv, NEW c \in Rules, Api!Create(c)
    PROVE  ApiInv'
<1>1. rule \in [Rules -> Api!RuleRows] /\ request \in RequestRecords
    BY DEF ApiInv
<1>2. changes' \in 0..MaxChanges /\ request.pc \notin {"idle", "walked", "answered", "exported"}
    BY ChangeFacts DEF Api!Create
<1>3. PICK s \in 0..MaxStamp :
          rule' = [rule EXCEPT ![c].status = "candidate", ![c].stamp = s]
    BY DEF Api!Create
<1>4. rule[c].status = "none" /\ request' = request
    BY DEF Api!Create
<1>5. "candidate" \in Api!Range(Api!Statuses) /\ "none" \notin Api!Range(Api!Statuses) /\ Api!Range(Api!Queried) \subseteq Api!Range(Api!Statuses)
    BY StatusFacts
<1>6. /\ rule' \in [Rules -> Api!RuleRows]
      /\ \A x \in Rules : x # c => rule'[x] = rule[x]
      /\ rule'[c].precise = rule[c].precise
    BY <1>1, <1>3, <1>5, RowFacts DEF Api!RuleRows
<1>7. \A f \in {None} \cup Api!Range(Api!Statuses) : \A x \in Listed(rule, f) :
          x # c /\ x \in Rules /\ x \in Listed(rule', f)
    <2>1. \A f \in {None} \cup Api!Range(Api!Statuses) : \A x \in Listed(rule, f) : x \in Rules /\ x # c
        BY <1>4, <1>5 DEF Listed
    <2> QED
        BY <1>6, <2>1 DEF Listed
<1>8. \A x \in Listed(rule, None) : x \in Listed(rule', None) /\ rule'[x].stamp = rule[x].stamp
    BY <1>6, <1>7
<1>9. ASSUME NEW r \in request.owed PROVE Undisturbed(rule, rule', request, r)
    <2>1. r \in Rules /\ request.filter \in {None} \cup Api!Range(Api!Statuses)
        BY <1>1 DEF RequestRecords
    <2>2. Fits(rule, r, request.strict) => Fits(rule', r, request.strict)
        BY <1>6, <2>1 DEF Fits
    <2>3. ASSUME r \in Listed(rule, request.filter)
          PROVE  /\ r \in Listed(rule', request.filter)
                 /\ YoungerIn(rule, Listed(rule, request.filter), r)
                        \subseteq YoungerIn(rule', Listed(rule', request.filter), r)
        BY <1>6, <1>7, <2>1, <2>3 DEF YoungerIn
    <2>4. ToRead(rule, request, r) => ToRead(rule', request, r)
        BY <1>4, <1>5, <1>6, <2>1 DEF ToRead
    <2> QED
        BY <2>2, <2>3, <2>4 DEF Undisturbed
<1>10. request' = [request EXCEPT !.owed = request.owed]
    BY <1>1, <1>4 DEF RequestRecords
<1> QED
    BY <1>2, <1>6, <1>8, <1>9, <1>10, TableMoves

LEMMA StepEvaluate ==
    ASSUME Api!ApiAssumption, ApiInv, NEW c \in Rules, Api!Evaluate(c)
    PROVE  ApiInv'
<1> DEFINE owed == IF request.strict THEN request.owed \ {c} ELSE request.owed
<1>1. rule \in [Rules -> Api!RuleRows] /\ request \in RequestRecords
    BY DEF ApiInv
<1>2. changes' \in 0..MaxChanges /\ request.pc \notin {"idle", "walked", "answered", "exported"}
    BY ChangeFacts DEF Api!Evaluate
<1>3. rule' = [rule EXCEPT ![c].precise = ~@] /\ request' = [request EXCEPT !.owed = owed]
    BY <1>1 DEF Api!Evaluate, RequestRecords
<1>4. owed \in SUBSET request.owed /\ (request.strict => c \notin owed)
    OBVIOUS
<1> HIDE DEF owed
<1>5. /\ rule' \in [Rules -> Api!RuleRows]
      /\ \A x \in Rules : /\ rule'[x].status = rule[x].status /\ rule'[x].stamp = rule[x].stamp
                          /\ x # c => rule'[x] = rule[x]
    <2>1. (~rule[c].precise) \in BOOLEAN
        BY <1>1, RowFacts
    <2> QED
        BY <1>1, <1>3, <2>1 DEF Api!RuleRows
<1>6. \A f : Listed(rule', f) = Listed(rule, f)
    BY <1>5 DEF Listed
<1>7. \A x \in Listed(rule, None) : x \in Listed(rule', None) /\ rule'[x].stamp = rule[x].stamp
    BY <1>5, <1>6 DEF Listed
<1>8. ASSUME NEW r \in owed PROVE Undisturbed(rule, rule', request, r)
    <2>1. r \in Rules
        BY <1>1, <1>4 DEF RequestRecords
    <2>2. Fits(rule, r, request.strict) => Fits(rule', r, request.strict)
        BY <1>4, <1>5, <2>1 DEF Fits
    <2>3. YoungerIn(rule, Listed(rule, request.filter), r)
              \subseteq YoungerIn(rule', Listed(rule', request.filter), r)
        BY <1>5, <1>6, <2>1 DEF YoungerIn, Listed
    <2>4. ToRead(rule, request, r) => ToRead(rule', request, r)
        BY <1>5, <2>1 DEF ToRead
    <2> QED
        BY <1>6, <2>2, <2>3, <2>4 DEF Undisturbed
<1> QED
    BY <1>2, <1>3, <1>4, <1>5, <1>7, <1>8, TableMoves

\* Whoever leaves the list moves only the older rules forward.
LEMMA StepMove ==
    ASSUME Api!ApiAssumption, ApiInv, NEW c \in Rules, NEW status \in Api!Range(Api!Statuses),
           Api!Move(c, status)
    PROVE  ApiInv'
<1> DEFINE from == rule[c].status
           q == request
           owed == IF q.pc \in {"status", "summaries"}
                   THEN IF Api!Rank(status) \in {1, 2, 3} /\ Api!Rank(status) > Api!Rank(from)
                        THEN q.owed ELSE q.owed \ {c}
                   ELSE IF q.filter = from
                   THEN {x \in q.owed : rule[x].stamp > rule[c].stamp} ELSE q.owed
<1>1. rule \in [Rules -> Api!RuleRows] /\ q \in RequestRecords
    BY DEF ApiInv
<1>2. changes' \in 0..MaxChanges /\ q.pc \notin {"idle", "walked", "answered", "exported"}
    BY ChangeFacts DEF Api!Move
<1>3. /\ rule' = [rule EXCEPT ![c].status = status] /\ q' = [q EXCEPT !.owed = owed]
      /\ from \notin {"none", status}
    BY <1>1 DEF Api!Move, RequestRecords
<1>4. owed \in SUBSET q.owed
    OBVIOUS
<1>5. /\ rule' \in [Rules -> Api!RuleRows] /\ rule'[c].status = status
      /\ \A x \in Rules : /\ rule'[x].stamp = rule[x].stamp /\ rule'[x].precise = rule[x].precise
                          /\ x # c => rule'[x] = rule[x]
    BY <1>1, <1>3 DEF Api!RuleRows
<1>6. "none" \notin Api!Range(Api!Statuses) /\ None \notin Api!Range(Api!Statuses)
    BY StatusFacts, Bounds
<1>7. \A x \in Listed(rule, None) : x \in Listed(rule', None) /\ rule'[x].stamp = rule[x].stamp
    BY <1>5 DEF Listed
<1>8. \A f \in Api!Range(Api!Statuses) : \A x \in Listed(rule, f) : x # c => x \in Listed(rule', f)
    BY <1>5, <1>6 DEF Listed
<1>9. ASSUME NEW r \in owed PROVE Undisturbed(rule, rule', q, r)
    <2>1. r \in Rules /\ q.filter \in {None} \cup Api!Range(Api!Statuses)
        BY <1>1, <1>4 DEF RequestRecords
    <2>2. Fits(rule, r, q.strict) => Fits(rule', r, q.strict)
        BY <1>5, <2>1 DEF Fits
    <2>3. ASSUME q.pc \in {"page", "rules"}, r \in Listed(rule, q.filter)
          PROVE  /\ r \in Listed(rule', q.filter)
                 /\ YoungerIn(rule, Listed(rule, q.filter), r)
                        \subseteq YoungerIn(rule', Listed(rule', q.filter), r)
        <3> DEFINE f == q.filter
                   Y == YoungerIn(rule, Listed(rule, f), r)
        <3>1. \A x \in Y : x \in Listed(rule, f) /\ x \in Rules /\ rule[x].stamp > rule[r].stamp
            BY DEF YoungerIn, Listed
        <3>2. \A x \in Y \cup {r} : x \in Listed(rule', f)
            <4>1. CASE f = None
                BY <1>7, <2>3, <3>1, <4>1
            <4>2. CASE f # None /\ f # from
                <5>1. c \notin Listed(rule, f)
                    BY <4>2 DEF Listed
                <5> QED
                    BY <1>8, <2>1, <2>3, <3>1, <4>2, <5>1
            <4>3. CASE f # None /\ f = from
                <5>1. rule[r].stamp > rule[c].stamp
                    BY <1>9, <2>3, <4>3
                <5>2. \A x \in Rules : rule[x].stamp \in Nat
                    BY <1>1, RowFacts
                <5>3. \A x \in Y \cup {r} : x # c
                    BY <2>1, <3>1, <5>1, <5>2
                <5> QED
                    BY <1>8, <2>1, <2>3, <3>1, <4>3, <5>3
            <4> QED
                BY <4>1, <4>2, <4>3
        <3>3. Y \subseteq YoungerIn(rule', Listed(rule', f), r)
            BY <1>5, <2>1, <3>1, <3>2 DEF YoungerIn
        <3> QED
            BY <3>2, <3>3
    <2>4. ASSUME q.pc = "status", ToRead(rule, q, r) PROVE ToRead(rule', q, r)
        <3>1. CASE r # c
            BY <1>5, <2>1, <2>4, <3>1 DEF ToRead
        <3>2. CASE r = c
            <4>1. Api!Rank(status) \in {1, 2, 3} /\ Api!Rank(status) > Api!Rank(from)
                BY <1>9, <2>4, <3>2
            <4>2. Api!Rank(from) \in Int /\ Api!Rank(from) >= q.phase /\ q.phase \in Nat
                BY <1>1, <2>4, <3>2, StatusFacts DEF ToRead, RequestRecords
            <4>3. status \in Api!Range(Api!Queried)
                BY <4>1, StatusFacts
            <4>4. Api!Rank(status) >= q.phase
                BY <4>1, <4>2
            <4> QED
                BY <1>5, <3>2, <4>3, <4>4 DEF ToRead
        <3> QED
            BY <3>1, <3>2
    <2> QED
        BY <2>2, <2>3, <2>4 DEF Undisturbed
<1> HIDE DEF owed
<1> QED
    BY <1>2, <1>3, <1>4, <1>5, <1>7, <1>9, TableMoves

-----------------------------------------------------------------------------
(* PatasApi: the steps of the request *)

LEMMA RequestMoves ==
    ASSUME ApiInv, rule' = rule, changes' = changes, request' \in RequestRecords,
           WalkGood(rule, request'), AnalysisGood(rule, request')
    PROVE  ApiInv'
<1>1. rule \in [Rules -> Api!RuleRows] /\ changes \in 0..MaxChanges
    BY DEF ApiInv
<1>2. WalkGood(rule', request') /\ AnalysisGood(rule', request')
    OBVIOUS
<1> QED
    BY <1>1, <1>2 DEF ApiInv

\* Every set of listed rules has an order with each in the place it should have.
LEMMA OrderFacts ==
    ASSUME Api!ApiAssumption, ApiInv, NEW f \in {None} \cup Api!Range(Api!Statuses),
           NEW s \in Api!Newest(Api!There(f))
    PROVE  /\ s \in Seq(Rules) /\ Api!Range(s) = Listed(rule, f)
           /\ \A r \in Listed(rule, f) : ~Twin(rule, r) =>
                  LET k == Cardinality(YoungerIn(rule, Listed(rule, f), r)) + 1 IN
                  k \in 1..Len(s) /\ s[k] = r
<1> DEFINE S == Listed(rule, f)
<1>1. rule \in [Rules -> Api!RuleRows]
    BY DEF ApiInv
<1>2. S \subseteq Listed(rule, None) /\ S \subseteq Rules /\ s \in Api!Newest(S)
    BY <1>1, ListedFacts, TableFacts
<1> HIDE DEF S
<1>3. \A r \in S : ~Twin(rule, r) => \A x \in S \ {r} : rule[x].stamp # rule[r].stamp
    BY <1>2 DEF Twin
<1>4. /\ s \in Seq(Rules) /\ Api!Range(s) = S
      /\ \A r \in S : (\A x \in S \ {r} : rule[x].stamp # rule[r].stamp) =>
             /\ Cardinality(YoungerIn(rule, S, r)) + 1 \in 1..Len(s)
             /\ s[Cardinality(YoungerIn(rule, S, r)) + 1] = r
    BY <1>1, <1>2, NewestPlace
<1> QED
    BY <1>3, <1>4 DEF S

LEMMA StepStartWalk ==
    ASSUME Api!ApiAssumption, ApiInv, NEW f \in {None, "shadow"}, NEW strict \in BOOLEAN,
           NEW unique \in BOOLEAN, Api!StartWalk(f, strict, unique)
    PROVE  ApiInv'
<1> DEFINE owed == {r \in Api!There(f) : Api!Meets(r, strict)}
           p == request'
<1>1. /\ rule' = rule /\ changes' = changes
      /\ p = [Api!Idle EXCEPT !.pc = "page", !.filter = f, !.strict = strict,
                          !.unique = unique, !.owed = owed]
    BY DEF Api!StartWalk
<1>2. /\ owed \in SUBSET Rules
      /\ \A r \in owed : r \in Listed(rule, f) /\ Fits(rule, r, strict)
    BY TableFacts DEF Listed
<1>3. f \in {None} \cup Api!Range(Api!Statuses)
    BY StatusFacts
<1> HIDE DEF owed
<1>4. /\ p \in RequestRecords /\ p.pc = "page" /\ p.filter = f /\ p.strict = strict
      /\ p.offset = 0 /\ p.owed = owed
    BY <1>1, <1>2, <1>3, IdleRecord DEF RequestRecords
<1> HIDE DEF p
<1>5. \A r \in owed : Ahead(rule, p, r) >= 0
    BY AheadType
<1>6. WalkGood(rule, p) /\ AnalysisGood(rule, p)
    BY <1>2, <1>4, <1>5 DEF WalkGood, AnalysisGood
<1> QED
    BY <1>1, <1>4, <1>6, RequestMoves DEF p

\* A page takes the rules from offset on: who is ahead of it no longer is behind.
LEMMA StepListPage ==
    ASSUME Api!ApiAssumption, ApiInv, Api!ListPage
    PROVE  ApiInv'
<1> DEFINE q == request
           p == request'
<1>1. q \in RequestRecords /\ q.pc = "page" /\ WalkGood(rule, q) /\ AnalysisGood(rule, q)
    BY DEF ApiInv, Api!ListPage
<1>2. /\ q.filter \in {None} \cup Api!Range(Api!Statuses) /\ q.offset \in Nat /\ Limit \in Nat
      /\ q.kept \in Seq(Rules) /\ q.owed \subseteq Rules
    BY <1>1, Bounds DEF RequestRecords
<1>3. PICK order \in Api!Newest(Api!There(q.filter)) :
         LET read == IF q.filter = None THEN Api!UpTo(Api!Fetched(q.offset), order) ELSE order
             page == Api!UpTo(Limit, Api!From(q.offset, read))
         IN p = [q EXCEPT !.pc = "rules", !.list = page, !.todo = page]
    BY DEF Api!ListPage
<1> DEFINE read == IF q.filter = None THEN Api!UpTo(Api!Fetched(q.offset), order) ELSE order
           page == Api!UpTo(Limit, Api!From(q.offset, read))
<1>4. /\ order \in Seq(Rules)
      /\ \A r \in Listed(rule, q.filter) : ~Twin(rule, r) =>
             Ahead(rule, q, r) + 1 \in 1..Len(order) /\ order[Ahead(rule, q, r) + 1] = r
    BY <1>2, OrderFacts DEF Ahead
<1>5. read \in {order, Api!UpTo(Api!Fetched(q.offset), order)}
    OBVIOUS
<1>6. p = [q EXCEPT !.pc = "rules", !.list = page, !.todo = page]
    BY <1>3
<1> HIDE DEF read
<1>7. /\ page \in Seq(Rules)
      /\ \A k \in 1..Len(order) : k > q.offset =>
             IF k <= q.offset + Limit THEN order[k] \in Api!Range(page) ELSE ~(Len(page) < Limit)
    BY <1>2, <1>4, <1>5, PageFacts
<1> HIDE DEF page
<1>8. /\ p \in RequestRecords /\ p.pc = "rules" /\ p.filter = q.filter /\ p.strict = q.strict
      /\ p.unique = q.unique /\ p.offset = q.offset /\ p.list = page /\ p.todo = page
      /\ p.kept = q.kept /\ p.seen = q.seen /\ p.owed = q.owed
    BY <1>1, <1>6, <1>7 DEF RequestRecords
<1>9. rule' = rule /\ changes' = changes
    BY DEF Api!ListPage
<1> HIDE DEF p
<1>10. ASSUME NEW r \in q.owed
       PROVE  \/ Twin(rule, r) \/ Shown(p, r) \/ r \in Gathered(p)
              \/ ~(Len(p.list) < Limit) /\ Ahead(rule, p, r) >= p.offset + Limit
    <2> SUFFICES ASSUME ~Twin(rule, r), ~Shown(p, r)
                 PROVE  \/ r \in Gathered(p)
                        \/ ~(Len(p.list) < Limit) /\ Ahead(rule, p, r) >= p.offset + Limit
        OBVIOUS
    <2>1. ~Shown(q, r)
        BY <1>8 DEF Shown
    <2>2. r \in Listed(rule, q.filter) /\ Ahead(rule, q, r) >= q.offset
        BY <1>1, <1>10, <2>1 DEF WalkGood
    <2>3. Ahead(rule, p, r) = Ahead(rule, q, r) /\ Ahead(rule, q, r) \in Nat
        BY <1>8, AheadType DEF Ahead
    <2> DEFINE k == Ahead(rule, q, r) + 1
    <2>4. k \in 1..Len(order) /\ order[k] = r /\ k > q.offset
        BY <1>2, <1>4, <2>2, <2>3
    <2>5. CASE k <= q.offset + Limit
        <3>1. r \in Api!Range(page)
            BY <1>7, <2>4, <2>5
        <3> QED
            BY <1>8, <3>1 DEF Gathered
    <2>6. CASE ~(k <= q.offset + Limit)
        <3>1. ~(Len(page) < Limit)
            BY <1>7, <2>4, <2>6
        <3>2. Ahead(rule, q, r) >= q.offset + Limit
            BY <1>2, <2>3, <2>6
        <3> QED
            BY <1>8, <2>3, <3>1, <3>2
    <2> QED
        BY <2>5, <2>6
<1>11. WalkGood(rule, p)
    BY <1>1, <1>8, <1>10 DEF WalkGood
<1>12. AnalysisGood(rule, p)
    BY <1>8 DEF AnalysisGood
<1> QED
    BY <1>8, <1>9, <1>11, <1>12, RequestMoves DEF p

LEMMA QueueFacts ==
    ASSUME NEW s \in Seq(Rules)
    PROVE  /\ s # <<>> => /\ Head(s) \in Rules /\ Tail(s) \in Seq(Rules)
                          /\ Api!Range(s) = {Head(s)} \cup Api!Range(Tail(s))
           /\ \A x \in Rules : Append(s, x) \in Seq(Rules) /\ Api!Range(Append(s, x)) = Api!Range(s) \cup {x}
<1>1. Len(s) \in Nat /\ DOMAIN s = 1..Len(s) /\ \A i \in 1..Len(s) : s[i] \in Rules
    OBVIOUS
<1>2. ASSUME s # <<>>
      PROVE  /\ Head(s) \in Rules /\ Tail(s) \in Seq(Rules)
             /\ Api!Range(s) = {Head(s)} \cup Api!Range(Tail(s))
    <2> DEFINE t == Tail(s)
    <2>1. Len(s) > 0 /\ Head(s) = s[1] /\ 1 \in 1..Len(s)
        BY <1>1, <1>2
    <2>2. /\ t \in Seq(Rules) /\ DOMAIN t = 1..(Len(s) - 1)
          /\ \A n \in 1..(Len(s) - 1) : t[n] = s[n + 1] /\ n + 1 \in 1..Len(s)
        BY <1>2
    <2> HIDE DEF t
    <2>3. \A n \in 1..Len(s) : n # 1 => n - 1 \in 1..(Len(s) - 1) /\ t[n - 1] = s[n]
        BY <1>1, <2>2
    <2>4. ASSUME NEW x \in Api!Range(s) PROVE x \in {Head(s)} \cup Api!Range(t)
        <3>1. PICK n \in 1..Len(s) : x = s[n]
            BY <1>1, <2>4 DEF Api!Range
        <3>2. CASE n = 1
            BY <2>1, <3>1, <3>2
        <3>3. CASE n # 1
            BY <2>2, <2>3, <3>1, <3>3 DEF Api!Range
        <3> QED
            BY <3>2, <3>3
    <2>5. ASSUME NEW x \in Api!Range(t) PROVE x \in Api!Range(s)
        BY <1>1, <2>2, <2>5 DEF Api!Range
    <2>6. Head(s) \in Api!Range(s)
        BY <1>1, <2>1 DEF Api!Range
    <2>7. Api!Range(s) = {Head(s)} \cup Api!Range(t)
        BY <2>4, <2>5, <2>6
    <2> QED
        BY <1>1, <2>1, <2>2, <2>7 DEF t
<1>3. ASSUME NEW x \in Rules
      PROVE  Append(s, x) \in Seq(Rules) /\ Api!Range(Append(s, x)) = Api!Range(s) \cup {x}
    <2> DEFINE t == Append(s, x)
    <2>1. /\ t \in Seq(Rules) /\ DOMAIN t = 1..(Len(s) + 1) /\ t[Len(s) + 1] = x
          /\ \A n \in 1..Len(s) : t[n] = s[n] /\ n \in 1..(Len(s) + 1)
          /\ \A n \in 1..(Len(s) + 1) : n = Len(s) + 1 \/ n \in 1..Len(s)
          /\ Len(s) + 1 \in 1..(Len(s) + 1)
        OBVIOUS
    <2> HIDE DEF t
    <2>2. Api!Range(t) = Api!Range(s) \cup {x}
        BY <1>1, <2>1 DEF Api!Range
    <2> QED
        BY <2>1, <2>2 DEF t
<1> QED
    BY <1>2, <1>3

\* A rule is described and, when it meets the filter, kept.
LEMMA StepDescribe ==
    ASSUME Api!ApiAssumption, ApiInv, NEW pc \in {"rules", "summaries"}, Api!Describe(pc)
    PROVE  ApiInv'
<1> DEFINE q == request
           p == request'
           r0 == Head(q.todo)
           kept == IF Api!Meets(r0, q.strict) THEN Append(q.kept, r0) ELSE q.kept
<1>1. q \in RequestRecords /\ WalkGood(rule, q) /\ AnalysisGood(rule, q)
    BY DEF ApiInv
<1>2. /\ q.pc = pc /\ q.todo # <<>> /\ rule' = rule /\ changes' = changes
      /\ p = [q EXCEPT !.todo = Tail(q.todo), !.kept = kept]
    BY <1>1 DEF Api!Describe, RequestRecords
<1>3. q.todo \in Seq(Rules) /\ q.kept \in Seq(Rules)
    BY <1>1 DEF RequestRecords
<1>4. /\ r0 \in Rules /\ Tail(q.todo) \in Seq(Rules)
      /\ Api!Range(q.todo) = {r0} \cup Api!Range(Tail(q.todo))
    BY <1>2, <1>3, QueueFacts
<1> HIDE DEF r0
<1>5. kept \in Seq(Rules) /\ Api!Range(q.kept) \subseteq Api!Range(kept)
      /\ (Fits(rule, r0, q.strict) => r0 \in Api!Range(kept))
    BY <1>3, <1>4, QueueFacts, TableFacts
<1> HIDE DEF kept
<1>6. /\ p \in RequestRecords /\ p.pc = pc /\ p.filter = q.filter /\ p.strict = q.strict
      /\ p.unique = q.unique /\ p.offset = q.offset /\ p.list = q.list
      /\ p.todo = Tail(q.todo) /\ p.kept = kept /\ p.seen = q.seen /\ p.owed = q.owed
    BY <1>1, <1>2, <1>4, <1>5 DEF RequestRecords
<1> HIDE DEF p
<1>7. \A r \in q.owed : Fits(rule, r, q.strict)
    BY <1>1, <1>2 DEF WalkGood, AnalysisGood
<1>8. \A r \in q.owed : r \in Gathered(q) => r \in Gathered(p)
    BY <1>4, <1>5, <1>6, <1>7 DEF Gathered
<1>9. \A r : (Shown(q, r) <=> Shown(p, r)) /\ Ahead(rule, p, r) = Ahead(rule, q, r)
    BY <1>6 DEF Shown, Ahead
<1>10. WalkGood(rule, p)
    BY <1>1, <1>2, <1>6, <1>8, <1>9 DEF WalkGood
<1>11. AnalysisGood(rule, p)
    BY <1>1, <1>2, <1>6, <1>8 DEF AnalysisGood
<1> QED
    BY <1>2, <1>6, <1>10, <1>11, RequestMoves DEF p

\* What was kept is shown, or a rule with the same text.
LEMMA StepAnswerPage ==
    ASSUME Api!ApiAssumption, ApiInv, Api!AnswerPage
    PROVE  ApiInv'
<1> DEFINE q == request
           p == request'
           pc == IF Len(q.list) < Limit THEN "walked" ELSE "page"
           new == IF q.unique THEN Api!Unique(q.kept) ELSE Api!Range(q.kept)
<1>1. q \in RequestRecords /\ q.pc = "rules" /\ q.todo = <<>> /\ WalkGood(rule, q)
    BY DEF ApiInv, Api!AnswerPage
<1>2. /\ rule' = rule /\ changes' = changes
      /\ p = [q EXCEPT !.pc = pc, !.seen = q.seen \cup new, !.offset = q.offset + Limit,
                       !.list = <<>>, !.kept = <<>>]
    BY <1>1 DEF Api!AnswerPage, RequestRecords
<1>3. /\ q.kept \in Seq(Rules) /\ q.offset \in Nat /\ Limit \in Nat /\ q.seen \subseteq Rules
      /\ q.owed \subseteq Rules
    BY <1>1, Bounds DEF RequestRecords
<1>4. /\ pc \in {"walked", "page"} /\ (pc = "page" => ~(Len(q.list) < Limit))
      /\ (pc = "walked" => Len(q.list) < Limit)
    OBVIOUS
<1> HIDE DEF pc
<1>5. Api!Range(q.kept) \subseteq Rules /\ new \subseteq Api!Range(q.kept)
    BY <1>3, UniqueCovers DEF Api!Range
<1>6. \A r \in Api!Range(q.kept) : IF q.unique THEN \E x \in new : SqlOf[x] = SqlOf[r] ELSE r \in new
    BY <1>3, UniqueCovers
<1> HIDE DEF new
<1>7. /\ p \in RequestRecords /\ p.pc = pc /\ p.filter = q.filter /\ p.strict = q.strict
      /\ p.unique = q.unique /\ p.offset = q.offset + Limit
      /\ p.seen = q.seen \cup new /\ p.owed = q.owed
    <2>1. /\ <<>> \in Seq(Rules) /\ q.offset + Limit \in Nat /\ q.seen \cup new \in SUBSET Rules
          /\ pc \in {"idle", "page", "rules", "walked", "status", "summaries", "answered", "exported"}
        BY <1>3, <1>4, <1>5
    <2> QED
        BY <1>1, <1>2, <2>1 DEF RequestRecords
<1> HIDE DEF p
<1>8. Gathered(q) = Api!Range(q.kept)
    BY <1>1 DEF Gathered, Api!Range
<1>9. \A r : Shown(q, r) \/ r \in Gathered(q) => Shown(p, r)
    BY <1>6, <1>7, <1>8 DEF Shown
<1>10. \A r : Ahead(rule, p, r) = Ahead(rule, q, r)
    BY <1>7 DEF Ahead
<1>11. WalkGood(rule, p)
    <2>1. \A r \in q.owed : r \in Listed(rule, q.filter) /\ Fits(rule, r, q.strict)
        BY <1>1 DEF WalkGood
    <2>2. \A r \in q.owed :
              \/ Twin(rule, r) \/ Shown(p, r)
              \/ ~(Len(q.list) < Limit) /\ Ahead(rule, p, r) >= q.offset + Limit
        BY <1>1, <1>9, <1>10 DEF WalkGood
    <2> QED
        BY <1>4, <1>7, <2>1, <2>2 DEF WalkGood
<1>12. AnalysisGood(rule, p)
    BY <1>4, <1>7 DEF AnalysisGood
<1> QED
    BY <1>2, <1>7, <1>11, <1>12, RequestMoves DEF p

\* Two lists, one after the other.
LEMMA JoinFacts ==
    ASSUME NEW s \in Seq(Rules), NEW t \in Seq(Rules)
    PROVE  s \o t \in Seq(Rules) /\ Api!Range(s) \cup Api!Range(t) \subseteq Api!Range(s \o t)
<1>1. /\ Len(s) \in Nat /\ Len(t) \in Nat /\ DOMAIN s = 1..Len(s) /\ DOMAIN t = 1..Len(t)
      /\ s \o t \in Seq(Rules) /\ DOMAIN (s \o t) = 1..(Len(s) + Len(t))
      /\ \A k \in 1..Len(s) : (s \o t)[k] = s[k] /\ k \in 1..(Len(s) + Len(t))
      /\ \A k \in 1..Len(t) : (s \o t)[Len(s) + k] = t[k] /\ Len(s) + k \in 1..(Len(s) + Len(t))
    OBVIOUS
<1> DEFINE u == s \o t
<1>2. /\ DOMAIN u = 1..(Len(s) + Len(t))
      /\ \A k \in 1..Len(s) : u[k] = s[k] /\ k \in 1..(Len(s) + Len(t))
      /\ \A k \in 1..Len(t) : u[Len(s) + k] = t[k] /\ Len(s) + k \in 1..(Len(s) + Len(t))
    BY <1>1
<1> HIDE DEF u
<1>3. Api!Range(s) \subseteq Api!Range(u)
    BY <1>1, <1>2 DEF Api!Range
<1>4. Api!Range(t) \subseteq Api!Range(u)
    BY <1>1, <1>2 DEF Api!Range
<1> QED
    BY <1>1, <1>3, <1>4 DEF u

LEMMA StepStartAnalysis ==
    ASSUME Api!ApiAssumption, ApiInv, NEW strict \in BOOLEAN, Api!StartAnalysis(strict)
    PROVE  ApiInv'
<1> DEFINE owed == {r \in UNION {Api!There(s) : s \in Api!Range(Api!Queried)} : Api!Meets(r, strict)}
           p == request'
<1>1. /\ rule' = rule /\ changes' = changes
      /\ p = [Api!Idle EXCEPT !.pc = "status", !.strict = strict, !.owed = owed]
    BY DEF Api!StartAnalysis
<1>2. None \notin Api!Range(Api!Queried)
    BY Bounds, StatusFacts
<1>3. /\ owed \in SUBSET Rules
      /\ \A r \in owed : Fits(rule, r, strict) /\ rule[r].status \in Api!Range(Api!Queried)
    BY <1>2, TableFacts DEF Listed
<1> HIDE DEF owed
<1>4. /\ p \in RequestRecords /\ p.pc = "status" /\ p.strict = strict /\ p.phase = 1
      /\ p.owed = owed
    BY <1>1, <1>3, IdleRecord DEF RequestRecords
<1> HIDE DEF p
<1>5. \A r \in owed : ToRead(rule, p, r)
    BY <1>3, <1>4, StatusFacts DEF ToRead
<1>6. WalkGood(rule, p) /\ AnalysisGood(rule, p)
    BY <1>3, <1>4, <1>5 DEF WalkGood, AnalysisGood
<1> QED
    BY <1>1, <1>4, <1>6, RequestMoves DEF p

\* What was still to be read is read, or in a status that comes later.
LEMMA StepReadStatus ==
    ASSUME Api!ApiAssumption, ApiInv, Api!ReadStatus
    PROVE  ApiInv'
<1> DEFINE q == request
           p == request'
<1>1. q \in RequestRecords /\ q.pc = "status" /\ AnalysisGood(rule, q)
    BY DEF ApiInv, Api!ReadStatus
<1>2. q.phase \in 1..3 /\ q.phase + 1 \in 1..4 /\ q.list \in Seq(Rules) /\ q.owed \subseteq Rules
    <2>1. q.phase \in 1..4 /\ q.phase <= 3
        BY <1>1, StatusFacts DEF Api!ReadStatus, RequestRecords
    <2> QED
        BY <1>1, <2>1 DEF RequestRecords
<1> DEFINE f == Api!Queried[q.phase]
<1>3. PICK order \in Api!Newest(Api!There(f)) :
          p = [q EXCEPT !.list = q.list \o order, !.phase = q.phase + 1]
    BY <1>1 DEF Api!ReadStatus, RequestRecords
<1>4. f \in Api!Range(Api!Statuses) /\ Api!Rank(f) = q.phase /\ f # None
    BY <1>2, StatusFacts, Bounds
<1>5. order \in Seq(Rules) /\ Api!Range(order) = Listed(rule, f)
    BY <1>4, OrderFacts
<1>6. q.list \o order \in Seq(Rules) /\ Api!Range(q.list) \cup Api!Range(order) \subseteq Api!Range(q.list \o order)
    BY <1>2, <1>5, JoinFacts
<1> DEFINE list == q.list \o order
<1>7. list \in Seq(Rules) /\ Api!Range(q.list) \subseteq Api!Range(list) /\ Listed(rule, f) \subseteq Api!Range(list)
    BY <1>5, <1>6
<1>8. p = [q EXCEPT !.list = list, !.phase = q.phase + 1]
    BY <1>3
<1> HIDE DEF list
<1>9. /\ p \in RequestRecords /\ p.pc = "status" /\ p.strict = q.strict /\ p.list = list
      /\ p.phase = q.phase + 1 /\ p.owed = q.owed
    BY <1>1, <1>2, <1>7, <1>8 DEF RequestRecords
<1>10. rule' = rule /\ changes' = changes
    BY DEF Api!ReadStatus
<1> HIDE DEF p
<1>11. ASSUME NEW r \in q.owed PROVE r \in Api!Range(list) \/ ToRead(rule, p, r)
    <2>1. r \in Api!Range(q.list) \/ ToRead(rule, q, r)
        BY <1>1, <1>11 DEF AnalysisGood
    <2>2. CASE ToRead(rule, q, r) /\ rule[r].status = f
        <3>1. r \in Listed(rule, f)
            BY <1>2, <1>4, <2>2 DEF Listed
        <3> QED
            BY <1>7, <3>1
    <2>3. CASE ToRead(rule, q, r) /\ rule[r].status # f
        <3>1. rule[r].status \in {"candidate", "shadow", "active"}
            BY <2>3, StatusFacts DEF ToRead
        <3>2. PICK k \in 1..3 : rule[r].status = Api!Queried[k]
            <4>1. /\ 1 \in 1..3 /\ 2 \in 1..3 /\ 3 \in 1..3
                  /\ Api!Queried[1] = "candidate" /\ Api!Queried[2] = "shadow" /\ Api!Queried[3] = "active"
                BY DEF Api!Queried
            <4> QED
                BY <3>1, <4>1
        <3>3. Api!Rank(rule[r].status) = k /\ k # q.phase
            BY <2>3, <3>2, StatusFacts
        <3>4. Api!Rank(rule[r].status) >= q.phase + 1
            BY <1>2, <2>3, <3>2, <3>3 DEF ToRead
        <3> QED
            BY <1>9, <2>3, <3>4 DEF ToRead
    <2> QED
        BY <1>7, <2>1, <2>2, <2>3
<1>12. WalkGood(rule, p)
    BY <1>9 DEF WalkGood
<1>13. AnalysisGood(rule, p)
    BY <1>1, <1>9, <1>11 DEF AnalysisGood
<1> QED
    BY <1>9, <1>10, <1>12, <1>13, RequestMoves DEF p

\* All statuses are read: what is owed is listed, and described unless the list is cut.
LEMMA StepBeginSummaries ==
    ASSUME Api!ApiAssumption, ApiInv, Api!BeginSummaries
    PROVE  ApiInv'
<1> DEFINE q == request
           p == request'
           todo == Api!UpTo(SummaryLimit, q.list)
<1>1. /\ q \in RequestRecords /\ q.pc = "status" /\ AnalysisGood(rule, q) /\ q.phase > 3
      /\ rule' = rule /\ changes' = changes
      /\ p = [q EXCEPT !.pc = "summaries", !.todo = todo]
    BY StatusFacts DEF ApiInv, Api!BeginSummaries
<1>2. q.list \in Seq(Rules) /\ q.phase \in Nat /\ SummaryLimit \in Nat
    BY <1>1, Bounds DEF RequestRecords
<1>3. /\ todo \in Seq(Rules) /\ Len(todo) = IF SummaryLimit < Len(q.list) THEN SummaryLimit ELSE Len(q.list)
      /\ \A k \in 1..Len(todo) : todo[k] = q.list[k]
    BY <1>2, SliceFacts
<1> HIDE DEF todo
<1>4. ASSUME Len(q.list) <= SummaryLimit PROVE Api!Range(q.list) = Api!Range(todo)
    <2>1. Len(todo) = Len(q.list)
        BY <1>2, <1>3, <1>4
    <2>2. DOMAIN todo = 1..Len(q.list) /\ DOMAIN q.list = 1..Len(q.list)
        BY <1>2, <1>3, <2>1
    <2>3. \A k \in 1..Len(q.list) : todo[k] = q.list[k]
        BY <1>3, <2>1
    <2> QED
        BY <2>2, <2>3 DEF Api!Range
<1>5. /\ p \in RequestRecords /\ p.pc = "summaries" /\ p.strict = q.strict /\ p.list = q.list
      /\ p.todo = todo /\ p.owed = q.owed
    BY <1>1, <1>3 DEF RequestRecords
<1> HIDE DEF p
<1>6. \A r \in q.owed : r \in Api!Range(q.list)
    <2>1. \A r : ~ToRead(rule, q, r)
        <3>1. \A s \in Api!Range(Api!Queried) : Api!Rank(s) \in 1..3
            BY StatusFacts
        <3> QED
            BY <1>1, <1>2, <3>1 DEF ToRead
    <2> QED
        BY <1>1, <2>1 DEF AnalysisGood
<1>7. WalkGood(rule, p)
    BY <1>5 DEF WalkGood
<1>8. AnalysisGood(rule, p)
    BY <1>1, <1>4, <1>5, <1>6 DEF AnalysisGood, Gathered
<1> QED
    BY <1>1, <1>5, <1>7, <1>8, RequestMoves DEF p

\* The answer of an analysis is what was kept.
LEMMA StepAnswer ==
    ASSUME Api!ApiAssumption, ApiInv, Api!Answer
    PROVE  ApiInv'
<1> DEFINE q == request
           p == request'
<1>1. /\ q \in RequestRecords /\ q.pc = "summaries" /\ q.todo = <<>> /\ AnalysisGood(rule, q)
      /\ rule' = rule /\ changes' = changes
    BY DEF ApiInv, Api!Answer
<1>2. PICK out \in {{}, Api!Exported} :
          p = [q EXCEPT !.pc = "answered", !.seen = Api!Range(q.kept), !.exported = out]
    BY DEF Api!Answer
<1>3. out \in SUBSET Rules
    BY DEF Api!Exported, Api!There
<1>4. q.kept \in Seq(Rules) /\ Api!Range(q.kept) \in SUBSET Rules
    BY <1>1 DEF RequestRecords, Api!Range
<1>5. /\ p \in RequestRecords /\ p.pc = "answered" /\ p.list = q.list
      /\ p.seen = Api!Range(q.kept) /\ p.owed = q.owed
    BY <1>1, <1>2, <1>3, <1>4 DEF RequestRecords
<1> HIDE DEF p
<1>6. Gathered(q) = Api!Range(q.kept)
    BY <1>1 DEF Gathered, Api!Range
<1>7. WalkGood(rule, p) /\ AnalysisGood(rule, p)
    BY <1>1, <1>5, <1>6 DEF WalkGood, AnalysisGood
<1> QED
    BY <1>1, <1>5, <1>7, RequestMoves DEF p

\* An export by itself owes nothing.
LEMMA StepExport ==
    ASSUME Api!ApiAssumption, ApiInv,
           \/ Api!ExportActive
           \/ \E f \in {None} \cup Api!Range(Api!Statuses), executable \in BOOLEAN : Api!ExportFile(f, executable)
    PROVE  ApiInv'
<1> DEFINE p == request'
<1>1. PICK f \in {None} \cup Api!Range(Api!Statuses), out \in SUBSET Rules :
          /\ rule' = rule /\ changes' = changes
          /\ p = [Api!Idle EXCEPT !.pc = "exported", !.filter = f, !.exported = out]
    <2>1. CASE Api!ExportActive
        <3>1. Api!Exported \in SUBSET Rules
            BY DEF Api!Exported, Api!There
        <3>2. p = [Api!Idle EXCEPT !.pc = "exported", !.filter = None, !.exported = Api!Exported]
            BY <2>1, IdleRecord DEF Api!ExportActive, RequestRecords
        <3> QED
            BY <2>1, <3>1, <3>2 DEF Api!ExportActive
    <2>2. CASE \E f \in {None} \cup Api!Range(Api!Statuses), executable \in BOOLEAN : Api!ExportFile(f, executable)
        <3>1. PICK f \in {None} \cup Api!Range(Api!Statuses), executable \in BOOLEAN : Api!ExportFile(f, executable)
            BY <2>2
        <3>2. PICK order \in Api!Newest(Api!There(None)) :
                LET listed == Api!Range(Api!UpTo(ExportLimit, order)) \cap Api!There(f) IN
                p = [Api!Idle EXCEPT !.pc = "exported", !.filter = f,
                         !.exported = IF executable THEN Api!Executable(listed) ELSE listed]
            BY <3>1 DEF Api!ExportFile
        <3> DEFINE listed == Api!Range(Api!UpTo(ExportLimit, order)) \cap Api!There(f)
        <3>3. listed \in SUBSET Rules /\ Api!Executable(listed) \in SUBSET Rules
            BY DEF Api!There, Api!Executable
        <3> DEFINE out == IF executable THEN Api!Executable(listed) ELSE listed
        <3>4. p = [Api!Idle EXCEPT !.pc = "exported", !.filter = f, !.exported = out]
            BY <3>2
        <3>5. out \in SUBSET Rules
            BY <3>3
        <3>6. rule' = rule /\ changes' = changes
            BY <3>1 DEF Api!ExportFile
        <3> HIDE DEF out, listed, p
        <3> QED
            BY <3>4, <3>5, <3>6
    <2> QED
        BY <2>1, <2>2
<1>2. p \in RequestRecords /\ p.pc = "exported"
    BY <1>1, IdleRecord DEF RequestRecords
<1> HIDE DEF p
<1>3. WalkGood(rule, p) /\ AnalysisGood(rule, p)
    BY <1>2 DEF WalkGood, AnalysisGood
<1> QED
    BY <1>1, <1>2, <1>3, RequestMoves DEF p

LEMMA ApiStarts ==
    ASSUME Api!ApiAssumption, rule \in [Rules -> Api!RuleRows], changes = 0, request = Api!Idle
    PROVE  ApiInv
<1>1. changes \in 0..MaxChanges
    BY Bounds
<1>2. WalkGood(rule, request) /\ AnalysisGood(rule, request)
    BY IdleRecord DEF WalkGood, AnalysisGood
<1> QED
    BY <1>1, <1>2, IdleRecord DEF ApiInv

LEMMA ApiStep ==
    ASSUME Api!ApiAssumption, ApiInv, Api!ApiNext
    PROVE  ApiInv'
<1>1. CASE Api!Background
    BY <1>1, StepCreate, StepEvaluate, StepMove DEF Api!Background
<1>2. CASE \E f \in {None, "shadow"}, strict, unique \in BOOLEAN :
               Api!StartWalk(f, strict, unique) \/ Api!StartAnalysis(strict)
    BY <1>2, StepStartWalk, StepStartAnalysis
<1>3. CASE Api!ListPage \/ Api!DescribeRule \/ Api!AnswerPage
    BY <1>3, StepListPage, StepDescribe, StepAnswerPage DEF Api!DescribeRule
<1>4. CASE Api!ReadStatus \/ Api!BeginSummaries \/ Api!SummarizeRule \/ Api!Answer
    BY <1>4, StepReadStatus, StepBeginSummaries, StepDescribe, StepAnswer DEF Api!SummarizeRule
<1>5. CASE \/ Api!ExportActive
           \/ \E f \in {None} \cup Api!Range(Api!Statuses), executable \in BOOLEAN : Api!ExportFile(f, executable)
    BY <1>5, StepExport
<1> QED
    BY <1>1, <1>2, <1>3, <1>4, <1>5 DEF Api!ApiNext

LEMMA ApiStutter ==
    ASSUME ApiInv, UNCHANGED <<rule, changes, request>>
    PROVE  ApiInv'
<1>1. rule' = rule /\ changes' = changes /\ request' = request
    OBVIOUS
<1>2. request' \in RequestRecords /\ WalkGood(rule, request') /\ AnalysisGood(rule, request')
    BY <1>1 DEF ApiInv
<1> QED
    BY <1>1, <1>2, RequestMoves

LEMMA ApiInvMissesNothing ==
    ASSUME ApiInv
    PROVE  Api!ReadsMissNothing
<1>1. WalkGood(rule, request) /\ AnalysisGood(rule, request)
    BY DEF ApiInv
<1>2. Api!PagesMissNothing
    BY <1>1, TableFacts DEF Api!PagesMissNothing, WalkGood, Shown
<1>3. Api!AnalysisExplains
    BY <1>1 DEF Api!AnalysisExplains, AnalysisGood
<1> QED
    BY <1>2, <1>3 DEF Api!ReadsMissNothing

-----------------------------------------------------------------------------
(* Reads: the parts, one of which moves *)

ReadsInv == CacheInv /\ ResultInv /\ ApiInv

LEMMA ReadsStart == ReadsInit => ReadsInv
<1> SUFFICES ASSUME ReadsInit PROVE ReadsInv
    OBVIOUS
<1>1. CacheInv
    BY CacheInit DEF ReadsInit
<1>2. ResultInv
    BY ReadsAssumption, ResultStarts DEF ReadsInit
<1>3. rule \in [Rules -> Api!RuleRows] /\ changes = 0 /\ request = Api!Idle
    <2>1. CASE part = "api"
        BY <2>1 DEF ReadsInit, Api!ApiInit
    <2>2. CASE part # "api"
        <3>1. 0 \in 0..MaxStamp /\ TRUE \in BOOLEAN
            BY ReadsAssumption DEF Api!ApiAssumption
        <3>2. rule = [r \in Rules |-> [status |-> "none", stamp |-> 0, precise |-> TRUE]]
              /\ changes = 0 /\ request = Api!Idle
            BY <2>2 DEF ReadsInit, NoRules
        <3> QED
            BY <3>1, <3>2 DEF Api!RuleRows
    <2> QED
        BY <2>1, <2>2
<1>4. ApiInv
    BY <1>3, ReadsAssumption, ApiStarts
<1> QED
    BY <1>1, <1>2, <1>4 DEF ReadsInv

\* A part that does not move keeps its invariant.
LEMMA ReadsStep == ReadsInv /\ [ReadsNext]_allVars => ReadsInv'
<1> SUFFICES ASSUME ReadsInv, [ReadsNext]_allVars PROVE ReadsInv'
    OBVIOUS
<1>1. CacheInv /\ ResultInv /\ ApiInv
    BY DEF ReadsInv
<1>2. /\ [Next]_vars
      /\ Results!ResultNext \/ UNCHANGED resultVars
      /\ Api!ApiNext \/ UNCHANGED apiVars
    BY DEF ReadsNext, allVars
<1>3. CacheInv'
    BY <1>1, <1>2, CacheNext
<1>4. ResultInv'
    <2>1. CASE Results!ResultNext
        BY <1>1, <2>1, ReadsAssumption, ResultStep
    <2>2. CASE UNCHANGED resultVars
        BY <1>1, <2>2, ResultStutter DEF resultVars
    <2> QED
        BY <1>2, <2>1, <2>2
<1>5. ApiInv'
    <2>1. CASE Api!ApiNext
        BY <1>1, <2>1, ReadsAssumption, ApiStep
    <2>2. CASE UNCHANGED apiVars
        BY <1>1, <2>2, ApiStutter DEF apiVars
    <2> QED
        BY <1>2, <2>1, <2>2
<1> QED
    BY <1>3, <1>4, <1>5 DEF ReadsInv

LEMMA ReadsInvAlways == ReadsSpec => []ReadsInv
BY ReadsStart, ReadsStep, PTL DEF ReadsSpec

\* Both caches, the rules and what their readers hold keep their types: no step of
\* generate_embeddings, LLMCache, list_rules or analyze_batch, and no other process
\* or client, leaves the values that the code can hold.
THEOREM ReadsTypeCorrect == ReadsSpec => []ReadsTypeOK
<1>1. ReadsInv => ReadsTypeOK
    <2> SUFFICES ASSUME ReadsInv PROVE ReadsTypeOK
        OBVIOUS
    <2>1. TypeOK /\ Results!ResultTypeOK /\ ApiInv
        BY DEF ReadsInv, CacheInv, ResultInv
    <2> QED
        BY <2>1, ApiInvTyped DEF ReadsTypeOK
<1> QED
    BY <1>1, ReadsInvAlways, PTL

\* A result is stored under, and served for, the model version under which its
\* computation began (cache_result, set_current_model_version).
THEOREM ResultsAreOfOwnVersion == ReadsSpec => []ResultOfOwnVersion
<1>1. ReadsInv => ResultOfOwnVersion
    BY DEF ReadsInv, ResultInv, EntryGood, ResultOfOwnVersion, Results!ResultOfOwnVersion
<1> QED
    BY <1>1, ReadsInvAlways, PTL

\* No result is served more than one TTL after it was stored, whichever tier it
\* is in and whenever Redis comes and goes (LLMCache.get and set).
THEOREM ResultsAreFresh == ReadsSpec => []ResultFresh
<1>1. ReadsInv => ResultFresh
    BY DEF ReadsInv, ResultInv, ResultFresh, Results!ResultFresh
<1> QED
    BY <1>1, ReadsInvAlways, PTL

\* Whatever is created, moved and evaluated meanwhile, a walk through GET /rules
\* shows every rule that stays where it looks and shares its created_at with no
\* other, and POST /analyze lists every rule that only moves forward (list_rules,
\* analyze_batch).
THEOREM ReadsShowWhatStays == ReadsSpec => []ReadsMissNothing
<1>1. ReadsInv => ReadsMissNothing
    BY ApiInvMissesNothing DEF ReadsInv, ReadsMissNothing
<1> QED
    BY <1>1, ReadsInvAlways, PTL
================================================================================
