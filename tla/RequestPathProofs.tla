--------------------------- MODULE RequestPathProofs ---------------------------
(***************************************************************************)
(* What the request path guarantees for any number of calls, processes and *)
(* clients and any limits: its types, the circuit breaker's count under    *)
(* overlapping calls, and the stored answer of an idempotency key.         *)
(***************************************************************************)
EXTENDS RequestPath, FiniteSums

-----------------------------------------------------------------------------
(* The constants and small helpers *)

LEMMA Limits ==
    /\ RateLimit \in Nat /\ RateLimit > 0 /\ Window \in Nat /\ Window > 0 /\ WafLimit \in Nat
    /\ IdempotencyTTL \in Nat /\ IdempotencyTTL > 0
    /\ FailureThreshold \in Nat /\ FailureThreshold > 0 /\ Timeout \in Nat /\ Timeout > 0
BY LimiterAssumption, RequestAssumption

LEMMA RequestFields ==
    /\ \A c \in Calls : ProcOf[c] \in Procs
    /\ \A r \in Requests : r.client \in Clients /\ r.text \in Texts /\ Key[r] \in Keys
    /\ \A a \in Answers : a # None
    /\ None \notin Entries
<1>1. Entries \subseteq [answer : Answers, age : Nat]
    BY Limits DEF Entries
<1> QED
    BY <1>1, RequestAssumption DEF Keys

LEMMA UpToBound ==
    ASSUME NEW n \in Nat, NEW limit \in Nat
    PROVE  /\ UpTo(n, limit) \in 0..limit
           /\ UpTo(n, limit) <= n
           /\ UpTo(n, limit) < limit <=> n < limit
           /\ n < limit => UpTo(n, limit) = n
BY DEF UpTo

-----------------------------------------------------------------------------
(* The limiter keeps its types *)

LEMMA RecordedKeeps ==
    ASSUME NEW w \in [Ages -> 0..RateLimit]
    PROVE  Recorded(w) \in [Ages -> 0..RateLimit]
<1>1. 0 \in Ages
    BY Limits DEF Ages
<1>2. w[0] + 1 \in Nat
    BY <1>1, Limits
<1>3. UpTo(w[0] + 1, RateLimit) \in 0..RateLimit
    BY <1>2, UpToBound, Limits
<1> QED
    BY <1>1, <1>3 DEF Recorded

LEMMA OlderKeeps ==
    ASSUME NEW S, 0 \in S, NEW w \in [Ages -> S]
    PROVE  Older(w) \in [Ages -> S]
<1>1. ASSUME NEW a \in Ages, a # 0 PROVE a - 1 \in Ages
    BY <1>1, Limits DEF Ages
<1> QED
    BY <1>1 DEF Older

LEMMA CheckRateLimitKeeps ==
    ASSUME LimiterTypeOK, NEW p \in Procs, NEW c \in Clients, NEW ok, CheckRateLimit(p, c, ok),
           bursts' \in [Procs -> [Clients -> 0..(WafLimit + 1)]]
    PROVE  LimiterTypeOK'
<1>1. Recorded(zset[c]) \in [Ages -> 0..RateLimit] /\ Recorded(mem[p][c]) \in [Ages -> 0..RateLimit]
    BY RecordedKeeps DEF LimiterTypeOK
<1>2. /\ zset' = zset \/ zset' = [zset EXCEPT ![c] = Recorded(zset[c])]
      /\ mem' = mem \/ mem' = [mem EXCEPT ![p] = [mem[p] EXCEPT ![c] = Recorded(mem[p][c])]]
      /\ fell' = fell \/ fell' = [fell EXCEPT ![p] = 0]
      /\ passed' = passed \/ passed' = [passed EXCEPT ![c] = [passed[c] EXCEPT ![0] = passed[c][0] + 1]]
    BY DEF CheckRateLimit, CheckRedis, CheckMemory, LimiterTypeOK
<1>3. zset' \in [Clients -> [Ages -> 0..RateLimit]]
    BY <1>1, <1>2 DEF LimiterTypeOK
<1>4. mem' \in [Procs -> [Clients -> [Ages -> 0..RateLimit]]]
    <2>1. [mem[p] EXCEPT ![c] = Recorded(mem[p][c])] \in [Clients -> [Ages -> 0..RateLimit]]
        BY <1>1 DEF LimiterTypeOK
    <2> QED
        BY <1>2, <2>1 DEF LimiterTypeOK
<1>5. fell' \in [Procs -> 0..Window]
    <2>1. 0 \in 0..Window
        BY Limits
    <2> QED
        BY <1>2, <2>1 DEF LimiterTypeOK
<1>6. passed' \in [Clients -> [Ages -> Nat]]
    <2>1. passed[c] \in [Ages -> Nat] /\ 0 \in Ages
        BY Limits DEF LimiterTypeOK, Ages
    <2>2. [passed[c] EXCEPT ![0] = passed[c][0] + 1] \in [Ages -> Nat]
        BY <2>1
    <2> QED
        BY <1>2, <2>2 DEF LimiterTypeOK
<1> QED
    BY <1>3, <1>4, <1>5, <1>6 DEF LimiterTypeOK

LEMMA CheckWafKeeps ==
    ASSUME LimiterTypeOK, NEW p \in Procs, NEW c \in Clients, NEW suspicious, NEW ok,
           CheckWaf(p, c, suspicious, ok)
    PROVE  bursts' \in [Procs -> [Clients -> 0..(WafLimit + 1)]]
<1> DEFINE n == UpTo(bursts[p][c] + 1, WafLimit + 1)
<1>1. bursts' = bursts \/ bursts' = [bursts EXCEPT ![p] = [bursts[p] EXCEPT ![c] = n]]
    BY DEF CheckWaf, LimiterTypeOK
<1>2. bursts[p][c] + 1 \in Nat /\ WafLimit + 1 \in Nat
    BY Limits DEF LimiterTypeOK
<1>3. n \in 0..(WafLimit + 1)
    BY <1>2, UpToBound
<1> HIDE DEF n
<1>4. [bursts[p] EXCEPT ![c] = n] \in [Clients -> 0..(WafLimit + 1)]
    BY <1>3 DEF LimiterTypeOK
<1> QED
    BY <1>1, <1>4 DEF LimiterTypeOK

LEMMA LimiterTickKeeps ==
    ASSUME LimiterTypeOK, LimiterTick
    PROVE  LimiterTypeOK'
<1>0. /\ \A w \in [Ages -> 0..RateLimit] : Older(w) \in [Ages -> 0..RateLimit]
      /\ \A w \in [Ages -> Nat] : Older(w) \in [Ages -> Nat]
    <2>1. 0 \in 0..RateLimit /\ 0 \in Nat
        BY Limits
    <2> QED
        BY <2>1, OlderKeeps
<1>1. zset' \in [Clients -> [Ages -> 0..RateLimit]] /\ passed' \in [Clients -> [Ages -> Nat]]
    BY <1>0 DEF LimiterTypeOK, LimiterTick
<1>2. mem' \in [Procs -> [Clients -> [Ages -> 0..RateLimit]]]
    <2>1. \A p \in Procs, c \in Clients : Older(mem[p][c]) \in [Ages -> 0..RateLimit]
        BY <1>0 DEF LimiterTypeOK
    <2> QED
        BY <2>1 DEF LimiterTick
<1>3. fell' \in [Procs -> 0..Window]
    <2>1. \A p \in Procs : fell[p] + 1 \in Nat
        BY Limits DEF LimiterTypeOK
    <2>2. \A p \in Procs : UpTo(fell[p] + 1, Window) \in 0..Window
        BY <2>1, UpToBound, Limits
    <2> QED
        BY <2>2 DEF LimiterTick
<1>4. bursts' \in [Procs -> [Clients -> 0..(WafLimit + 1)]]
    BY DEF LimiterTick
<1> QED
    BY <1>1, <1>2, <1>3, <1>4 DEF LimiterTypeOK

-----------------------------------------------------------------------------
(* What the limiter admits *)

LEMMA AgesFacts ==
    /\ IsFiniteSet(Ages) /\ 0 \in Ages /\ IsFiniteSet(Procs)
    /\ \A a \in Ages : a \in Nat /\ a < Window /\ (a # 0 => a - 1 \in Ages)
BY Limits, FS_Interval, LimiterAssumption DEF Ages

LEMMA TotalIsSum == \A w : Total(w) = SumOf(w)
BY DEF Total, SumOf

\* A window that ages loses entries and gains none.
LEMMA OlderTotal ==
    ASSUME NEW w \in [Ages -> Nat]
    PROVE  SumOf(Older(w)) <= SumOf(w)
<1>1. Older(w) \in [Ages -> Nat]
    BY OlderKeeps
<1>2. PICK gw : Sums(gw, w, Ages) /\ gw[Ages] = SumOf(w)
    BY SumIs, AgesFacts
<1>3. PICK go : Sums(go, Older(w), Ages) /\ go[Ages] = SumOf(Older(w))
    BY <1>1, SumIs, AgesFacts
<1> DEFINE K == {n \in Nat : n < Window => go[0..n] = gw[0..(n - 1)]}
<1>4. 0 \in K
    <2>1. 0..0 = {0} /\ 0..(0 - 1) = {} /\ {0} \in SUBSET Ages /\ {0} \ {0} = {}
        BY AgesFacts
    <2>2. go[{0}] = Older(w)[0] + go[{}] /\ go[{}] = 0 /\ gw[{}] = 0
        BY <1>2, <1>3, <2>1 DEF Sums
    <2>3. Older(w)[0] = 0
        BY AgesFacts DEF Older
    <2> QED
        BY <2>1, <2>2, <2>3
<1>5. ASSUME NEW n \in Nat, n \in K, n + 1 < Window
      PROVE  go[0..(n + 1)] = gw[0..n]
    <2>1. /\ n + 1 \in Ages /\ n \in Ages /\ n + 1 # 0
          /\ 0..(n + 1) \in SUBSET Ages /\ 0..n \in SUBSET Ages
          /\ n + 1 \in 0..(n + 1) /\ n \in 0..n
          /\ (0..(n + 1)) \ {n + 1} = 0..n /\ (0..n) \ {n} = 0..(n - 1)
        BY <1>5, Limits DEF Ages
    <2>2. go[0..(n + 1)] = Older(w)[n + 1] + go[0..n]
        <3>1. \A T \in SUBSET Ages : \A x \in T : go[T] = Older(w)[x] + go[T \ {x}]
            BY <1>3 DEF Sums
        <3>2. go[0..(n + 1)] = Older(w)[n + 1] + go[(0..(n + 1)) \ {n + 1}]
            BY <2>1, <3>1, Zenon
        <3> QED
            BY <2>1, <3>2, Zenon
    <2>3. gw[0..n] = w[n] + gw[0..(n - 1)]
        <3>1. \A T \in SUBSET Ages : \A x \in T : gw[T] = w[x] + gw[T \ {x}]
            BY <1>2 DEF Sums
        <3>2. gw[0..n] = w[n] + gw[(0..n) \ {n}]
            BY <2>1, <3>1, Zenon
        <3> QED
            BY <2>1, <3>2, Zenon
    <2>4. Older(w)[n + 1] = w[n]
        <3>1. (n + 1) - 1 = n
            OBVIOUS
        <3> QED
            BY <2>1, <3>1 DEF Older
    <2>5. go[0..n] = gw[0..(n - 1)]
        BY <1>5, Limits
    <2> QED
        BY <2>2, <2>3, <2>4, <2>5
<1>6. \A n \in Nat : n \in K => n + 1 \in K
    <2> SUFFICES ASSUME NEW n \in Nat, n \in K, n + 1 < Window PROVE go[0..(n + 1)] = gw[0..((n + 1) - 1)]
        OBVIOUS
    <2>1. (n + 1) - 1 = n
        OBVIOUS
    <2> QED
        BY <1>5, <2>1
<1> HIDE DEF K
<1>7. \A n \in Nat : n \in K
    BY <1>4, <1>6, NumberInduction
<1>8. Window - 1 \in Nat /\ Window - 1 < Window /\ Window - 1 \in Ages /\ Ages \in SUBSET Ages
      /\ Ages \ {Window - 1} = 0..((Window - 1) - 1)
    BY Limits DEF Ages
<1>9. go[Ages] = gw[Ages \ {Window - 1}]
    BY <1>7, <1>8 DEF K, Ages
<1>10. gw[Ages] = w[Window - 1] + gw[Ages \ {Window - 1}] /\ gw[Ages \ {Window - 1}] \in Nat
    BY <1>2, <1>8 DEF Sums
<1>11. w[Window - 1] \in Nat
    BY <1>8
<1> QED
    BY <1>2, <1>3, <1>9, <1>10, <1>11

\* The requests of a client that the processes of P have in their own memory.
LocalAt(m, c, P, a) == SumOf([p \in Procs |-> IF p \in P THEN m[p][c][a] ELSE 0])

\* d is a part of what Redis holds for c that, with the memories, covers what was
\* admitted; Redis holds refused requests too, so not all of it is.
Share(c, d, z, m, ps) ==
    /\ d \in [Ages -> Nat]
    /\ SumOf(d) <= RateLimit
    /\ UseRedis \/ SumOf(d) = 0
    /\ \A a \in Ages : d[a] <= z[c][a] /\ ps[c][a] <= d[a] + LocalAt(m, c, Procs, a)

\* A memory holds no more than the limit, and nothing from before its last use.
MemoryGood(m, f) ==
    \A p \in Procs, c \in Clients :
        SumOf(m[p][c]) <= RateLimit /\ \A a \in Ages : m[p][c][a] # 0 => f[p] <= a

LimiterInv ==
    /\ LimiterTypeOK
    /\ MemoryGood(mem, fell)
    /\ \A c \in Clients : \E d : Share(c, d, zset, mem, passed)

LEMMA LocalType ==
    ASSUME NEW m \in [Procs -> [Clients -> [Ages -> 0..RateLimit]]], NEW c \in Clients,
           NEW P, NEW a \in Ages
    PROVE  /\ LocalAt(m, c, P, a) \in Nat
           /\ [p \in Procs |-> IF p \in P THEN m[p][c][a] ELSE 0] \in [Procs -> Nat]
<1>1. [p \in Procs |-> IF p \in P THEN m[p][c][a] ELSE 0] \in [Procs -> Nat]
    BY Limits
<1> QED
    BY <1>1, SumType, AgesFacts DEF LocalAt

\* The memories of the processes of P together.
LEMMA MemoriesBounded ==
    ASSUME LimiterTypeOK, MemoryGood(mem, fell), NEW c \in Clients
    PROVE  \A P \in SUBSET Procs :
               SumOf([a \in Ages |-> LocalAt(mem, c, P, a)]) <= RateLimit * Cardinality(P \cap FellBack)
<1> DEFINE At1(P) == [a \in Ages |-> LocalAt(mem, c, P, a)]
           G == {P \in SUBSET Procs : SumOf(At1(P)) <= RateLimit * Cardinality(P \cap FellBack)}
<1>0. mem \in [Procs -> [Clients -> [Ages -> 0..RateLimit]]]
    BY DEF LimiterTypeOK
<1>1. ASSUME NEW P PROVE At1(P) \in [Ages -> Nat]
    BY <1>0, LocalType
<1>2. {} \in G
    <2>1. \A a \in Ages : LocalAt(mem, c, {}, a) = 0
        <3> SUFFICES ASSUME NEW a \in Ages PROVE LocalAt(mem, c, {}, a) = 0
            OBVIOUS
        <3>1. [p \in Procs |-> 0] \in [Procs -> Nat] /\ \A p \in Procs : [q \in Procs |-> 0][p] = 0
            OBVIOUS
        <3>2. SumOf([p \in Procs |-> 0]) = 0
            BY <3>1, SumOfZeros, AgesFacts
        <3>3. [p \in Procs |-> IF p \in {} THEN mem[p][c][a] ELSE 0] = [p \in Procs |-> 0]
            OBVIOUS
        <3> QED
            BY <3>2, <3>3 DEF LocalAt
    <2>2. SumOf(At1({})) = 0
        BY <1>1, <2>1, SumOfZeros, AgesFacts
    <2>3. {} \cap FellBack = {} /\ Cardinality({}) = 0
        BY FS_EmptySet
    <2>4. RateLimit * 0 = 0
        BY Limits
    <2> QED
        BY <2>2, <2>3, <2>4
<1>3. ASSUME NEW P \in SUBSET Procs, P # {}, \A x \in P : P \ {x} \in G
      PROVE  SumOf(At1(P)) <= RateLimit * Cardinality(P \cap FellBack)
    <2>1. PICK x \in P : TRUE
        BY <1>3
    <2> DEFINE rest == P \ {x}
    <2>2. SumOf(At1(rest)) <= RateLimit * Cardinality(rest \cap FellBack) /\ x \in Procs
        BY <1>3
    <2>3. mem[x][c] \in [Ages -> Nat] /\ SumOf(mem[x][c]) <= RateLimit
        BY <1>0, <2>2, Limits DEF MemoryGood
    <2>4. \A a \in Ages : LocalAt(mem, c, P, a) = LocalAt(mem, c, rest, a) + mem[x][c][a]
        <3> SUFFICES ASSUME NEW a \in Ages
                     PROVE  LocalAt(mem, c, P, a) = LocalAt(mem, c, rest, a) + mem[x][c][a]
            OBVIOUS
        <3> DEFINE f == [p \in Procs |-> IF p \in rest THEN mem[p][c][a] ELSE 0]
                   h == [p \in Procs |-> IF p \in P THEN mem[p][c][a] ELSE 0]
        <3>1. f \in [Procs -> Nat] /\ h \in [Procs -> Nat]
            BY <1>0, LocalType
        <3>2. mem[x][c][a] \in Nat /\ h[x] = mem[x][c][a] /\ f[x] = 0
            BY <2>2, <2>3
        <3>3. \A y \in Procs \ {x} : h[y] = f[y]
            OBVIOUS
        <3>4. LocalAt(mem, c, P, a) = SumOf(h) /\ LocalAt(mem, c, rest, a) = SumOf(f)
            BY DEF LocalAt
        <3> HIDE DEF f, h, rest
        <3>5. h[x] = f[x] + mem[x][c][a]
            BY <3>2
        <3>6. SumOf(h) = SumOf(f) + mem[x][c][a]
            BY <2>2, <3>1, <3>2, <3>3, <3>5, SumAdds, AgesFacts
        <3> QED
            BY <3>4, <3>6
    <2>5. SumOf(At1(P)) = SumOf(At1(rest)) + SumOf(mem[x][c])
        <3>1. \A a \in Ages : At1(P)[a] = At1(rest)[a] + mem[x][c][a]
            BY <2>4
        <3>2. At1(P) \in [Ages -> Nat] /\ At1(rest) \in [Ages -> Nat]
            BY <1>1
        <3> HIDE DEF At1, rest
        <3> QED
            BY <2>3, <3>1, <3>2, SumPlus, AgesFacts
    <2>6. /\ IsFiniteSet(rest \cap FellBack)
          /\ Cardinality(rest \cap FellBack) \in Nat
        <3>1. rest \cap FellBack \subseteq Procs
            OBVIOUS
        <3> QED
            BY <3>1, AgesFacts, FS_Subset, FS_CardinalityType
    <2>7. SumOf(At1(rest)) \in Nat /\ SumOf(mem[x][c]) \in Nat
        BY <1>1, <2>3, SumType, AgesFacts
    <2> DEFINE n == Cardinality(rest \cap FellBack)
    <2>8. CASE x \in FellBack
        <3>1. P \cap FellBack = (rest \cap FellBack) \cup {x} /\ x \notin rest \cap FellBack
            BY <2>8
        <3>2. Cardinality(P \cap FellBack) = n + 1
            BY <2>6, <3>1, FS_AddElement
        <3>3. RateLimit * (n + 1) = RateLimit * n + RateLimit /\ RateLimit * n \in Nat
            BY <2>6, Limits
        <3> HIDE DEF n, At1, rest
        <3> QED
            BY <2>2, <2>3, <2>5, <2>7, <3>2, <3>3, Limits DEF n
    <2>9. CASE x \notin FellBack
        <3>1. P \cap FellBack = rest \cap FellBack
            BY <2>9
        <3>2. fell[x] = Window
            <4>1. fell[x] \in 0..Window
                BY <2>2 DEF LimiterTypeOK
            <4>2. ~(fell[x] < Window)
                BY <2>2, <2>9 DEF FellBack
            <4> QED
                BY <4>1, <4>2, Limits
        <3>3. \A a \in Ages : mem[x][c][a] = 0
            BY <2>2, <3>2, AgesFacts, Limits DEF MemoryGood
        <3>4. SumOf(mem[x][c]) = 0
            BY <2>3, <3>3, SumOfZeros, AgesFacts
        <3> HIDE DEF At1, rest
        <3>5. SumOf(At1(P)) = SumOf(At1(rest))
            BY <2>5, <2>7, <3>4
        <3> QED
            BY <2>2, <3>1, <3>5
    <2> QED
        BY <2>8, <2>9
<1>4. \A P \in SUBSET Procs : P # {} /\ (\A x \in P : P \ {x} \in G) => P \in G
    BY <1>3
<1> HIDE DEF G
<1>5. \A P \in SUBSET Procs : P \in G
    BY <1>2, <1>4, SetInduction, AgesFacts
<1> QED
    BY <1>5 DEF G

LEMMA InvBounds ==
    ASSUME LimiterInv
    PROVE  AdmittedBounded
<1> SUFFICES ASSUME NEW c \in Clients PROVE SumOf(passed[c]) <= RateLimit * Windows
    BY TotalIsSum DEF AdmittedBounded
<1>1. PICK d : Share(c, d, zset, mem, passed)
    BY DEF LimiterInv
<1> DEFINE local == [a \in Ages |-> LocalAt(mem, c, Procs, a)]
           both == [a \in Ages |-> d[a] + local[a]]
           n == Cardinality(FellBack)
<1>2. local \in [Ages -> Nat] /\ d \in [Ages -> Nat] /\ passed[c] \in [Ages -> Nat]
    BY <1>1, LocalType DEF LimiterInv, LimiterTypeOK, Share
<1>3. both \in [Ages -> Nat] /\ \A a \in Ages : both[a] = d[a] + local[a] /\ passed[c][a] <= both[a]
    BY <1>1, <1>2 DEF Share
<1>4. SumOf(local) <= RateLimit * n
    <2>1. Procs \cap FellBack = FellBack
        BY DEF FellBack
    <2> QED
        BY <2>1, MemoriesBounded DEF LimiterInv
<1>5. n \in Nat
    BY AgesFacts, FS_Subset, FS_CardinalityType DEF FellBack
<1> HIDE DEF local, both, n
<1>6. SumOf(passed[c]) <= SumOf(both) /\ SumOf(both) = SumOf(d) + SumOf(local)
    BY <1>2, <1>3, SumMonotone, SumPlus, AgesFacts
<1>7. SumOf(passed[c]) \in Nat /\ SumOf(both) \in Nat /\ SumOf(d) \in Nat /\ SumOf(local) \in Nat
    BY <1>2, <1>3, SumType, AgesFacts
<1>8. SumOf(d) <= RateLimit /\ (UseRedis \/ SumOf(d) = 0)
    BY <1>1 DEF Share
<1>9. RateLimit * (n + 1) = RateLimit * n + RateLimit /\ RateLimit * n \in Nat
    BY <1>5, Limits
<1>10. Windows = n + IF UseRedis THEN 1 ELSE 0
    BY DEF Windows, n
<1>11. CASE UseRedis
    <2>1. Windows = n + 1
        BY <1>10, <1>11
    <2> QED
        BY <1>4, <1>6, <1>7, <1>8, <1>9, <2>1, Limits
<1>12. CASE ~UseRedis
    <2>1. Windows = n /\ SumOf(d) = 0
        BY <1>5, <1>8, <1>10, <1>12
    <2> QED
        BY <1>4, <1>6, <1>7, <1>9, <2>1
<1> QED
    BY <1>11, <1>12

\* A check of the limit by p for c, admitted or refused.
LEMMA CheckKeeps ==
    ASSUME LimiterInv, NEW p \in Procs, NEW c \in Clients, NEW ok \in BOOLEAN,
           CheckRateLimit(p, c, ok), bursts' \in [Procs -> [Clients -> 0..(WafLimit + 1)]]
    PROVE  LimiterInv'
<1>1. LimiterTypeOK'
    BY CheckRateLimitKeeps DEF LimiterInv
<1> DEFINE bumped == [passed EXCEPT ![c] = [passed[c] EXCEPT ![0] = passed[c][0] + 1]]
<1>2. passed' = IF ok THEN bumped ELSE passed
    BY DEF CheckRateLimit, LimiterInv, LimiterTypeOK
<1>3. /\ zset[c] \in [Ages -> 0..RateLimit] /\ mem[p][c] \in [Ages -> 0..RateLimit]
      /\ zset[c] \in [Ages -> Nat] /\ mem[p][c] \in [Ages -> Nat] /\ passed[c] \in [Ages -> Nat]
    BY Limits DEF LimiterInv, LimiterTypeOK
<1>4. ASSUME NEW w \in [Ages -> 0..RateLimit]
      PROVE  /\ Recorded(w) \in [Ages -> Nat]
             /\ \A a \in Ages : w[a] <= Recorded(w)[a] /\ (a # 0 => Recorded(w)[a] = w[a])
             /\ SumOf(w) < RateLimit =>
                    Recorded(w)[0] = w[0] + 1 /\ SumOf(Recorded(w)) = SumOf(w) + 1
    <2>1. Recorded(w) \in [Ages -> Nat] /\ w \in [Ages -> Nat]
        BY RecordedKeeps, Limits
    <2>2. w[0] \in 0..RateLimit /\ Recorded(w)[0] = UpTo(w[0] + 1, RateLimit)
        BY AgesFacts DEF Recorded
    <2>3. \A a \in Ages : a # 0 => Recorded(w)[a] = w[a]
        BY DEF Recorded
    <2>4. w[0] <= Recorded(w)[0] /\ (w[0] < RateLimit => Recorded(w)[0] = w[0] + 1)
        BY <2>2, Limits DEF UpTo
    <2>5. \A a \in Ages : w[a] <= Recorded(w)[a]
        <3>1. \A a \in Ages : w[a] \in Nat
            BY <2>1
        <3> QED
            BY <2>3, <2>4, <3>1
    <2>6. ASSUME SumOf(w) < RateLimit
          PROVE  Recorded(w)[0] = w[0] + 1 /\ SumOf(Recorded(w)) = SumOf(w) + 1
        <3>1. w[0] <= SumOf(w) /\ SumOf(w) \in Nat
            BY <2>1, SumAbove, SumType, AgesFacts
        <3>2. Recorded(w)[0] = w[0] + 1
            BY <2>2, <2>4, <2>6, <3>1, Limits
        <3>3. \A a \in Ages \ {0} : Recorded(w)[a] = w[a]
            BY <2>3
        <3> QED
            BY <2>1, <3>2, <3>3, SumAdds, AgesFacts
    <2> QED
        BY <2>1, <2>3, <2>5, <2>6
<1>5. zset' = zset \/ zset' = [zset EXCEPT ![c] = Recorded(zset[c])]
    BY DEF CheckRateLimit, CheckRedis, CheckMemory
<1>6. \A e \in Clients, a \in Ages : zset[e][a] \in Nat /\ zset'[e][a] \in Nat /\ zset[e][a] <= zset'[e][a]
    <2>1. \A e \in Clients, a \in Ages : zset[e][a] \in Nat /\ zset'[e][a] \in Nat
        BY <1>1, Limits DEF LimiterInv, LimiterTypeOK
    <2>2. \A e \in Clients \ {c} : zset'[e] = zset[e]
        BY <1>5 DEF LimiterInv, LimiterTypeOK
    <2>3. zset'[c] = zset[c] \/ zset'[c] = Recorded(zset[c])
        BY <1>5 DEF LimiterInv, LimiterTypeOK
    <2>4. \A a \in Ages : zset[c][a] <= zset'[c][a]
        BY <1>3, <1>4, <2>1, <2>3
    <2> QED
        BY <2>1, <2>2, <2>4
<1>7. \A e \in Clients \ {c} : passed'[e] = passed[e]
    BY <1>2 DEF LimiterInv, LimiterTypeOK
<1>8. /\ ~ok => passed'[c] = passed[c]
      /\ ok => passed'[c] = [passed[c] EXCEPT ![0] = passed[c][0] + 1]
    BY <1>2 DEF LimiterInv, LimiterTypeOK
<1>9. ASSUME NEW e \in Clients, UNCHANGED passed[e],
             \A a \in Ages : LocalAt(mem, e, Procs, a) <= LocalAt(mem', e, Procs, a)
      PROVE  \E d : Share(e, d, zset', mem', passed')
    <2>1. PICK d : Share(e, d, zset, mem, passed)
        BY DEF LimiterInv
    <2>2. ASSUME NEW a \in Ages
          PROVE  d[a] <= zset'[e][a] /\ passed'[e][a] <= d[a] + LocalAt(mem', e, Procs, a)
        <3>1. /\ d[a] \in Nat /\ d[a] <= zset[e][a]
              /\ passed[e][a] <= d[a] + LocalAt(mem, e, Procs, a)
            BY <2>1 DEF Share
        <3>2. LocalAt(mem, e, Procs, a) \in Nat /\ LocalAt(mem', e, Procs, a) \in Nat
            BY <1>1, LocalType DEF LimiterInv, LimiterTypeOK
        <3>3. passed[e][a] \in Nat /\ passed'[e][a] = passed[e][a]
            BY <1>9 DEF LimiterInv, LimiterTypeOK
        <3> QED
            BY <1>6, <1>9, <3>1, <3>2, <3>3
    <2> QED
        BY <2>1, <2>2 DEF Share
<1>10. CASE CheckRedis(p, c, ok)
    <2>1. /\ UNCHANGED <<mem, fell>> /\ UseRedis /\ ok = (SumOf(zset[c]) < RateLimit)
          /\ zset' = [zset EXCEPT ![c] = Recorded(zset[c])]
        BY <1>10, TotalIsSum DEF CheckRedis, RedisAllows
    <2>2. MemoryGood(mem', fell')
        BY <2>1 DEF LimiterInv
    <2>3. \A e \in Clients, a \in Ages : LocalAt(mem', e, Procs, a) = LocalAt(mem, e, Procs, a)
        BY <2>1
    <2>4. \A e \in Clients, a \in Ages : LocalAt(mem, e, Procs, a) \in Nat
        BY LocalType DEF LimiterInv, LimiterTypeOK
    <2>5. ASSUME ok PROVE \E d : Share(c, d, zset', mem', passed')
        <3>1. PICK d : Share(c, d, zset, mem, passed)
            BY DEF LimiterInv
        <3> DEFINE new == [d EXCEPT ![0] = d[0] + 1]
        <3>2. d \in [Ages -> Nat] /\ new \in [Ages -> Nat] /\ new[0] = d[0] + 1
              /\ \A a \in Ages \ {0} : new[a] = d[a]
            BY <3>1, AgesFacts DEF Share
        <3> HIDE DEF new
        <3>3. SumOf(new) = SumOf(d) + 1
            BY <3>2, SumAdds, AgesFacts
        <3>4. SumOf(d) <= SumOf(zset[c])
            BY <1>3, <3>1, SumMonotone, AgesFacts DEF Share
        <3>5. SumOf(d) \in Nat /\ SumOf(zset[c]) \in Nat
            BY <1>3, <3>2, SumType, AgesFacts
        <3>6. SumOf(new) <= RateLimit
            <4>1. SumOf(zset[c]) < RateLimit
                BY <2>1, <2>5
            <4> QED
                BY <3>3, <3>4, <3>5, <4>1, Limits
        <3>7. zset'[c] = Recorded(zset[c]) /\ zset'[c][0] = zset[c][0] + 1
              /\ \A a \in Ages : a # 0 => zset'[c][a] = zset[c][a]
            BY <1>3, <1>4, <2>1, <2>5 DEF LimiterInv, LimiterTypeOK
        <3>8. ASSUME NEW a \in Ages
              PROVE  new[a] <= zset'[c][a] /\ passed'[c][a] <= new[a] + LocalAt(mem', c, Procs, a)
            <4>1. /\ d[a] \in Nat /\ d[a] <= zset[c][a] /\ zset[c][a] \in Nat
                  /\ passed[c][a] <= d[a] + LocalAt(mem, c, Procs, a)
                  /\ passed[c][a] \in Nat /\ LocalAt(mem, c, Procs, a) \in Nat
                BY <1>3, <2>4, <3>1 DEF Share
            <4>2. passed'[c][a] = IF a = 0 THEN passed[c][a] + 1 ELSE passed[c][a]
                BY <1>3, <1>8, <2>5
            <4>3. LocalAt(mem', c, Procs, a) = LocalAt(mem, c, Procs, a)
                BY <2>3
            <4>4. CASE a = 0
                BY <3>2, <3>7, <4>1, <4>2, <4>3, <4>4
            <4>5. CASE a # 0
                BY <3>2, <3>7, <4>1, <4>2, <4>3, <4>5
            <4> QED
                BY <4>4, <4>5
        <3>9. Share(c, new, zset', mem', passed')
            BY <2>1, <3>2, <3>6, <3>8 DEF Share
        <3> QED
            BY <3>9
    <2>6. ASSUME NEW e \in Clients PROVE \E d : Share(e, d, zset', mem', passed')
        <3>1. CASE e = c /\ ok
            BY <2>5, <3>1
        <3>2. CASE ~(e = c /\ ok)
            <4>1. UNCHANGED passed[e]
                BY <1>7, <1>8, <3>2
            <4>2. \A a \in Ages : LocalAt(mem, e, Procs, a) <= LocalAt(mem', e, Procs, a)
                BY <2>3, <2>4
            <4> QED
                BY <1>9, <4>1, <4>2
        <3> QED
            BY <3>1, <3>2
    <2> QED
        BY <1>1, <2>2, <2>6 DEF LimiterInv
<1>11. CASE CheckMemory(p, c, ok)
    <2>1. /\ ok = (SumOf(mem[p][c]) < RateLimit) /\ fell' = [fell EXCEPT ![p] = 0]
          /\ ~ok => mem' = mem
          /\ ok => mem' = [mem EXCEPT ![p] = [mem[p] EXCEPT ![c] = Recorded(mem[p][c])]]
        BY <1>11, TotalIsSum DEF CheckMemory, MemoryAllows, LimiterInv, LimiterTypeOK
    <2>2. /\ \A q \in Procs, e \in Clients : ~(q = p /\ e = c /\ ok) => mem'[q][e] = mem[q][e]
          /\ ok => mem'[p][c] = Recorded(mem[p][c])
        BY <2>1 DEF LimiterInv, LimiterTypeOK
    <2>3. ASSUME ok PROVE SumOf(Recorded(mem[p][c])) <= RateLimit
        <3>1. SumOf(mem[p][c]) \in Nat
            BY <1>3, SumType, AgesFacts
        <3>2. SumOf(mem[p][c]) < RateLimit
            BY <2>1, <2>3
        <3>3. SumOf(Recorded(mem[p][c])) = SumOf(mem[p][c]) + 1
            BY <1>3, <1>4, <3>2
        <3> QED
            BY <3>1, <3>2, <3>3, Limits
    <2>4. MemoryGood(mem', fell')
        <3> SUFFICES ASSUME NEW q \in Procs, NEW e \in Clients
                     PROVE  /\ SumOf(mem'[q][e]) <= RateLimit
                            /\ \A a \in Ages : mem'[q][e][a] # 0 => fell'[q] <= a
            BY DEF MemoryGood
        <3>1. SumOf(mem'[q][e]) <= RateLimit
            BY <2>2, <2>3 DEF LimiterInv, MemoryGood
        <3>2. ASSUME NEW a \in Ages, mem'[q][e][a] # 0 PROVE fell'[q] <= a
            <4>1. CASE q = p
                <5>1. fell'[q] = 0
                    BY <2>1, <4>1 DEF LimiterInv, LimiterTypeOK
                <5> QED
                    BY <5>1, AgesFacts
            <4>2. CASE q # p
                <5>1. fell'[q] = fell[q] /\ mem'[q][e] = mem[q][e]
                    BY <2>1, <2>2, <4>2 DEF LimiterInv, LimiterTypeOK
                <5> QED
                    BY <3>2, <5>1 DEF LimiterInv, MemoryGood
            <4> QED
                BY <4>1, <4>2
        <3> QED
            BY <3>1, <3>2
    <2>5. ASSUME NEW e \in Clients, ~(e = c /\ ok), NEW a \in Ages
          PROVE  LocalAt(mem', e, Procs, a) = LocalAt(mem, e, Procs, a)
        <3>1. \A q \in Procs : mem'[q][e] = mem[q][e]
            BY <2>2, <2>5
        <3>2. [q \in Procs |-> IF q \in Procs THEN mem'[q][e][a] ELSE 0]
              = [q \in Procs |-> IF q \in Procs THEN mem[q][e][a] ELSE 0]
            BY <3>1
        <3> QED
            BY <3>2 DEF LocalAt
    <2>6. ASSUME ok, NEW a \in Ages
          PROVE  LocalAt(mem', c, Procs, a) = LocalAt(mem, c, Procs, a) + IF a = 0 THEN 1 ELSE 0
        <3> DEFINE f == [q \in Procs |-> IF q \in Procs THEN mem[q][c][a] ELSE 0]
                   h == [q \in Procs |-> IF q \in Procs THEN mem'[q][c][a] ELSE 0]
                   n == IF a = 0 THEN 1 ELSE 0
        <3>1. f \in [Procs -> Nat] /\ h \in [Procs -> Nat]
            BY <1>1, LocalType DEF LimiterInv, LimiterTypeOK
        <3>2. h[p] = f[p] + n
            <4>1. f[p] = mem[p][c][a] /\ h[p] = mem'[p][c][a] /\ mem[p][c][a] \in Nat
                BY <1>3
            <4>2. mem'[p][c] = Recorded(mem[p][c]) /\ SumOf(mem[p][c]) < RateLimit
                BY <2>1, <2>2, <2>6
            <4>3. CASE a = 0
                BY <1>3, <1>4, <4>1, <4>2, <4>3
            <4>4. CASE a # 0
                BY <1>3, <1>4, <4>1, <4>2, <4>4
            <4> QED
                BY <4>3, <4>4
        <3>3. \A q \in Procs \ {p} : h[q] = f[q]
            BY <2>2
        <3>4. n \in Nat
            OBVIOUS
        <3>5. LocalAt(mem', c, Procs, a) = SumOf(h) /\ LocalAt(mem, c, Procs, a) = SumOf(f)
            BY DEF LocalAt
        <3> HIDE DEF f, h, n
        <3>6. IsFiniteSet(Procs)
            BY AgesFacts
        <3>7. SumOf(h) = SumOf(f) + n
            BY <3>1, <3>2, <3>3, <3>4, <3>6, SumAdds
        <3> QED
            BY <3>5, <3>7 DEF n
    <2>7. \A e \in Clients, a \in Ages : LocalAt(mem, e, Procs, a) \in Nat
        BY LocalType DEF LimiterInv, LimiterTypeOK
    <2>8. ASSUME ok PROVE \E d : Share(c, d, zset', mem', passed')
        <3>1. PICK d : Share(c, d, zset, mem, passed)
            BY DEF LimiterInv
        <3>2. ASSUME NEW a \in Ages
              PROVE  d[a] <= zset'[c][a] /\ passed'[c][a] <= d[a] + LocalAt(mem', c, Procs, a)
            <4>1. /\ d[a] \in Nat /\ d[a] <= zset[c][a] /\ zset[c][a] \in Nat
                  /\ passed[c][a] <= d[a] + LocalAt(mem, c, Procs, a)
                  /\ passed[c][a] \in Nat /\ LocalAt(mem, c, Procs, a) \in Nat
                BY <1>3, <2>7, <3>1 DEF Share
            <4>2. passed'[c][a] = IF a = 0 THEN passed[c][a] + 1 ELSE passed[c][a]
                BY <1>3, <1>8, <2>8
            <4>3. zset[c][a] <= zset'[c][a] /\ zset'[c][a] \in Nat
                BY <1>6
            <4>4. LocalAt(mem', c, Procs, a) = LocalAt(mem, c, Procs, a) + IF a = 0 THEN 1 ELSE 0
                BY <2>6, <2>8
            <4> QED
                BY <4>1, <4>2, <4>3, <4>4
        <3>3. Share(c, d, zset', mem', passed')
            BY <3>1, <3>2 DEF Share
        <3> QED
            BY <3>3
    <2>9. ASSUME NEW e \in Clients PROVE \E d : Share(e, d, zset', mem', passed')
        <3>1. CASE e = c /\ ok
            BY <2>8, <3>1
        <3>2. CASE ~(e = c /\ ok)
            <4>1. UNCHANGED passed[e]
                BY <1>7, <1>8, <3>2
            <4>2. \A a \in Ages : LocalAt(mem, e, Procs, a) <= LocalAt(mem', e, Procs, a)
                BY <2>5, <2>7, <3>2
            <4> QED
                BY <1>9, <4>1, <4>2
        <3> QED
            BY <3>1, <3>2
    <2> QED
        BY <1>1, <2>4, <2>9 DEF LimiterInv
<1> QED
    BY <1>10, <1>11 DEF CheckRateLimit

LEMMA LimiterTickStep ==
    ASSUME LimiterInv, LimiterTick
    PROVE  LimiterInv'
<1>1. LimiterTypeOK'
    BY LimiterTickKeeps DEF LimiterInv
<1>2. /\ \A c \in Clients : zset'[c] = Older(zset[c]) /\ passed'[c] = Older(passed[c])
      /\ \A p \in Procs, c \in Clients : mem'[p][c] = Older(mem[p][c])
      /\ \A p \in Procs : fell'[p] = UpTo(fell[p] + 1, Window)
    BY DEF LimiterTick
<1>3. /\ \A c \in Clients : zset[c] \in [Ages -> 0..RateLimit] /\ passed[c] \in [Ages -> Nat]
      /\ \A p \in Procs, c \in Clients : mem[p][c] \in [Ages -> Nat]
      /\ \A p \in Procs : fell[p] \in 0..Window
    BY Limits DEF LimiterInv, LimiterTypeOK
<1>4. \A w : \A a \in Ages : Older(w)[a] = IF a = 0 THEN 0 ELSE w[a - 1]
    BY DEF Older
<1>5. MemoryGood(mem', fell')
    <2> SUFFICES ASSUME NEW p \in Procs, NEW c \in Clients
                 PROVE  /\ SumOf(mem'[p][c]) <= RateLimit
                        /\ \A a \in Ages : mem'[p][c][a] # 0 => fell'[p] <= a
        BY DEF MemoryGood
    <2>1. SumOf(mem'[p][c]) <= RateLimit
        <3>1. SumOf(Older(mem[p][c])) <= SumOf(mem[p][c]) /\ SumOf(mem[p][c]) <= RateLimit
            BY <1>3, OlderTotal DEF LimiterInv, MemoryGood
        <3>2. SumOf(Older(mem[p][c])) \in Nat /\ SumOf(mem[p][c]) \in Nat
            BY <1>3, OlderKeeps, SumType, AgesFacts
        <3> QED
            BY <1>2, <3>1, <3>2, Limits
    <2>2. ASSUME NEW a \in Ages, mem'[p][c][a] # 0 PROVE fell'[p] <= a
        <3>1. a # 0 /\ mem[p][c][a - 1] # 0
            BY <1>2, <1>4, <2>2
        <3>2. a \in Nat /\ a - 1 \in Ages
            BY <3>1, AgesFacts
        <3>3. fell[p] <= a - 1
            BY <3>1, <3>2 DEF LimiterInv, MemoryGood
        <3>4. fell[p] \in Nat /\ fell'[p] <= fell[p] + 1
            BY <1>2, <1>3, Limits DEF UpTo
        <3>5. fell'[p] \in Nat
            BY <1>1, Limits DEF LimiterTypeOK
        <3> QED
            BY <3>2, <3>3, <3>4, <3>5
    <2> QED
        BY <2>1, <2>2
<1>6. ASSUME NEW c \in Clients PROVE \E d : Share(c, d, zset', mem', passed')
    <2>1. PICK d : Share(c, d, zset, mem, passed)
        BY DEF LimiterInv
    <2>2. d \in [Ages -> Nat] /\ Older(d) \in [Ages -> Nat]
        BY <2>1, OlderKeeps DEF Share
    <2>3. /\ SumOf(Older(d)) <= SumOf(d) /\ SumOf(Older(d)) \in Nat /\ SumOf(d) \in Nat
          /\ SumOf(d) <= RateLimit /\ (UseRedis \/ SumOf(d) = 0)
        BY <2>1, <2>2, OlderTotal, SumType, AgesFacts DEF Share
    <2>4. SumOf(Older(d)) <= RateLimit /\ (UseRedis \/ SumOf(Older(d)) = 0)
        BY <2>3, Limits
    <2>5. ASSUME NEW a \in Ages
          PROVE  /\ Older(d)[a] <= zset'[c][a]
                 /\ passed'[c][a] <= Older(d)[a] + LocalAt(mem', c, Procs, a)
        <3>1. LocalAt(mem', c, Procs, a) \in Nat
            BY <1>1, LocalType DEF LimiterTypeOK
        <3>2. CASE a = 0
            <4>1. Older(d)[a] = 0 /\ zset'[c][a] = 0 /\ passed'[c][a] = 0
                BY <1>2, <1>4, <3>2
            <4> QED
                BY <3>1, <4>1
        <3>3. CASE a # 0
            <4>1. a - 1 \in Ages
                BY <3>3, AgesFacts
            <4>2. /\ Older(d)[a] = d[a - 1] /\ zset'[c][a] = zset[c][a - 1]
                  /\ passed'[c][a] = passed[c][a - 1]
                BY <1>2, <1>4, <3>3
            <4>3. LocalAt(mem', c, Procs, a) = LocalAt(mem, c, Procs, a - 1)
                <5>1. \A p \in Procs : mem'[p][c][a] = mem[p][c][a - 1]
                    BY <1>2, <1>4, <3>3
                <5>2. [p \in Procs |-> IF p \in Procs THEN mem'[p][c][a] ELSE 0]
                      = [p \in Procs |-> IF p \in Procs THEN mem[p][c][a - 1] ELSE 0]
                    BY <5>1
                <5> QED
                    BY <5>2 DEF LocalAt
            <4>4. d[a - 1] <= zset[c][a - 1]
                  /\ passed[c][a - 1] <= d[a - 1] + LocalAt(mem, c, Procs, a - 1)
                BY <2>1, <4>1 DEF Share
            <4> QED
                BY <4>2, <4>3, <4>4
        <3> QED
            BY <3>2, <3>3
    <2>6. Share(c, Older(d), zset', mem', passed')
        BY <2>2, <2>4, <2>5 DEF Share
    <2> QED
        BY <2>6
<1> QED
    BY <1>1, <1>5, <1>6 DEF LimiterInv

LEMMA LimiterStart == LimiterInit => LimiterInv
<1> SUFFICES ASSUME LimiterInit PROVE LimiterInv
    OBVIOUS
<1>1. 0 \in 0..RateLimit /\ 0 \in 0..(WafLimit + 1) /\ Window \in 0..Window
    BY Limits
<1>2. /\ NoEntries \in [Ages -> 0..RateLimit] /\ NoEntries \in [Ages -> Nat]
      /\ \A a \in Ages : NoEntries[a] = 0
    BY <1>1 DEF NoEntries
<1>3. LimiterTypeOK
    BY <1>1, <1>2 DEF LimiterInit, LimiterTypeOK
<1>4. SumOf(NoEntries) = 0
    BY <1>2, SumOfZeros, AgesFacts
<1>5. MemoryGood(mem, fell)
    <2>1. \A p \in Procs, c \in Clients : mem[p][c] = NoEntries
        BY DEF LimiterInit
    <2> QED
        BY <1>2, <1>4, <2>1, Limits DEF MemoryGood
<1>6. ASSUME NEW c \in Clients PROVE Share(c, NoEntries, zset, mem, passed)
    <2>1. zset[c] = NoEntries /\ passed[c] = NoEntries
        BY DEF LimiterInit
    <2>2. \A a \in Ages : LocalAt(mem, c, Procs, a) \in Nat
        BY <1>3, LocalType DEF LimiterTypeOK
    <2> QED
        BY <1>2, <1>4, <2>1, <2>2, Limits DEF Share
<1> QED
    BY <1>3, <1>5, <1>6 DEF LimiterInv

LEMMA LimiterStill ==
    ASSUME LimiterInv, UNCHANGED limiterVars
    PROVE  LimiterInv'
BY DEF LimiterInv, limiterVars, LimiterTypeOK, MemoryGood, Share, LocalAt

LEMMA LimiterInvAlways == LimiterSpec => []LimiterInv
<1>1. ASSUME LimiterInv, [LimiterNext]_limiterVars PROVE LimiterInv'
    <2>1. ASSUME NEW p \in Procs, NEW c \in Clients, NEW ok \in BOOLEAN,
                 CheckRateLimit(p, c, ok), UNCHANGED bursts
          PROVE  LimiterInv'
        <3>1. bursts' \in [Procs -> [Clients -> 0..(WafLimit + 1)]]
            BY <1>1, <2>1 DEF LimiterInv, LimiterTypeOK
        <3> QED
            BY <1>1, <2>1, <3>1, CheckKeeps
    <2>2. CASE \E p \in Procs, c \in Clients : Admit(p, c) \/ Refuse(p, c)
        BY <2>1, <2>2 DEF Admit, Refuse
    <2>3. CASE LimiterTick
        BY <1>1, <2>3, LimiterTickStep
    <2>4. CASE UNCHANGED limiterVars
        BY <1>1, <2>4, LimiterStill
    <2> QED
        BY <1>1, <2>2, <2>3, <2>4 DEF LimiterNext
<1> QED
    BY <1>1, LimiterStart, PTL DEF LimiterSpec

\* check_rate_limit admits, in every window and over all the processes, at most one
\* limit's worth for Redis and one for each process that fell back on its memory.
THEOREM FleetStaysBounded == LimiterSpec => []AdmittedBounded
<1>1. LimiterInv => AdmittedBounded
    BY InvBounds
<1> QED
    BY <1>1, LimiterInvAlways, PTL

-----------------------------------------------------------------------------
(* The circuit breaker *)

\* One breaker: closed as long as its count says so, with no more failures in its
\* burst than it counts; none when it may probe the database or has become idle.
Honest(b) ==
    /\ b.state = "closed" <=> b.failures < FailureThreshold
    /\ b.state = "closed" => b.burst <= b.failures
    /\ b.state = "half_open" => b.burst = 0
    /\ b.age >= Timeout => b.burst = 0

\* can_call, record_success and record_failure keep the count honest, whatever
\* the order in which the answers of overlapping calls are recorded.
LEMMA BreakerSteps ==
    ASSUME NEW b \in Breakers, Honest(b)
    PROVE  /\ Asked(b) \in Breakers /\ Honest(Asked(b))
           /\ Succeeded(b) \in Breakers /\ Honest(Succeeded(b))
           /\ Failed(b) \in Breakers /\ Honest(Failed(b))
           /\ AgedBreaker(b) \in Breakers /\ Honest(AgedBreaker(b))
           /\ AgedBreaker(b).state = b.state /\ AgedBreaker(b).burst <= b.burst
<1> DEFINE n == UpTo(b.failures + 1, FailureThreshold)
<1>1. /\ b.state \in {"closed", "open", "half_open"}
      /\ b.failures \in 0..FailureThreshold /\ b.age \in 0..Timeout /\ b.burst \in Nat
    BY DEF Breakers
<1>2. Asked(b) \in Breakers /\ Honest(Asked(b))
    BY DEF Asked, Breakers, Honest
<1>3. Succeeded(b) \in Breakers /\ Honest(Succeeded(b))
    <2>1. 0 \in 0..FailureThreshold /\ 0 < FailureThreshold
        BY Limits
    <2>2. Succeeded(b).state = "closed" /\ Succeeded(b).failures = 0 /\ Succeeded(b).burst = 0
        BY DEF Succeeded, Breakers
    <2>3. Succeeded(b) \in Breakers
        BY <2>1 DEF Succeeded, Breakers
    <2> QED
        BY <2>1, <2>2, <2>3 DEF Honest
<1>4. n \in 0..FailureThreshold /\ (n < FailureThreshold => n = b.failures + 1)
    BY <1>1, Limits DEF UpTo
<1>5. Failed(b) = [state |-> IF n >= FailureThreshold THEN "open" ELSE b.state,
                   failures |-> n, age |-> 0, burst |-> b.burst + 1]
    BY DEF Failed
<1>6. Failed(b) \in Breakers /\ Honest(Failed(b))
    <2> HIDE DEF n
    <2>1. Failed(b) \in Breakers
        BY <1>1, <1>4, <1>5, Limits DEF Breakers
    <2>2. Honest(Failed(b))
        BY <1>1, <1>4, <1>5, Limits DEF Honest
    <2> QED
        BY <2>1, <2>2
<1>7. /\ AgedBreaker(b) \in Breakers /\ Honest(AgedBreaker(b))
      /\ AgedBreaker(b).state = b.state /\ AgedBreaker(b).burst <= b.burst
    <2> DEFINE age == UpTo(b.age + 1, Timeout)
               burst == IF age >= Timeout THEN 0 ELSE b.burst
    <2>1. AgedBreaker(b) = [state |-> b.state, failures |-> b.failures, age |-> age, burst |-> burst]
        <3>1. AgedBreaker(b) = [b EXCEPT !.age = age, !.burst = burst]
            BY DEF AgedBreaker
        <3> HIDE DEF age, burst
        <3> QED
            BY <3>1 DEF Breakers
    <2>2. age \in 0..Timeout
        BY <1>1, Limits DEF UpTo
    <2> HIDE DEF age
    <2>3. AgedBreaker(b) \in Breakers
        BY <1>1, <2>1, <2>2 DEF Breakers
    <2> QED
        BY <1>1, <2>1, <2>2, <2>3 DEF Honest
<1> QED
    BY <1>2, <1>3, <1>6, <1>7

\* A failure adds one to the burst, and takes one call off those that may still fail.
LEMMA FailureCounted ==
    ASSUME NEW b \in Breakers, Honest(b), NEW n \in Nat,
           b.state = "open" => b.burst <= FailureThreshold - 1 + n
    PROVE  Failed(b).burst <= FailureThreshold - 1 + (n + 1)
<1>1. /\ b.state \in {"closed", "open", "half_open"}
      /\ b.failures \in 0..FailureThreshold /\ b.burst \in Nat
    BY DEF Breakers
<1>2. Failed(b).burst = b.burst + 1
    BY DEF Failed
<1> QED
    BY <1>1, <1>2, Limits DEF Honest

\* An open breaker is asked by no call but those still waiting for the database:
\* its burst leaves room for one failure of each of them.
IdleCalls(p) == {c \in CallsOf(p) : call[c] = "idle"}

Covered(p) ==
    breaker[p].state = "open" =>
        breaker[p].burst <= FailureThreshold - 1 + Cardinality(IdleCalls(p))

BreakersHonest == \A p \in Procs : Honest(breaker[p]) /\ Covered(p)

RequestInv == RequestTypeOK /\ BreakersHonest

LEMMA CallSets ==
    ASSUME NEW p
    PROVE  /\ IsFiniteSet(CallsOf(p)) /\ Cardinality(CallsOf(p)) \in Nat
           /\ IsFiniteSet(IdleCalls(p)) /\ Cardinality(IdleCalls(p)) \in Nat
           /\ Cardinality(IdleCalls(p)) <= Cardinality(CallsOf(p))
<1>1. CallsOf(p) \in SUBSET Calls /\ IdleCalls(p) \in SUBSET CallsOf(p)
    BY DEF CallsOf, IdleCalls
<1> QED
    BY <1>1, RequestAssumption, FS_Subset, FS_CardinalityType

LEMMA BreakersStay ==
    ASSUME BreakersHonest, breaker' = breaker, call' = call
    PROVE  BreakersHonest'
<1>1. \A p : IdleCalls(p)' = IdleCalls(p)
    BY DEF IdleCalls, CallsOf
<1> QED
    BY <1>1 DEF BreakersHonest, Covered

\* A step of call c, which leaves its process the breaker b: an open one sends it
\* away, with room in the burst for the calls that are idle after that.
LEMMA BreakerKeeps ==
    ASSUME RequestInv, NEW c \in Calls, NEW b \in Breakers, Honest(b),
           NEW w \in {"idle", "log", "error", "train", "broken"},
           b.state = "open" =>
               w = "idle" /\ b.burst <= FailureThreshold - 1 + Cardinality(IdleCalls(ProcOf[c]) \cup {c}),
           breaker' = [breaker EXCEPT ![ProcOf[c]] = b],
           call' = [call EXCEPT ![c] = w]
    PROVE  /\ breaker' \in [Procs -> Breakers] /\ BreakersHonest'
           /\ call' \in [Calls -> {"idle", "log", "error", "train", "broken"}]
<1>1. /\ breaker \in [Procs -> Breakers] /\ ProcOf[c] \in Procs
      /\ call \in [Calls -> {"idle", "log", "error", "train", "broken"}]
    BY RequestFields DEF RequestInv, RequestTypeOK
<1>2. ASSUME NEW p \in Procs, p # ProcOf[c] PROVE Honest(breaker'[p]) /\ Covered(p)'
    <2>1. IdleCalls(p)' = IdleCalls(p)
        BY <1>1, <1>2 DEF IdleCalls, CallsOf
    <2>2. breaker'[p] = breaker[p]
        BY <1>1, <1>2
    <2> QED
        BY <2>1, <2>2 DEF RequestInv, BreakersHonest, Covered
<1>3. Honest(breaker'[ProcOf[c]]) /\ Covered(ProcOf[c])'
    <2>1. breaker'[ProcOf[c]] = b
        BY <1>1
    <2>2. CASE b.state = "open"
        <3>1. IdleCalls(ProcOf[c])' = IdleCalls(ProcOf[c]) \cup {c}
            BY <1>1, <2>2 DEF IdleCalls, CallsOf
        <3> QED
            BY <2>1, <2>2, <3>1 DEF Covered
    <2>3. CASE b.state # "open"
        BY <2>1, <2>3 DEF Covered
    <2> QED
        BY <2>1, <2>2, <2>3
<1>4. BreakersHonest'
    BY <1>2, <1>3 DEF BreakersHonest
<1> QED
    BY <1>1, <1>4

LEMMA WriteKeeps ==
    ASSUME RequestInv, NEW c \in Calls, NEW b \in Breakers, Honest(b),
           b.state = "open" =>
               b.burst <= FailureThreshold - 1 + Cardinality(IdleCalls(ProcOf[c]) \cup {c}),
           NEW there \in {"log", "error", "train", "broken"}, Write(c, b, there, "idle")
    PROVE  /\ breaker' \in [Procs -> Breakers] /\ BreakersHonest'
           /\ call' \in [Calls -> {"idle", "log", "error", "train", "broken"}]
<1> DEFINE w == IF MayCall(b) THEN there ELSE "idle"
<1>1. breaker' = [breaker EXCEPT ![ProcOf[c]] = Asked(b)] /\ call' = [call EXCEPT ![c] = w]
    BY DEF Write, Proc
<1>2. Asked(b) \in Breakers /\ Honest(Asked(b))
    BY BreakerSteps
<1>3. Asked(b).state = "open" => ~MayCall(b) /\ Asked(b) = b
    BY DEF Asked, MayCall, Breakers
<1>4. Asked(b).state = "open" =>
          /\ w = "idle"
          /\ Asked(b).burst <= FailureThreshold - 1 + Cardinality(IdleCalls(ProcOf[c]) \cup {c})
    BY <1>3
<1>5. w \in {"idle", "log", "error", "train", "broken"}
    OBVIOUS
<1> HIDE DEF w
<1> QED
    BY <1>1, <1>2, <1>4, <1>5, BreakerKeeps

\* A new request: its call was idle.
LEMMA FirstWrite ==
    ASSUME RequestInv, NEW c \in Calls, call[c] = "idle",
           NEW there \in {"log", "error"}, Write(c, breaker[ProcOf[c]], there, "idle")
    PROVE  /\ breaker' \in [Procs -> Breakers] /\ BreakersHonest'
           /\ call' \in [Calls -> {"idle", "log", "error", "train", "broken"}]
<1> DEFINE p == ProcOf[c]
<1>1. p \in Procs
    BY RequestFields
<1>2. breaker[p] \in Breakers /\ Honest(breaker[p]) /\ Covered(p)
    BY <1>1 DEF RequestInv, RequestTypeOK, BreakersHonest
<1>3. IdleCalls(p) \cup {c} = IdleCalls(p)
    BY DEF IdleCalls, CallsOf
<1> HIDE DEF p
<1>4. breaker[p].state = "open" =>
          breaker[p].burst <= FailureThreshold - 1 + Cardinality(IdleCalls(p) \cup {c})
    BY <1>2, <1>3 DEF Covered
<1> QED
    BY <1>2, <1>4, WriteKeeps DEF p

-----------------------------------------------------------------------------
(* Stored answers and the pipeline's cache *)

LEMMA KeptType ==
    ASSUME NEW s \in [Keys -> Entries \cup {None}]
    PROVE  /\ Kept(s) \in [Keys -> Entries \cup {None}]
           /\ \A k \in Keys : Kept(s)[k] = s[k] \/ Expired(s[k])
BY DEF Kept

LEMMA StoreType ==
    ASSUME NEW s \in [Keys -> Entries \cup {None}], NEW k \in Keys, NEW a \in Answers
    PROVE  Store(s, k, a) \in [Keys -> Entries \cup {None}]
<1>1. [answer |-> a, age |-> 0] \in Entries
    BY Limits DEF Entries
<1> QED
    BY <1>1 DEF Store

LEMMA ClassifiedType ==
    ASSUME RequestTypeOK, NEW p \in Procs, NEW x \in Texts
    PROVE  Classified(p, x) \in Answers
<1>1. cache[p] \in [Texts -> Answers \cup {None}] /\ thresholds[p] \in Thresholds
    BY DEF RequestTypeOK
<1>2. [of |-> x, under |-> thresholds[p]] \in Answers
    BY <1>1 DEF Answers
<1> QED
    BY <1>1, <1>2 DEF Classified, Cached

LEMMA CacheSetType ==
    ASSUME NEW entries \in [Texts -> Answers \cup {None}], NEW x \in Texts, NEW a \in Answers
    PROVE  CacheSet(entries, x, a) \in [Texts -> Answers \cup {None}]
BY DEF CacheSet

LEMMA KeptStored ==
    ASSUME RequestTypeOK, NEW p \in Procs, stored' = [stored EXCEPT ![p] = Kept(stored[p])]
    PROVE  stored' \in [Procs -> [Keys -> Entries \cup {None}]]
BY KeptType DEF RequestTypeOK

LEMMA AgedType ==
    ASSUME NEW e \in Entries \cup {None}
    PROVE  /\ AgedEntry(e) \in Entries \cup {None}
           /\ e # None => AgedEntry(e) # None /\ AgedEntry(e).answer = e.answer
<1>1. CASE e = None
    BY <1>1 DEF AgedEntry
<1>2. CASE e # None
    <2>1. e \in Entries /\ e.age + 1 \in Nat /\ IdempotencyTTL + 1 \in Nat
        BY <1>2, Limits DEF Entries
    <2>2. UpTo(e.age + 1, IdempotencyTTL + 1) \in 0..(IdempotencyTTL + 1)
        BY <2>1, UpToBound
    <2>3. AgedEntry(e) = [e EXCEPT !.age = UpTo(e.age + 1, IdempotencyTTL + 1)]
        BY <1>2, <2>1 DEF AgedEntry, Entries
    <2>4. AgedEntry(e) \in Entries /\ AgedEntry(e).answer = e.answer
        BY <2>1, <2>2, <2>3 DEF Entries
    <2> QED
        BY <1>2, <2>4, RequestFields
<1> QED
    BY <1>1, <1>2

-----------------------------------------------------------------------------
(* Every step keeps the invariant *)

\* What no step but a classification or an answer of the database touches.
LEMMA OnlyStored ==
    ASSUME RequestInv, LimiterTypeOK', UNCHANGED <<thresholds, cache, breaker, call, dbUp>>,
           stored' \in [Procs -> [Keys -> Entries \cup {None}]]
    PROVE  RequestInv'
BY BreakersStay DEF RequestInv, RequestTypeOK

LEMMA LimiterSame ==
    ASSUME LimiterTypeOK, UNCHANGED limiterVars
    PROVE  LimiterTypeOK'
BY DEF LimiterTypeOK, limiterVars

LEMMA ReplayStep ==
    ASSUME RequestInv, NEW c \in Calls, NEW r \in Requests, Replay(c, r)
    PROVE  RequestInv'
<1>1. /\ stored' = [stored EXCEPT ![ProcOf[c]] = Kept(stored[ProcOf[c]])]
      /\ UNCHANGED <<thresholds, cache, breaker, call, dbUp>> /\ UNCHANGED limiterVars
    BY DEF Replay, Proc
<1> QED
    BY <1>1, OnlyStored, LimiterSame, KeptStored, RequestFields DEF RequestInv, RequestTypeOK

\* CheckRateLimit and CheckWaf, on the way to an answer or to a refusal.
LEMMA LimitsKeep ==
    ASSUME RequestInv, NEW c \in Calls, NEW r \in Requests, NEW ok,
           CheckRateLimit(Proc(c), r.client, TRUE),
           CheckWaf(Proc(c), r.client, r.text \in Suspicious, ok)
    PROVE  LimiterTypeOK'
<1>1. Proc(c) \in Procs /\ r.client \in Clients
    BY RequestFields DEF Proc
<1> QED
    BY <1>1, CheckWafKeeps, CheckRateLimitKeeps DEF RequestInv, RequestTypeOK

LEMMA TurnedAwayStep ==
    ASSUME RequestInv, NEW c \in Calls, NEW r \in Requests, TurnedAway(c, r)
    PROVE  RequestInv'
<1>1. /\ stored' = [stored EXCEPT ![ProcOf[c]] = Kept(stored[ProcOf[c]])]
      /\ UNCHANGED <<thresholds, cache, breaker, call, dbUp>>
    BY DEF TurnedAway, Proc
<1>2. CASE CheckRateLimit(Proc(c), r.client, FALSE) /\ UNCHANGED bursts
    <2>1. bursts' \in [Procs -> [Clients -> 0..(WafLimit + 1)]]
        BY <1>2 DEF RequestInv, RequestTypeOK, LimiterTypeOK
    <2>2. LimiterTypeOK'
        BY <1>2, <2>1, CheckRateLimitKeeps, RequestFields DEF RequestInv, RequestTypeOK, Proc
    <2> QED
        BY <1>1, <2>2, OnlyStored, KeptStored, RequestFields DEF RequestInv
<1>3. CASE /\ CheckRateLimit(Proc(c), r.client, TRUE)
           /\ CheckWaf(Proc(c), r.client, r.text \in Suspicious, FALSE)
    BY <1>1, <1>3, LimitsKeep, OnlyStored, KeptStored, RequestFields DEF RequestInv
<1> QED
    BY <1>2, <1>3 DEF TurnedAway

LEMMA ClassifyStep ==
    ASSUME RequestInv, NEW c \in Calls, NEW r \in Requests, Classify(c, r)
    PROVE  RequestInv'
<1> DEFINE p == ProcOf[c]
           answer == Classified(p, r.text)
<1>1. /\ CheckRateLimit(Proc(c), r.client, TRUE)
      /\ CheckWaf(Proc(c), r.client, r.text \in Suspicious, TRUE)
      /\ cache' = [cache EXCEPT ![p] = CacheSet(cache[p], r.text, answer)]
      /\ stored' = [stored EXCEPT ![p] = Store(Kept(stored[p]), Key[r], answer)]
      /\ Write(c, breaker[p], "log", "idle")
      /\ UNCHANGED <<thresholds, dbUp>>
    BY DEF Classify, Proc
<1>2. p \in Procs /\ r.text \in Texts /\ Key[r] \in Keys
    BY RequestFields
<1>3. answer \in Answers
    BY <1>2, ClassifiedType DEF RequestInv
<1> HIDE DEF p, answer
<1>4. cache' \in [Procs -> [Texts -> Answers \cup {None}]]
    <2>1. CacheSet(cache[p], r.text, answer) \in [Texts -> Answers \cup {None}]
        BY <1>2, <1>3, CacheSetType DEF RequestInv, RequestTypeOK
    <2> QED
        BY <1>1, <1>2, <2>1 DEF RequestInv, RequestTypeOK
<1>5. stored' \in [Procs -> [Keys -> Entries \cup {None}]]
    <2>1. Kept(stored[p]) \in [Keys -> Entries \cup {None}]
        BY <1>2, KeptType DEF RequestInv, RequestTypeOK
    <2>2. Store(Kept(stored[p]), Key[r], answer) \in [Keys -> Entries \cup {None}]
        BY <1>2, <1>3, <2>1, StoreType
    <2> QED
        BY <1>1, <1>2, <2>2 DEF RequestInv, RequestTypeOK
<1>6. /\ breaker' \in [Procs -> Breakers] /\ BreakersHonest'
      /\ call' \in [Calls -> {"idle", "log", "error", "train", "broken"}]
    <2>1. call[c] = "idle"
        BY DEF Classify, Received
    <2> QED
        BY <1>1, <2>1, FirstWrite DEF p
<1>7. LimiterTypeOK'
    BY <1>1, LimitsKeep
<1> QED
    BY <1>1, <1>4, <1>5, <1>6, <1>7 DEF RequestInv, RequestTypeOK

LEMMA ClassifyFailsStep ==
    ASSUME RequestInv, NEW c \in Calls, NEW r \in Requests, ClassifyFails(c, r)
    PROVE  RequestInv'
<1> DEFINE p == ProcOf[c]
<1>1. /\ CheckRateLimit(Proc(c), r.client, TRUE)
      /\ CheckWaf(Proc(c), r.client, r.text \in Suspicious, TRUE)
      /\ stored' = [stored EXCEPT ![p] = Kept(stored[p])]
      /\ Write(c, breaker[p], "error", "idle")
      /\ UNCHANGED <<thresholds, cache, dbUp>>
    BY DEF ClassifyFails, Proc
<1>2. p \in Procs
    BY RequestFields
<1> HIDE DEF p
<1>3. stored' \in [Procs -> [Keys -> Entries \cup {None}]]
    BY <1>1, <1>2, KeptStored DEF RequestInv
<1>4. call[c] = "idle"
    BY DEF ClassifyFails, Received
<1>5. /\ breaker' \in [Procs -> Breakers] /\ BreakersHonest'
      /\ call' \in [Calls -> {"idle", "log", "error", "train", "broken"}]
    BY <1>1, <1>4, FirstWrite DEF p
<1>6. LimiterTypeOK'
    BY <1>1, LimitsKeep
<1> QED
    BY <1>1, <1>3, <1>5, <1>6 DEF RequestInv, RequestTypeOK

LEMMA AnsweredStep ==
    ASSUME RequestInv, NEW c \in Calls, Answered(c)
    PROVE  RequestInv'
<1> DEFINE p == ProcOf[c]
<1>1. p \in Procs
    BY RequestFields
<1>2. breaker[p] \in Breakers /\ Honest(breaker[p]) /\ Covered(p) /\ call[c] # "idle"
    BY <1>1 DEF RequestInv, RequestTypeOK, BreakersHonest, Answered, LogAnswered, LastWriteAnswered
<1>3. /\ Succeeded(breaker[p]) \in Breakers /\ Honest(Succeeded(breaker[p]))
      /\ Failed(breaker[p]) \in Breakers /\ Honest(Failed(breaker[p]))
    BY <1>2, BreakerSteps
<1>4. UNCHANGED limiterVars /\ UNCHANGED <<thresholds, stored, cache, dbUp>>
    BY DEF Answered, LogAnswered, LastWriteAnswered
<1>5. \E b \in {Succeeded(breaker[p]), Failed(breaker[p])} :
          \/ \E there \in {"train", "broken"} : Write(c, b, there, "idle")
          \/ call' = [call EXCEPT ![c] = "idle"] /\ breaker' = [breaker EXCEPT ![p] = b]
    <2>1. CASE LogAnswered(c)
        BY <2>1 DEF LogAnswered, Proc
    <2>2. CASE LastWriteAnswered(c)
        BY <1>1, <2>2 DEF LastWriteAnswered, Proc, RequestInv, RequestTypeOK
    <2> QED
        BY <2>1, <2>2 DEF Answered
<1> HIDE DEF p
<1>6. PICK b \in {Succeeded(breaker[p]), Failed(breaker[p])} :
          \/ \E there \in {"train", "broken"} : Write(c, b, there, "idle")
          \/ call' = [call EXCEPT ![c] = "idle"] /\ breaker' = [breaker EXCEPT ![p] = b]
    BY <1>5
<1>7. /\ b \in Breakers /\ Honest(b)
      /\ b.state = "open" => b.burst <= FailureThreshold - 1 + Cardinality(IdleCalls(p) \cup {c})
    <2>1. CASE b = Succeeded(breaker[p])
        BY <1>2, <1>3, <2>1 DEF Succeeded, Breakers
    <2>2. CASE b = Failed(breaker[p])
        <3>1. Cardinality(IdleCalls(p)) \in Nat /\ c \notin IdleCalls(p) /\ IsFiniteSet(IdleCalls(p))
            BY <1>2, CallSets DEF IdleCalls
        <3>2. Cardinality(IdleCalls(p) \cup {c}) = Cardinality(IdleCalls(p)) + 1
            BY <3>1, FS_AddElement
        <3>3. Failed(breaker[p]).burst <= FailureThreshold - 1 + (Cardinality(IdleCalls(p)) + 1)
            BY <1>2, <3>1, FailureCounted DEF Covered
        <3> QED
            BY <1>3, <2>2, <3>2, <3>3
    <2> QED
        BY <1>6, <2>1, <2>2
<1>8. /\ breaker' \in [Procs -> Breakers] /\ BreakersHonest'
      /\ call' \in [Calls -> {"idle", "log", "error", "train", "broken"}]
    <2>1. CASE \E there \in {"train", "broken"} : Write(c, b, there, "idle")
        BY <1>7, <2>1, WriteKeeps DEF p
    <2>2. CASE call' = [call EXCEPT ![c] = "idle"] /\ breaker' = [breaker EXCEPT ![p] = b]
        BY <1>7, <2>2, BreakerKeeps DEF p
    <2> QED
        BY <1>6, <2>1, <2>2
<1>9. LimiterTypeOK'
    BY <1>4, LimiterSame DEF RequestInv, RequestTypeOK
<1> QED
    BY <1>4, <1>8, <1>9 DEF RequestInv, RequestTypeOK

LEMMA TickStep ==
    ASSUME RequestInv, RequestTick
    PROVE  RequestInv'
<1>1. stored' \in [Procs -> [Keys -> Entries \cup {None}]]
    BY AgedType DEF RequestInv, RequestTypeOK, RequestTick
<1>2. breaker' \in [Procs -> Breakers] /\ BreakersHonest'
    <2>1. ASSUME NEW p \in Procs
          PROVE  breaker'[p] \in Breakers /\ Honest(breaker'[p]) /\ Covered(p)'
        <3>1. breaker[p] \in Breakers /\ Honest(breaker[p]) /\ Covered(p)
            BY DEF RequestInv, RequestTypeOK, BreakersHonest
        <3>2. breaker'[p] = AgedBreaker(breaker[p]) /\ call' = call
            BY DEF RequestTick
        <3>3. IdleCalls(p)' = IdleCalls(p)
            BY <3>2 DEF IdleCalls, CallsOf
        <3>4. /\ AgedBreaker(breaker[p]) \in Breakers /\ Honest(AgedBreaker(breaker[p]))
              /\ AgedBreaker(breaker[p]).state = breaker[p].state
              /\ AgedBreaker(breaker[p]).burst <= breaker[p].burst
            BY <3>1, BreakerSteps
        <3>5. breaker'[p].burst \in Nat /\ breaker[p].burst \in Nat
            BY <3>1, <3>2, <3>4 DEF Breakers
        <3>6. Cardinality(IdleCalls(p)) \in Nat
            BY CallSets
        <3>7. Covered(p)'
            BY <3>1, <3>2, <3>3, <3>4, <3>5, <3>6, Limits DEF Covered
        <3> QED
            BY <3>2, <3>4, <3>7
    <2> QED
        BY <2>1 DEF BreakersHonest, RequestTick
<1>3. LimiterTypeOK'
    BY LimiterTickKeeps DEF RequestInv, RequestTypeOK, RequestTick
<1>4. UNCHANGED <<thresholds, cache, call, dbUp>>
    BY DEF RequestTick
<1> QED
    BY <1>1, <1>2, <1>3, <1>4 DEF RequestInv, RequestTypeOK

LEMMA RequestParts == RequestInit => RequestInv
<1> SUFFICES ASSUME RequestInit PROVE RequestInv
    OBVIOUS
<1>1. 0 \in 0..RateLimit /\ 0 \in 0..(WafLimit + 1) /\ Window \in 0..Window
      /\ 0 \in 0..FailureThreshold /\ Timeout \in 0..Timeout /\ 0 < FailureThreshold
      /\ 0 \in Nat
    BY Limits
<1>2. NoEntries \in [Ages -> 0..RateLimit] /\ NoEntries \in [Ages -> Nat]
    BY <1>1 DEF NoEntries
<1>3. LimiterTypeOK
    BY <1>1, <1>2 DEF RequestInit, LimiterInit, LimiterTypeOK
<1>4. NewBreaker \in Breakers /\ Honest(NewBreaker)
    BY <1>1 DEF NewBreaker, Breakers, Honest
<1>5. NewBreaker.state = "closed"
    BY DEF NewBreaker
<1> QED
    BY <1>3, <1>4, <1>5 DEF RequestInit, RequestInv, RequestTypeOK, BreakersHonest, Covered, EmptyCache

LEMMA RequestPartsStep == RequestInv /\ [RequestNext]_requestVars => RequestInv'
<1> SUFFICES ASSUME RequestInv, [RequestNext]_requestVars PROVE RequestInv'
    OBVIOUS
<1>1. CASE \E c \in Calls, r \in Requests :
               Replay(c, r) \/ TurnedAway(c, r) \/ Classify(c, r) \/ ClassifyFails(c, r)
    BY <1>1, ReplayStep, TurnedAwayStep, ClassifyStep, ClassifyFailsStep
<1>2. CASE \E c \in Calls : Answered(c)
    BY <1>2, AnsweredStep
<1>3. ASSUME NEW c \in Calls, NEW client \in Clients, Stats(c, client)
      PROVE  RequestInv'
    <2>1. /\ \E ok \in BOOLEAN : CheckRateLimit(ProcOf[c], client, ok)
          /\ UNCHANGED <<bursts, thresholds, stored, cache, breaker, call, dbUp>>
        BY <1>3 DEF Stats, Proc
    <2>2. bursts' \in [Procs -> [Clients -> 0..(WafLimit + 1)]]
        BY <2>1 DEF RequestInv, RequestTypeOK, LimiterTypeOK
    <2>3. LimiterTypeOK'
        BY <2>1, <2>2, CheckRateLimitKeeps, RequestFields DEF RequestInv, RequestTypeOK
    <2> QED
        BY <2>1, <2>3, OnlyStored DEF RequestInv, RequestTypeOK
<1>4. ASSUME NEW p \in Procs, NEW t \in Thresholds, ApplyConfig(p, t)
      PROVE  RequestInv'
    <2>1. /\ thresholds' = [thresholds EXCEPT ![p] = t]
          /\ cache' = [cache EXCEPT ![p] = EmptyCache]
          /\ UNCHANGED <<stored, breaker, call, dbUp>> /\ UNCHANGED limiterVars
        BY <1>4 DEF ApplyConfig
    <2>2. EmptyCache \in [Texts -> Answers \cup {None}]
        BY DEF EmptyCache
    <2> QED
        BY <2>1, <2>2, LimiterSame, BreakersStay DEF RequestInv, RequestTypeOK
<1>5. CASE DatabaseFails \/ DatabaseReturns
    <2>1. /\ UNCHANGED <<thresholds, stored, cache, breaker, call>> /\ UNCHANGED limiterVars
          /\ dbUp' \in BOOLEAN
        BY <1>5 DEF DatabaseFails, DatabaseReturns
    <2> QED
        BY <2>1, LimiterSame, BreakersStay DEF RequestInv, RequestTypeOK
<1>6. CASE RequestTick
    BY <1>6, TickStep
<1>7. CASE UNCHANGED requestVars
    <2>1. UNCHANGED <<thresholds, stored, cache, breaker, call, dbUp>> /\ UNCHANGED limiterVars
        BY <1>7 DEF requestVars
    <2> QED
        BY <2>1, LimiterSame, BreakersStay DEF RequestInv, RequestTypeOK
<1> QED
    BY <1>1, <1>2, <1>3, <1>4, <1>5, <1>6, <1>7 DEF RequestNext

-----------------------------------------------------------------------------
(* The theorems *)

LEMMA RequestInvAlways == RequestSpec => []RequestInv
BY RequestParts, RequestPartsStep, PTL DEF RequestSpec

\* The limiter, the breakers, the stores and the cache of every process keep their types.
THEOREM RequestTypeCorrect == RequestSpec => []RequestTypeOK
<1>1. RequestInv => RequestTypeOK
    BY DEF RequestInv
<1> QED
    BY <1>1, RequestInvAlways, PTL

\* CircuitBreaker shields the database: between two successes, or two spells of
\* Timeout, at most FailureThreshold - 1 calls of a process fail, and one for each
\* it serves at a time, in whatever order overlapping calls report and whatever
\* half_open and late answers let through.
THEOREM BreakersBoundFailures == RequestSpec => []FailuresBounded
<1>1. ASSUME RequestInv, NEW p \in Procs
      PROVE  breaker[p].burst <= FailureThreshold - 1 + Cardinality(CallsOf(p))
    <2>1. breaker[p] \in Breakers /\ Honest(breaker[p]) /\ Covered(p)
        BY <1>1 DEF RequestInv, RequestTypeOK, BreakersHonest
    <2>2. /\ breaker[p].state \in {"closed", "open", "half_open"}
          /\ breaker[p].failures \in 0..FailureThreshold /\ breaker[p].burst \in Nat
        BY <2>1 DEF Breakers
    <2> QED
        BY <2>1, <2>2, CallSets, Limits DEF Honest, Covered
<1>2. RequestInv => FailuresBounded
    BY <1>1 DEF FailuresBounded
<1> QED
    BY <1>2, RequestInvAlways, PTL

\* One step keeps every answer that is younger than the TTL.
LEMMA KeepsAnswers ==
    ASSUME RequestInv, [RequestNext]_requestVars, NEW p \in Procs, NEW k \in Keys,
           stored[p][k] # None, stored[p][k].age < IdempotencyTTL
    PROVE  stored'[p][k] # None /\ stored'[p][k].answer = stored[p][k].answer
<1>1. stored \in [Procs -> [Keys -> Entries \cup {None}]] /\ stored[p][k] \in Entries
    BY DEF RequestInv, RequestTypeOK
<1>2. Kept(stored[p]) \in [Keys -> Entries \cup {None}] /\ Kept(stored[p])[k] = stored[p][k]
    <2>1. ~Expired(stored[p][k])
        BY <1>1, Limits DEF Expired, Entries
    <2> QED
        BY <1>1, <2>1, KeptType
<1>3. ASSUME NEW q \in Procs, stored' = [stored EXCEPT ![q] = Kept(stored[q])]
      PROVE  stored'[p][k] = stored[p][k]
    BY <1>1, <1>2, <1>3
<1>4. ASSUME NEW c \in Calls, NEW r \in Requests, Classify(c, r)
      PROVE  stored'[p][k] = stored[p][k]
    <2> DEFINE q == ProcOf[c]
               answer == Classified(q, r.text)
    <2>1. /\ stored' = [stored EXCEPT ![q] = Store(Kept(stored[q]), Key[r], answer)]
          /\ ~Fresh(Kept(stored[q])[Key[r]])
        BY <1>4 DEF Classify, Stored, Proc
    <2>2. q \in Procs /\ Key[r] \in Keys
        BY RequestFields
    <2> HIDE DEF q, answer
    <2>3. CASE p = q
        <3>1. Fresh(Kept(stored[p])[k])
            BY <1>2 DEF Fresh
        <3>2. k # Key[r]
            BY <2>1, <2>3, <3>1
        <3> QED
            BY <1>1, <1>2, <2>1, <2>2, <2>3, <3>2 DEF Store
    <2>4. CASE p # q
        BY <1>1, <2>1, <2>2, <2>4
    <2> QED
        BY <2>3, <2>4
<1>5. CASE \E c \in Calls, r \in Requests :
               Replay(c, r) \/ TurnedAway(c, r) \/ ClassifyFails(c, r)
    <2>1. \E q \in Procs : stored' = [stored EXCEPT ![q] = Kept(stored[q])]
        BY <1>5, RequestFields DEF Replay, TurnedAway, ClassifyFails, Proc
    <2> QED
        BY <1>3, <2>1
<1>6. CASE RequestTick
    <2>1. stored'[p][k] = AgedEntry(stored[p][k])
        BY <1>6 DEF RequestTick
    <2> QED
        BY <1>1, <2>1, AgedType
<1>7. CASE UNCHANGED stored
    BY <1>7
<1>8. \/ UNCHANGED stored \/ RequestTick
      \/ \E c \in Calls, r \in Requests :
             Replay(c, r) \/ TurnedAway(c, r) \/ Classify(c, r) \/ ClassifyFails(c, r)
    BY DEF RequestNext, requestVars, Answered, LogAnswered, LastWriteAnswered, Stats, ApplyConfig,
           DatabaseFails, DatabaseReturns
<1> QED
    BY <1>4, <1>5, <1>6, <1>7, <1>8

\* IdempotencyManager: within the TTL a key keeps its first answer, whatever
\* requests with that key overlap or fail and whatever configuration is loaded.
THEOREM AnswersAreKept == RequestSpec => AnswerKept
<1>1. RequestInv /\ [RequestNext]_requestVars =>
          [\A p \in Procs, k \in Keys :
             stored[p][k] # None /\ stored[p][k].age < IdempotencyTTL =>
                stored'[p][k] # None /\ stored'[p][k].answer = stored[p][k].answer]_requestVars
    BY KeepsAnswers
<1> QED
    BY <1>1, RequestInvAlways, PTL DEF RequestSpec, AnswerKept

\* What classify and stats together let through: a refused burst has taken its
\* place in the window, a replayed answer takes none.
LEMMA RequestsLimited ==
    ASSUME RequestInv, LimiterInv, [RequestNext]_requestVars
    PROVE  LimiterInv'
<1>1. ASSUME NEW c \in Calls, NEW client \in Clients, NEW ok \in BOOLEAN,
             CheckRateLimit(Proc(c), client, ok),
             bursts' \in [Procs -> [Clients -> 0..(WafLimit + 1)]]
      PROVE  LimiterInv'
    BY <1>1, CheckKeeps, RequestFields DEF Proc
<1>2. UNCHANGED bursts => bursts' \in [Procs -> [Clients -> 0..(WafLimit + 1)]]
    BY DEF LimiterInv, LimiterTypeOK
<1>3. ASSUME NEW c \in Calls, NEW r \in Requests, NEW ok, CheckRateLimit(Proc(c), r.client, TRUE),
             CheckWaf(Proc(c), r.client, r.text \in Suspicious, ok)
      PROVE  LimiterInv'
    <2>1. Proc(c) \in Procs /\ r.client \in Clients
        BY RequestFields DEF Proc
    <2>2. bursts' \in [Procs -> [Clients -> 0..(WafLimit + 1)]]
        BY <1>3, <2>1, CheckWafKeeps DEF LimiterInv
    <2> QED
        BY <1>1, <1>3, <2>1, <2>2
<1>4. ASSUME NEW c \in Calls, NEW r \in Requests, TurnedAway(c, r)
      PROVE  LimiterInv'
    <2>1. r.client \in Clients
        BY RequestFields
    <2>2. \/ CheckRateLimit(Proc(c), r.client, FALSE) /\ UNCHANGED bursts
          \/ /\ CheckRateLimit(Proc(c), r.client, TRUE)
             /\ CheckWaf(Proc(c), r.client, r.text \in Suspicious, FALSE)
        BY <1>4 DEF TurnedAway
    <2> QED
        BY <1>1, <1>2, <1>3, <2>1, <2>2
<1>5. ASSUME NEW c \in Calls, NEW r \in Requests, Classify(c, r) \/ ClassifyFails(c, r)
      PROVE  LimiterInv'
    BY <1>3, <1>5 DEF Classify, ClassifyFails
<1>6. ASSUME NEW c \in Calls, NEW client \in Clients, Stats(c, client)
      PROVE  LimiterInv'
    BY <1>1, <1>2, <1>6 DEF Stats
<1>7. CASE RequestTick
    BY <1>7, LimiterTickStep DEF RequestTick
<1>8. CASE UNCHANGED limiterVars
    BY <1>8, LimiterStill
<1>9. \/ UNCHANGED limiterVars \/ RequestTick
      \/ \E c \in Calls, r \in Requests : TurnedAway(c, r) \/ Classify(c, r) \/ ClassifyFails(c, r)
      \/ \E c \in Calls, client \in Clients : Stats(c, client)
    BY DEF RequestNext, requestVars, Replay, Answered, LogAnswered, LastWriteAnswered, ApplyConfig,
           DatabaseFails, DatabaseReturns
<1> QED
    BY <1>4, <1>5, <1>6, <1>7, <1>8, <1>9

\* The bound of check_rate_limit holds for the requests of main.py as well, which
\* pass other guards before and after it.
THEOREM RequestsStayBounded == RequestSpec => []AdmittedBounded
<1>1. RequestInit => LimiterInv
    BY LimiterStart DEF RequestInit
<1>2. LimiterInv => AdmittedBounded
    BY InvBounds
<1> QED
    BY <1>1, <1>2, RequestInvAlways, RequestsLimited, PTL DEF RequestSpec
===============================================================================
