------------------------- MODULE ClientSync_proofs -------------------------
(***************************************************************************)
(* Proofs about Workload and ClientSync.                                   *)
(*                                                                         *)
(* First the generator's arithmetic and its invariants, for every number   *)
(* of keys, nodes, operations and threads; then the barriers and gets, for *)
(* every number of machines, threads and passes and every operation file   *)
(* that Workload can generate.                                             *)
(***************************************************************************)
EXTENDS ClientSync, FiniteSetTheorems, TLAPS

-----------------------------------------------------------------------------
(* Division                                                                *)

LEMMA DivMod ==
    ASSUME NEW a \in Nat, NEW d \in Nat \ {0}
    PROVE  /\ a \div d \in Nat /\ a % d \in 0 .. d - 1
           /\ a = d * (a \div d) + (a % d)
OBVIOUS

LEMMA TimesMonotone ==
    ASSUME NEW a \in Nat, NEW b \in Nat, NEW c \in Nat, a <= b
    PROVE  a * c <= b * c
OBVIOUS

LEMMA DivBounds ==
    ASSUME NEW a \in Nat, NEW d \in Nat \ {0}
    PROVE  (a \div d) * d <= a /\ a < (a \div d + 1) * d
<1>1. a = d * (a \div d) + (a % d) /\ a % d \in 0 .. d - 1 /\ a \div d \in Nat
  BY DivMod
<1> QED BY <1>1

-----------------------------------------------------------------------------
(* The chunks of get_chunk                                                 *)

\* One chunk ends where the next begins, and the chunks cover everything.
LEMMA ChunkEnds ==
    ASSUME NEW length \in Nat, NEW n \in Nat \ {0}
    PROVE  /\ ChunkBegin(length, n, 0) = 0
           /\ ChunkEnd(length, n, n - 1) = length
           /\ \A i \in Nat : ChunkEnd(length, n, i) = ChunkBegin(length, n, i + 1)
           /\ \A i \in Nat : ChunkBegin(length, n, i) \in Nat /\ ChunkEnd(length, n, i) \in Nat
<1> DEFINE q == length \div n
           r == length % n
<1>1. q \in Nat /\ r \in 0 .. n - 1 /\ length = n * q + r
  BY DivMod
<1> HIDE DEF q, r
<1>2. \A i \in Nat : ChunkBegin(length, n, i) = (i * q) + Least(i, r)
  BY DEF ChunkBegin, q, r
<1>3. \A i \in Nat : ChunkEnd(length, n, i) = ((i + 1) * q) + Least(i + 1, r)
  BY DEF ChunkEnd, q, r
<1>4. \A i \in Nat : i * q \in Nat /\ Least(i, r) \in Nat
  BY <1>1 DEF Least
<1>5. ChunkBegin(length, n, 0) = 0
  BY <1>1, <1>2 DEF Least
<1>6. ChunkEnd(length, n, n - 1) = length
  BY <1>1, <1>3 DEF Least
<1>7. \A i \in Nat : ChunkEnd(length, n, i) = ChunkBegin(length, n, i + 1)
  BY <1>2, <1>3
<1>8. \A i \in Nat : ChunkBegin(length, n, i) \in Nat
  BY <1>2, <1>4
<1>9. \A i \in Nat : ChunkEnd(length, n, i) \in Nat
  BY <1>7, <1>8
<1> QED BY <1>5, <1>6, <1>7, <1>8, <1>9

\* An earlier chunk ends before a later one begins.
LEMMA ChunksOrdered ==
    ASSUME NEW length \in Nat, NEW n \in Nat \ {0}, NEW i \in Nat, NEW j \in Nat, i <= j
    PROVE  ChunkBegin(length, n, i) <= ChunkBegin(length, n, j)
<1> DEFINE q == length \div n
           r == length % n
<1>1. q \in Nat /\ r \in Nat
  BY DivMod
<1> HIDE DEF q, r
<1>2. i * q <= j * q /\ i * q \in Nat /\ j * q \in Nat
  BY <1>1, TimesMonotone
<1>3. Least(i, r) <= Least(j, r) /\ Least(i, r) \in Nat /\ Least(j, r) \in Nat
  BY <1>1 DEF Least
<1> QED BY <1>2, <1>3 DEF ChunkBegin, q, r

\* No operation is in two threads' chunks.
THEOREM ChunksDisjoint ==
    ASSUME NEW length \in Nat, NEW n \in Nat \ {0}, NEW i \in Nat, NEW j \in Nat, i # j,
           NEW p \in Int,
           ChunkBegin(length, n, i) < p, p <= ChunkEnd(length, n, i),
           ChunkBegin(length, n, j) < p, p <= ChunkEnd(length, n, j)
    PROVE  FALSE
<1>1. CASE i < j
  <2>1. ChunkBegin(length, n, i + 1) <= ChunkBegin(length, n, j)
    BY <1>1, ChunksOrdered
  <2> QED BY <2>1, ChunkEnds
<1>2. CASE j < i
  <2>1. ChunkBegin(length, n, j + 1) <= ChunkBegin(length, n, i)
    BY <1>2, ChunksOrdered
  <2> QED BY <2>1, ChunkEnds
<1> QED BY <1>1, <1>2

\* Every operation is in some thread's chunk: the longer chunks, of q + 1
\* operations, come first.
THEOREM ChunksCover ==
    ASSUME NEW length \in Nat, NEW n \in Nat \ {0}, NEW p \in 1 .. length
    PROVE  \E i \in 0 .. n - 1 : ChunkBegin(length, n, i) < p /\ p <= ChunkEnd(length, n, i)
<1> DEFINE q == length \div n
           r == length % n
<1>1. q \in Nat /\ r \in 0 .. n - 1 /\ length = n * q + r
  BY DivMod
<1> HIDE DEF q, r
<1>2. \A i \in Nat : ChunkBegin(length, n, i) = (i * q) + Least(i, r)
  BY DEF ChunkBegin, q, r
<1>3. \A i \in Nat : ChunkEnd(length, n, i) = ((i + 1) * q) + Least(i + 1, r)
  BY DEF ChunkEnd, q, r
<1>4. CASE p - 1 < r * (q + 1)
  <2> DEFINE i == (p - 1) \div (q + 1)
  <2>1. i \in Nat /\ i * (q + 1) <= p - 1 /\ p - 1 < (i + 1) * (q + 1)
    <3>1. p - 1 \in Nat /\ q + 1 \in Nat \ {0}
      BY <1>1
    <3> QED BY <3>1, DivBounds, DivMod
  <2> HIDE DEF i
  <2>2. i < r
    <3>1. SUFFICES ASSUME r <= i PROVE FALSE
      BY <1>1, <2>1
    <3>2. r * (q + 1) <= i * (q + 1)
      BY <1>1, <2>1, <3>1, TimesMonotone
    <3>3. r * (q + 1) \in Nat /\ i * (q + 1) \in Nat
      BY <1>1, <2>1
    <3> QED BY <1>4, <2>1, <3>2, <3>3
  <2>3. Least(i, r) = i /\ Least(i + 1, r) = i + 1
    BY <1>1, <2>1, <2>2 DEF Least
  <2>4. ChunkBegin(length, n, i) = i * (q + 1) /\ ChunkEnd(length, n, i) = (i + 1) * (q + 1)
    BY <1>1, <1>2, <1>3, <2>1, <2>3
  <2> QED BY <1>1, <2>1, <2>2, <2>4
<1>5. CASE ~(p - 1 < r * (q + 1))
  <2>1. r * (q + 1) \in Nat /\ r * (q + 1) = (r * q) + r /\ r * q \in Nat
    BY <1>1
  <2>2. q > 0
    <3>1. SUFFICES ASSUME q = 0 PROVE FALSE
      BY <1>1
    <3>2. n * q = 0 /\ r * q = 0
      BY <1>1, <3>1
    <3> QED BY <1>1, <1>5, <2>1, <3>2
  <2> DEFINE a == p - 1 - r
             i == a \div q
  <2>3. a \in Nat /\ r * q <= a /\ a < n * q
    BY <1>1, <1>5, <2>1
  <2> HIDE DEF a
  <2>4. i \in Nat /\ i * q <= a /\ a < (i + 1) * q
    BY <1>1, <2>2, <2>3, DivBounds, DivMod
  <2> HIDE DEF i
  <2>5. i < n
    <3>1. SUFFICES ASSUME n <= i PROVE FALSE
      BY <2>4
    <3>2. n * q <= i * q
      BY <1>1, <2>4, <3>1, TimesMonotone
    <3>3. n * q \in Nat /\ i * q \in Nat
      BY <1>1, <2>4
    <3> QED BY <2>3, <2>4, <3>2, <3>3
  <2>6. i >= r
    <3>1. SUFFICES ASSUME i + 1 <= r PROVE FALSE
      BY <1>1, <2>4
    <3>2. (i + 1) * q <= r * q
      BY <1>1, <2>4, <3>1, TimesMonotone
    <3>3. (i + 1) * q \in Nat
      BY <1>1, <2>4
    <3> QED BY <2>1, <2>3, <2>4, <3>2, <3>3
  <2>7. ChunkBegin(length, n, i) = (i * q) + r /\ ChunkEnd(length, n, i) = ((i + 1) * q) + r
    <3>1. Least(i, r) = r /\ Least(i + 1, r) = r
      BY <1>1, <2>4, <2>6 DEF Least
    <3> QED BY <1>2, <1>3, <2>4, <3>1
  <2>8. i * q \in Nat /\ (i + 1) * q \in Nat
    BY <1>1, <2>4
  <2> QED BY <1>1, <2>3, <2>4, <2>5, <2>7, <2>8 DEF a
<1> QED BY <1>4, <1>5

-----------------------------------------------------------------------------
(* Servers and keys                                                        *)

LEMMA KeysPerNodeType == KeysPerNode \in Nat \ {0}
<1>1. KeysPerNode \in Nat /\ NumKeys < (KeysPerNode + 1) * NumNodes
  BY DivMod, DivBounds, WorkloadIsSane DEF KeysPerNode
<1>2. KeysPerNode # 0
  BY <1>1, WorkloadIsSane
<1> QED BY <1>1, <1>2

LEMMA HomeIsNode == ASSUME NEW k \in Keys PROVE Home(k) \in Nodes
<1> k \in Nat
  BY DEF Keys
<1>1. k \div KeysPerNode \in Nat
  BY DivMod, KeysPerNodeType
<1>2. (k \div KeysPerNode) % NumNodes \in 0 .. NumNodes - 1
  BY <1>1, DivMod, WorkloadIsSane
<1> QED BY <1>2, WorkloadIsSane DEF Home, Nodes

\* For every number of keys and servers, a key is preloaded by its home exactly
\* if it is not displaced.
THEOREM HomePreloads ==
    ASSUME NEW k \in Keys
    PROVE  Preloads(Home(k) - 1, k) <=> ~Displaced(k)
<1> DEFINE q == KeysPerNode
           r == NumKeys % NumNodes
           a == k \div q
           p == k % q
           N == NumNodes
<1>1. /\ q \in Nat \ {0} /\ N \in Nat \ {0} /\ r \in 0 .. N - 1 /\ k \in Nat
      /\ NumKeys = N * q + r
  BY DivMod, WorkloadIsSane, KeysPerNodeType DEF KeysPerNode, Keys
<1>2. a \in Nat /\ p \in 0 .. q - 1 /\ k = q * a + p
  BY <1>1, DivMod
<1>3. Home(k) - 1 = a % N /\ a % N \in 0 .. N - 1
  <2>1. Home(k) = (a % N) + 1
    BY DEF Home
  <2> HIDE DEF a, N
  <2>2. a % N \in 0 .. N - 1
    BY <1>1, <1>2, DivMod
  <2> QED BY <1>1, <2>1, <2>2
<1>4. Displaced(k) <=> p * N < a * r \/ k >= N * q
  BY DEF Displaced
<1>5. Preloads(Home(k) - 1, k) <=>
          (a % N) * NumKeys <= k * N /\ k * N < ((a % N) + 1) * NumKeys
  BY <1>3 DEF Preloads
<1> HIDE DEF q, r, a, p, N
<1>6. CASE a < N
  <2>1. a % N = a
    BY <1>1, <1>2, <1>6
  <2>2. k < N * q
    <3>1. (a + 1) * q <= N * q
      BY <1>1, <1>2, <1>6, TimesMonotone
    <3>2. (a + 1) * q = q * a + q /\ q * a \in Nat /\ N * q \in Nat
      BY <1>1, <1>2
    <3> QED BY <1>2, <3>1, <3>2, <1>1
  <2>3. k * N = (q * a) * N + p * N /\ a * NumKeys = (q * a) * N + a * r
        /\ (a + 1) * NumKeys = (q * a) * N + a * r + NumKeys
    BY <1>1, <1>2
  <2>4. (q * a) * N \in Nat /\ p * N \in Nat /\ a * r \in Nat /\ N * q \in Nat
    BY <1>1, <1>2
  <2>5. p * N < N * q
    <3>1. (p + 1) * N <= q * N
      BY <1>1, <1>2, TimesMonotone
    <3>2. (p + 1) * N = p * N + N /\ q * N = N * q
      BY <1>1, <1>2
    <3> QED BY <1>1, <2>4, <3>1, <3>2
  <2>6. k * N < (a + 1) * NumKeys
    BY <1>1, <2>3, <2>4, <2>5
  <2>7. a * NumKeys <= k * N <=> ~(p * N < a * r)
    BY <2>3, <2>4
  <2>8. ~(k >= N * q)
    BY <1>1, <2>2, <2>4
  <2>9. Preloads(Home(k) - 1, k) <=> a * NumKeys <= k * N
    BY <1>5, <2>1, <2>6
  <2> QED BY <1>4, <2>7, <2>8, <2>9
<1>7. CASE N <= a
  <2> DEFINE s == a % N
             e == a \div N
  <2>0. a = N * e + s /\ e \in Nat /\ s \in 0 .. N - 1
    BY <1>1, <1>2, DivMod
  <2> HIDE DEF s, e
  <2>1. s \in Nat /\ s + 1 <= N /\ s + N <= a
    <3>1. e >= 1
      <4>1. CASE e = 0
        BY <1>1, <1>7, <2>0, <4>1
      <4> QED BY <2>0, <4>1
    <3>2. 1 * N <= e * N /\ e * N = N * e /\ e * N \in Nat
      BY <1>1, <2>0, <3>1, TimesMonotone
    <3> QED BY <1>1, <2>0, <3>2
  <2>2. k >= N * q
    <3>1. N * q <= a * q /\ a * q = q * a
      BY <1>1, <1>2, <1>7, TimesMonotone
    <3>2. N * q \in Nat /\ q * a \in Nat
      BY <1>1, <1>2
    <3> QED BY <1>2, <3>1, <3>2
  <2>3. (s + N) * q <= k
    <3>1. (s + N) * q <= a * q /\ a * q = q * a
      BY <1>1, <1>2, <2>1, TimesMonotone
    <3>2. (s + N) * q \in Nat /\ q * a \in Nat
      BY <1>1, <1>2, <2>1
    <3> QED BY <1>2, <3>1, <3>2
  <2>4. ((s + N) * q) * N <= k * N
    <3>1. (s + N) * q \in Nat
      BY <1>1, <2>1
    <3> QED BY <1>1, <2>3, <3>1, TimesMonotone
  <2>5. (s + 1) * r <= (N - 1) * (q * N)
    <3>1. (s + 1) * r <= N * r /\ N * r = r * N
      BY <1>1, <2>1, TimesMonotone
    <3>2. r * N <= (N - 1) * N
      BY <1>1, TimesMonotone
    <3>3. N <= q * N
      <4>1. 1 * N <= q * N
        BY <1>1, TimesMonotone
      <4> QED BY <1>1, <4>1
    <3>4. N * (N - 1) <= (q * N) * (N - 1)
      BY <1>1, <3>3, TimesMonotone
    <3>5. N * (N - 1) = (N - 1) * N /\ (q * N) * (N - 1) = (N - 1) * (q * N)
      BY <1>1
    <3>6. /\ (s + 1) * r \in Nat /\ r * N \in Nat /\ (N - 1) * N \in Nat
          /\ (N - 1) * (q * N) \in Nat
      BY <1>1, <2>1
    <3> QED BY <3>1, <3>2, <3>4, <3>5, <3>6
  <2>6. /\ (s + 1) * NumKeys = (s + 1) * (N * q) + (s + 1) * r
        /\ ((s + N) * q) * N = (s + 1) * (N * q) + (N - 1) * (q * N)
    BY <1>1, <2>1
  <2>7. (s + 1) * (N * q) \in Nat /\ (s + 1) * r \in Nat /\ (N - 1) * (q * N) \in Nat
        /\ k * N \in Nat
    BY <1>1, <2>1
  <2>8. ~(k * N < (s + 1) * NumKeys)
    BY <2>4, <2>5, <2>6, <2>7
  <2>9. ~Preloads(Home(k) - 1, k)
    BY <1>5, <2>8 DEF s
  <2> QED BY <1>4, <2>2, <2>9
<1> QED BY <1>1, <1>2, <1>6, <1>7

-----------------------------------------------------------------------------
(* The operation file                                                      *)

\* Loading what was dumped gives the same operations.
THEOREM DumpThenLoad ==
    ASSUME NEW s \in Seq(Operation)
    PROVE  LoadOf(DumpOf(s)) = s
<1> DEFINE f == DumpOf(s)
<1>1. Len(s) \in Nat /\ s = [i \in 1 .. Len(s) |-> s[i]] /\ DOMAIN s = 1 .. Len(s)
  OBVIOUS
<1>2. Len(f) = 3 * Len(s)
  BY <1>1 DEF DumpOf
<1> HIDE DEF f
<1>3. Len(f) \div 3 = Len(s)
  <2>1. ASSUME NEW l \in Nat PROVE (3 * l) \div 3 = l
    OBVIOUS
  <2> QED BY <1>1, <1>2, <2>1
<1>4. ASSUME NEW i \in 1 .. Len(s)
      PROVE  [key |-> f[3 * i - 2], node |-> f[3 * i - 1], op |-> f[3 * i]] = s[i]
  <2>1. /\ 3 * i - 2 \in 1 .. 3 * Len(s)
        /\ 3 * i - 1 \in 1 .. 3 * Len(s)
        /\ 3 * i \in 1 .. 3 * Len(s)
    BY <1>1
  <2>2. /\ (3 * i - 2 - 1) \div 3 = i - 1 /\ (3 * i - 2 - 1) % 3 = 0
        /\ (3 * i - 1 - 1) \div 3 = i - 1 /\ (3 * i - 1 - 1) % 3 = 1
        /\ (3 * i - 1) \div 3 = i - 1 /\ (3 * i - 1) % 3 = 2
        /\ (i - 1) + 1 = i
    OBVIOUS
  <2>3. f[3 * i - 2] = s[i].key
    BY <2>1, <2>2 DEF DumpOf, f
  <2>4. f[3 * i - 1] = s[i].node
    BY <2>1, <2>2 DEF DumpOf, f
  <2>5. f[3 * i] = s[i].op
    <3> DEFINE c == (3 * i - 1) % 3
    <3>1. f[3 * i] = IF c = 0 THEN s[i].key ELSE IF c = 1 THEN s[i].node ELSE s[i].op
      BY <2>1, <2>2 DEF DumpOf, f
    <3>2. c = 2
      BY <2>2
    <3> HIDE DEF c
    <3> QED BY <3>1, <3>2
  <2>6. s[i] \in Operation
    OBVIOUS
  <2> QED BY <2>3, <2>4, <2>5, <2>6 DEF Operation
<1>5. LoadOf(f) = [i \in 1 .. Len(s) |-> [key |-> f[3 * i - 2], node |-> f[3 * i - 1], op |-> f[3 * i]]]
  BY <1>3 DEF LoadOf
<1>6. LoadOf(f) = [i \in 1 .. Len(s) |-> s[i]]
  BY <1>4, <1>5
<1> QED BY <1>1, <1>6 DEF f

-----------------------------------------------------------------------------
(* The generator's invariant                                               *)

\* The generators of the partitioned distributions send a key to its home.
OpsAtHome ==
    dist \in {"PARTITIONED", "ZIPFIAN_PARTITIONED"} =>
        \A i \in DOMAIN ops : ops[i].node = Home(ops[i].key)

WorkloadInv == WorkloadTypeOK /\ OpsAtHome /\ FileHoldsOps

LEMMA PercentBound ==
    ASSUME NEW p \in 0 .. 100, NEW x \in Nat
    PROVE  (p * x) \div 100 \in 0 .. x
<1>1. p * x <= 100 * x /\ p * x \in Nat
  BY TimesMonotone
<1> DEFINE y == p * x
<1> HIDE DEF y
<1>2. y \in Nat /\ y <= 100 * x
  BY <1>1 DEF y
<1>3. y \div 100 \in Nat /\ y \div 100 <= x
  BY <1>2
<1> QED BY <1>3 DEF y

LEMMA HotSetsAreKeys ==
    ASSUME NEW d, NEW p \in HotPercents, NEW S \in HotSets(d, p)
    PROVE  S \subseteq Keys
<1>1. CASE d \in Shuffled
  BY <1>1 DEF HotSets
<1>2. CASE d \notin Shuffled
  <2>1. StartIdx \in Nat /\ EndIdx \in Nat /\ StartIdx <= EndIdx /\ EndIdx <= NumKeys
    BY WorkloadIsSane DEF StartIdx, EndIdx
  <2>2. EndIdx - StartIdx \in Nat /\ p \in 0 .. 100
    BY <2>1, WorkloadIsSane
  <2> DEFINE hots == (p * (EndIdx - StartIdx)) \div 100
  <2>3. hots \in 0 .. EndIdx - StartIdx
    BY <2>2, PercentBound
  <2> HIDE DEF hots
  <2>4. StartIdx + 1 .. StartIdx + hots \subseteq Keys
    BY <2>1, <2>3, WorkloadIsSane DEF Keys
  <2> QED BY <1>2, <2>4 DEF HotSets, hots
<1> QED BY <1>1, <1>2

LEMMA SizeBound == Size \in Nat /\ Size <= TotalOps /\ (dist = "SPLIT" /\ Size > 0 => OpsPerThread \in Nat \ {0})
<1>1. TotalThreads \in Nat \ {0}
  BY WorkloadIsSane DEF TotalThreads
<1>2. OpsPerThread \in Nat /\ OpsPerThread * TotalThreads <= TotalOps
  BY <1>1, DivMod, DivBounds, WorkloadIsSane DEF OpsPerThread
<1>3. OpsPerThread * TotalThreads \in Nat /\ (OpsPerThread = 0 => OpsPerThread * TotalThreads = 0)
  BY <1>1, <1>2
<1> QED BY <1>2, <1>3, WorkloadIsSane DEF Size

LEMMA PushKeepsInv ==
    ASSUME WorkloadInv, generator = "on", Len(ops) < Size, NEW k \in Keys, NEW n \in Nodes,
           NEW o \in {ReadOp, NoOp}, Push(k, n, o), threads' \subseteq threads,
           dist \in {"PARTITIONED", "ZIPFIAN_PARTITIONED"} => n = Home(k)
    PROVE  WorkloadInv'
<1> DEFINE new == [key |-> k, node |-> n, op |-> o]
<1>1. new \in Operation /\ ops' = Append(ops, new) /\ ops \in Seq(Operation)
  BY DEF Push, Operation, WorkloadInv, WorkloadTypeOK
<1>2. ops' \in Seq(Operation) /\ Len(ops') = Len(ops) + 1 /\ DOMAIN ops' = 1 .. Len(ops) + 1
  BY <1>1
<1>3. WorkloadTypeOK'
  BY <1>2, SizeBound, WorkloadIsSane DEF Push, WorkloadInv, WorkloadTypeOK
<1>4. OpsAtHome'
  <2>1. SUFFICES ASSUME dist \in {"PARTITIONED", "ZIPFIAN_PARTITIONED"},
                        NEW i \in 1 .. Len(ops) + 1
                 PROVE  ops'[i].node = Home(ops'[i].key)
    BY <1>2 DEF Push, OpsAtHome
  <2>2. CASE i = Len(ops) + 1
    BY <1>1, <2>1, <2>2
  <2>3. CASE i # Len(ops) + 1
    <3>1. i \in DOMAIN ops /\ ops'[i] = ops[i]
      BY <1>1, <2>3
    <3> QED BY <2>1, <3>1 DEF WorkloadInv, OpsAtHome
  <2> QED BY <2>2, <2>3
<1>5. FileHoldsOps'
  BY DEF Push, FileHoldsOps
<1> QED BY <1>3, <1>4, <1>5 DEF WorkloadInv

LEMMA OpsAreOperations ==
    ASSUME WorkloadInv, NEW i \in DOMAIN ops
    PROVE  ops[i].key \in Keys /\ ops[i].node \in Nodes
<1>1. ops \in Seq(Operation)
  BY DEF WorkloadInv, WorkloadTypeOK
<1>2. ops[i] \in Operation
  BY <1>1
<1> QED BY <1>2 DEF Operation

LEMMA DrawnAreKeys == ASSUME WorkloadTypeOK PROVE Drawn \subseteq Keys
BY DEF Drawn, WorkloadTypeOK

LEMMA InitWorkloadInv == WorkloadInit => WorkloadInv
BY WorkloadIsSane DEF WorkloadInit, WorkloadInv, WorkloadTypeOK, OpsAtHome, FileHoldsOps

LEMMA DumpIsInts == ASSUME NEW s \in Seq(Operation) PROVE DumpOf(s) \in Seq(Int)
<1>1. ASSUME NEW j \in 1 .. 3 * Len(s)
      PROVE  DumpOf(s)[j] \in Int
  <2>1. ((j - 1) \div 3) + 1 \in 1 .. Len(s)
    OBVIOUS
  <2>2. s[((j - 1) \div 3) + 1] \in Operation
    BY <2>1
  <2> QED BY <2>2 DEF DumpOf, Operation, Keys, Nodes, ReadOp, NoOp
<1>2. DumpOf(s) = [j \in 1 .. 3 * Len(s) |-> DumpOf(s)[j]]
  BY DEF DumpOf
<1>3. 3 * Len(s) \in Nat
  OBVIOUS
<1> QED BY <1>1, <1>2, <1>3

LEMMA GenerateWorkloadInv ==
    ASSUME WorkloadInv, Generate
    PROVE  WorkloadInv'
<1> USE DEF Drawing
<1>1. ASSUME StartGenerator PROVE WorkloadInv'
  BY <1>1, HotSetsAreKeys DEF StartGenerator, WorkloadInv, WorkloadTypeOK, OpsAtHome, FileHoldsOps
<1>2. ASSUME DumpOperations PROVE WorkloadInv'
  BY <1>2, DumpIsInts, DumpThenLoad
     DEF DumpOperations, WorkloadInv, WorkloadTypeOK, OpsAtHome, FileHoldsOps
<1>3. ASSUME DrawFromNothing PROVE WorkloadInv'
  BY <1>3 DEF DrawFromNothing, WorkloadInv, WorkloadTypeOK, OpsAtHome, FileHoldsOps
<1>4. ASSUME GenerateRandom PROVE WorkloadInv'
  BY <1>4, PushKeepsInv DEF GenerateRandom
<1>5. ASSUME GeneratePartitioned PROVE WorkloadInv'
  <2>1. Len(ops) \in Nat
    BY DEF WorkloadInv, WorkloadTypeOK
  <2>2. Len(ops) % NumKeys \in 0 .. NumKeys - 1
    BY <2>1, DivMod, WorkloadIsSane
  <2>3. (Len(ops) % NumKeys) + 1 \in Keys
    BY <2>2, WorkloadIsSane DEF Keys
  <2> QED BY <1>5, <2>3, HomeIsNode, PushKeepsInv DEF GeneratePartitioned
<1>6. ASSUME GenerateZipfian PROVE WorkloadInv'
  BY <1>6, DrawnAreKeys, PushKeepsInv DEF GenerateZipfian, WorkloadInv
<1>7. ASSUME GenerateZipfianPartitioned PROVE WorkloadInv'
  BY <1>7, DrawnAreKeys, HomeIsNode, PushKeepsInv DEF GenerateZipfianPartitioned, WorkloadInv
<1>8. ASSUME SingleNodeHotSetData PROVE WorkloadInv'
  BY <1>8, DrawnAreKeys, PushKeepsInv DEF SingleNodeHotSetData, WorkloadInv
<1>9. ASSUME ToSecondNodeOnly PROVE WorkloadInv'
  <2>1. 2 \in Nodes
    BY <1>9, DistributionsFit, WorkloadIsSane
       DEF ToSecondNodeOnly, WorkloadInv, WorkloadTypeOK, Nodes
  <2> QED BY <1>9, <2>1, DrawnAreKeys, PushKeepsInv DEF ToSecondNodeOnly, WorkloadInv
<1>10. ASSUME ToSecondNodeOnlyRDMA PROVE WorkloadInv'
  <2>1. 1 \in Nodes
    BY WorkloadIsSane DEF Nodes
  <2> QED BY <1>10, <2>1, DrawnAreKeys, PushKeepsInv DEF ToSecondNodeOnlyRDMA, WorkloadInv
<1>11. ASSUME To80SecondNode20Other PROVE WorkloadInv'
  <2>1. {1, 2, 3} \subseteq Nodes /\ hot \subseteq Keys /\ dist = "SPLIT"
    BY <1>11, DistributionsFit, WorkloadIsSane
       DEF To80SecondNode20Other, WorkloadInv, WorkloadTypeOK, Nodes
  <2>2. CASE Len(ops) % OpsPerThread = 0
    <3>1. PICK id \in threads, k \in hot, n \in {1, 2, 3} :
              threads' = threads \ {id} /\ Push(k, n, NoOp)
      BY <1>11, <2>2 DEF To80SecondNode20Other
    <3> QED BY <1>11, <2>1, <3>1, PushKeepsInv DEF To80SecondNode20Other
  <2>3. CASE Len(ops) % OpsPerThread # 0
    <3>1. Len(ops) \in Nat /\ OpsPerThread \in Nat \ {0}
      BY <1>11, <2>1, SizeBound DEF To80SecondNode20Other, WorkloadInv, WorkloadTypeOK
    <3>2. Len(ops) # 0
      BY <2>3, <3>1
    <3>3. ops[Len(ops)].node \in Nodes
      <4>1. Len(ops) \in DOMAIN ops
        BY <3>1, <3>2 DEF WorkloadInv, WorkloadTypeOK
      <4> QED BY <4>1, OpsAreOperations
    <3>4. PICK k \in hot : Push(k, ops[Len(ops)].node, NoOp) /\ threads' = threads
      BY <1>11, <2>3 DEF To80SecondNode20Other
    <3> QED BY <1>11, <2>1, <3>3, <3>4, PushKeepsInv DEF To80SecondNode20Other
  <2> QED BY <2>2, <2>3
<1> QED BY <1>1, <1>2, <1>3, <1>4, <1>5, <1>6, <1>7, <1>8, <1>9, <1>10, <1>11 DEF Generate

LEMMA StutterWorkloadInv == WorkloadInv /\ UNCHANGED workloadVars => WorkloadInv'
BY DEF workloadVars, WorkloadInv, WorkloadTypeOK, OpsAtHome, FileHoldsOps

\* The invariant gives the routing property of the runs.
LEMMA InvGivesHome == WorkloadInv => OnlyDisplacedMiss
<1> SUFFICES ASSUME WorkloadInv, dist \in Partitioned, NEW i \in DOMAIN ops
             PROVE  Preloads(ops[i].node - 1, ops[i].key) <=> ~Displaced(ops[i].key)
  BY DEF OnlyDisplacedMiss
<1>1. ops[i].key \in Keys /\ ops[i].node = Home(ops[i].key)
  BY OpsAreOperations DEF WorkloadInv, OpsAtHome, Partitioned
<1> QED BY <1>1, HomePreloads

-----------------------------------------------------------------------------
(* The barriers                                                            *)

BarrierTypeOK ==
    /\ at \in [Machines -> [Threads -> Places]]
    /\ ready \in [Machines -> Nat]
    /\ done \in [Machines -> Nat]
    /\ workload \in [Machines -> {"idle", "ready", "done"}]
    /\ round \in [Machines -> 0 .. 2]
    /\ syncs \in [Machines -> [Machines -> Nat]]
    /\ acks \in [Machines -> SUBSET Machines]
    /\ received \in [Machines -> 0 .. NumOthers]

Arrived(m) == {t \in Threads : at[m][t] # "new"}

\* The thread has counted itself in total_clients_done.
Past(m) ==
    {t \in Threads : at[m][t] \in {"done", "end"} \/ (t = Leader /\ round[m] = 2)}

\* The counters count, and the leader goes on only when they are complete.
Counted == \A m \in Machines :
    /\ ready[m] = Cardinality(Arrived(m))
    /\ done[m] = Cardinality(Past(m))
    /\ at[m][Leader] \notin {"new", "ready"} => ready[m] = NumThreads
    /\ round[m] = 2 => done[m] = NumThreads

\* Where the leader is in which round.
LeaderPlace == \A m \in Machines :
    /\ at[m][Leader] \in {"new", "ready", "listening"} => round[m] = 0
    /\ at[m][Leader] = "sync" =>
           \/ round[m] = 1 /\ workload[m] = "idle"
           \/ round[m] = 2 /\ workload[m] = "ready"
    /\ at[m][Leader] = "synced" =>
           \/ round[m] = 1 /\ workload[m] = "ready"
           \/ round[m] = 2 /\ workload[m] = "done"
    /\ at[m][Leader] \in {"work", "get", "done"} => round[m] = 1 /\ workload[m] = "ready"
    /\ at[m][Leader] = "end" => round[m] = 2 /\ workload[m] = "done"
    /\ round[m] = 0 => workload[m] = "idle"
    /\ workload[m] = "done" => round[m] = 2

\* The other threads follow the flags their leader sets.
ThreadPlace == \A m \in Machines : \A t \in Threads \ {Leader} :
    /\ at[m][t] \notin {"listening", "sync", "synced"}
    /\ at[m][t] \in {"work", "get", "done", "end"} => workload[m] # "idle"
    /\ at[m][t] = "end" => workload[m] = "done"

\* What a machine took off its channel from another was sent: as many sync
\* requests as rounds of its own that the other acknowledged.
Consumed(n, m) == round[n] - syncs[n][m]

Acknowledged == \A m \in Machines :
    /\ acks[m] \subseteq Others(m) /\ syncs[m][m] = 0
    /\ \A n \in Others(m) :
        /\ syncs[n][m] <= round[n]
        /\ n \in acks[m] => Consumed(n, m) >= round[m]
        /\ workload[m] # "idle" => Consumed(n, m) >= 1
        /\ workload[m] = "done" => Consumed(n, m) >= 2

BarrierInv == BarrierTypeOK /\ Counted /\ LeaderPlace /\ ThreadPlace /\ Acknowledged

LEMMA ThreadsAreFinite ==
    /\ Leader \in Threads
    /\ IsFiniteSet(Threads) /\ Cardinality(Threads) = NumThreads
    /\ \A m \in Machines : /\ IsFiniteSet(Others(m)) /\ Cardinality(Others(m)) = NumOthers
                          /\ NumOthers \in Nat
<1>1. Leader \in Threads /\ NumThreads - 1 \in Int /\ NumThreads - 1 >= 0
  BY SizesAreSane DEF Leader, Threads
<1>2. IsFiniteSet(Threads) /\ Cardinality(Threads) = NumThreads
  BY <1>1, SizesAreSane, FS_Interval DEF Threads
<1>3. ASSUME NEW m \in Machines
      PROVE  /\ IsFiniteSet(Others(m)) /\ Cardinality(Others(m)) = NumOthers
             /\ NumOthers \in Nat
  <2>1. IsFiniteSet(Others(m)) /\ Cardinality(Others(m)) = NumOthers
    BY SizesAreSane, FS_RemoveElement DEF Others, NumOthers
  <2> QED BY <2>1, FS_CardinalityType
<1> QED BY <1>1, <1>2, <1>3

LEMMA GoEffect ==
    ASSUME BarrierTypeOK, NEW m \in Machines, NEW t \in Threads, NEW p \in Places, Go(m, t, p)
    PROVE  /\ at' \in [Machines -> [Threads -> Places]]
           /\ at'[m][t] = p
           /\ \A n \in Machines, u \in Threads : (n # m \/ u # t) => at'[n][u] = at[n][u]
BY DEF Go, BarrierTypeOK

\* A step that leaves the counters alone and neither makes its thread arrive
\* nor takes it past its work.
LEMMA GoKeepsCounted ==
    ASSUME BarrierTypeOK, Counted, NEW m \in Machines, NEW t \in Threads, NEW p \in Places,
           Go(m, t, p), UNCHANGED <<ready, done, round>>,
           at[m][t] # "new", p # "new",
           t = Leader => at[m][t] # "ready" \/ ready[m] = NumThreads,
           (at[m][t] \in {"done", "end"} \/ (t = Leader /\ round[m] = 2))
               <=> (p \in {"done", "end"} \/ (t = Leader /\ round[m] = 2))
    PROVE  Counted'
<1>1. \A n \in Machines : Arrived(n)' = Arrived(n)
  BY GoEffect DEF Arrived
<1>2. \A n \in Machines : Past(n)' = Past(n)
  BY GoEffect DEF Past
<1>3. ASSUME NEW n \in Machines, at'[n][Leader] \notin {"new", "ready"}
      PROVE  ready[n] = NumThreads
  BY <1>3, GoEffect, ThreadsAreFinite DEF Counted
<1> QED BY <1>1, <1>2, <1>3 DEF Counted

LEMMA InitBarrierInv == Init => BarrierInv
<1> SUFFICES ASSUME Init PROVE BarrierInv
  OBVIOUS
<1>1. BarrierTypeOK
  BY ThreadsAreFinite DEF Init, BarrierTypeOK, Places
<1>2. \A m \in Machines : Arrived(m) = {} /\ Past(m) = {}
  BY DEF Init, Arrived, Past
<1>3. Counted
  <2>1. Cardinality({}) = 0
    BY FS_EmptySet
  <2>2. \A m \in Machines : ready[m] = 0 /\ done[m] = 0 /\ round[m] = 0 /\ at[m][Leader] = "new"
    BY ThreadsAreFinite DEF Init
  <2>3. ASSUME NEW m \in Machines
        PROVE  ready[m] = Cardinality(Arrived(m)) /\ done[m] = Cardinality(Past(m))
    <3>1. Arrived(m) = {} /\ Past(m) = {}
      BY <1>2
    <3> QED BY <2>1, <2>2, <3>1
  <2> QED BY <2>2, <2>3 DEF Counted
<1>4. LeaderPlace /\ ThreadPlace
  BY ThreadsAreFinite DEF Init, LeaderPlace, ThreadPlace
<1>5. Acknowledged
  BY DEF Init, Acknowledged, Consumed, Others
<1> QED BY <1>1, <1>3, <1>4, <1>5 DEF BarrierInv

\* Steps that change nothing of the barriers.
LEMMA BarrierStutter ==
    ASSUME BarrierInv, UNCHANGED <<at, barrierVars, syncVars>>
    PROVE  BarrierInv'
<1> USE DEF barrierVars, syncVars
<1>1. BarrierTypeOK'
  BY DEF BarrierInv, BarrierTypeOK
<1>2. \A m \in Machines : Arrived(m)' = Arrived(m) /\ Past(m)' = Past(m)
  BY DEF Arrived, Past
<1>3. Counted'
  BY <1>2 DEF BarrierInv, Counted
<1>4. LeaderPlace' /\ ThreadPlace'
  BY DEF BarrierInv, LeaderPlace, ThreadPlace
<1>5. Acknowledged'
  BY DEF BarrierInv, Acknowledged, Consumed
<1> QED BY <1>1, <1>3, <1>4, <1>5 DEF BarrierInv

\* Steps of a thread that leave everything but its place alone.
LEMMA GoKeepsBarrierInv ==
    ASSUME BarrierInv, NEW m \in Machines, NEW t \in Threads, NEW p \in Places,
           Go(m, t, p), UNCHANGED <<barrierVars, syncVars>>,
           at[m][t] # "new", p # "new",
           t = Leader => at[m][t] # "ready" \/ ready[m] = NumThreads,
           (at[m][t] \in {"done", "end"} \/ (t = Leader /\ round[m] = 2))
               <=> (p \in {"done", "end"} \/ (t = Leader /\ round[m] = 2)),
           t = Leader => /\ p \in {"listening", "work", "get", "end", "panic"}
                         /\ p = "listening" => round[m] = 0
                         /\ p \in {"work", "get"} => round[m] = 1 /\ workload[m] = "ready"
                         /\ p = "end" => round[m] = 2 /\ workload[m] = "done",
           t # Leader => /\ p \notin {"listening", "sync", "synced"}
                         /\ p \in {"work", "get", "done", "end"} => workload[m] # "idle"
                         /\ p = "end" => workload[m] = "done"
    PROVE  BarrierInv'
<1> USE DEF barrierVars, syncVars
<1>1. BarrierTypeOK'
  BY GoEffect DEF BarrierInv, BarrierTypeOK
<1>2. Counted'
  BY GoKeepsCounted DEF BarrierInv
<1>3. LeaderPlace'
  BY GoEffect, ThreadsAreFinite DEF BarrierInv, LeaderPlace
<1>4. ThreadPlace'
  BY GoEffect DEF BarrierInv, ThreadPlace
<1>5. Acknowledged'
  BY DEF BarrierInv, Acknowledged, Consumed
<1> QED BY <1>1, <1>2, <1>3, <1>4, <1>5 DEF BarrierInv

LEMMA MessageNumbers ==
    ASSUME BarrierTypeOK, NEW m \in Machines, NEW n \in Others(m)
    PROVE  /\ n \in Machines /\ syncs[n][m] \in Int /\ round[n] \in Int
           /\ round[m] \in Int /\ Consumed(n, m) \in Int
<1>1. n \in Machines
  BY DEF Others
<1>2. syncs[n][m] \in Nat /\ round[n] \in 0 .. 2 /\ round[m] \in 0 .. 2
  BY <1>1 DEF BarrierTypeOK
<1> QED BY <1>1, <1>2 DEF Consumed

LEMMA PartsAreFinite ==
    ASSUME NEW m \in Machines
    PROVE  /\ Arrived(m) \subseteq Threads /\ Past(m) \subseteq Threads
           /\ IsFiniteSet(Arrived(m)) /\ IsFiniteSet(Past(m))
           /\ Cardinality(Arrived(m)) = NumThreads => Arrived(m) = Threads
           /\ Cardinality(Past(m)) = NumThreads => Past(m) = Threads
<1>1. Arrived(m) \subseteq Threads /\ Past(m) \subseteq Threads
  BY DEF Arrived, Past
<1> QED BY <1>1, ThreadsAreFinite, FS_Subset

LEMMA ThreadReadyKeeps ==
    ASSUME BarrierInv, NEW m \in Machines, NEW t \in Threads, ThreadReady(m, t)
    PROVE  BarrierInv'
<1> USE DEF ThreadReady, syncVars
<1>1. BarrierTypeOK'
  BY DEF Go, BarrierInv, BarrierTypeOK, Places
<1> "ready" \in Places
  BY DEF Places
<1> BarrierTypeOK
  BY DEF BarrierInv
<1>2. Counted'
  <2>1. \A n \in Machines : Past(n)' = Past(n)
    BY GoEffect DEF Past
  <2>2. \A n \in Machines : n # m => Arrived(n)' = Arrived(n)
    BY GoEffect DEF Arrived
  <2>3. Arrived(m)' = Arrived(m) \union {t} /\ t \notin Arrived(m)
    BY GoEffect DEF Arrived
  <2>4. Cardinality(Arrived(m)') = Cardinality(Arrived(m)) + 1
    BY <2>3, PartsAreFinite, FS_AddElement
  <2>5. ready'[m] = Cardinality(Arrived(m)')
    BY <2>4 DEF BarrierInv, BarrierTypeOK, Counted
  <2>6. \A n \in Machines : n # m => ready'[n] = ready[n]
    BY DEF BarrierTypeOK
  <2>7. at'[m][Leader] \in {"new", "ready"}
    <3>1. ready[m] # NumThreads
      BY <2>3, PartsAreFinite DEF BarrierInv, Counted
    <3>2. at[m][Leader] \in {"new", "ready"}
      BY <3>1 DEF BarrierInv, Counted
    <3> QED BY <3>2, GoEffect, ThreadsAreFinite
  <2>8. ASSUME NEW n \in Machines, at'[n][Leader] \notin {"new", "ready"}
        PROVE  ready'[n] = NumThreads
    BY <2>6, <2>7, <2>8, GoEffect, ThreadsAreFinite DEF BarrierInv, Counted
  <2> QED BY <2>1, <2>2, <2>5, <2>6, <2>8 DEF BarrierInv, Counted
<1>3. LeaderPlace'
  BY GoEffect, ThreadsAreFinite DEF BarrierInv, LeaderPlace
<1>4. ThreadPlace'
  BY GoEffect DEF BarrierInv, ThreadPlace
<1>5. Acknowledged'
  BY DEF BarrierInv, Acknowledged, Consumed
<1> QED BY <1>1, <1>2, <1>3, <1>4, <1>5 DEF BarrierInv

LEMMA ThreadDoneKeeps ==
    ASSUME BarrierInv, NEW m \in Machines, NEW t \in Threads, ThreadDone(m, t)
    PROVE  BarrierInv'
<1> USE DEF ThreadDone, syncVars
<1>1. BarrierTypeOK'
  BY DEF Go, BarrierInv, BarrierTypeOK, Places
<1> "done" \in Places
  BY DEF Places
<1> BarrierTypeOK
  BY DEF BarrierInv
<1>2. Counted'
  <2>1. \A n \in Machines : Arrived(n)' = Arrived(n)
    BY GoEffect DEF Arrived
  <2>2. \A n \in Machines : n # m => Past(n)' = Past(n)
    BY GoEffect DEF Past
  <2>3. t \notin Past(m)
    BY ThreadsAreFinite DEF Past, BarrierInv, LeaderPlace
  <2>4. Past(m)' = Past(m) \union {t}
    BY GoEffect DEF Past
  <2>5. Cardinality(Past(m)') = Cardinality(Past(m)) + 1
    BY <2>3, <2>4, PartsAreFinite, FS_AddElement
  <2>6. done'[m] = Cardinality(Past(m)')
    BY <2>5 DEF BarrierInv, BarrierTypeOK, Counted
  <2>7. \A n \in Machines : n # m => done'[n] = done[n]
    BY DEF BarrierTypeOK
  <2>8. round[m] # 2
    BY <2>3, PartsAreFinite DEF BarrierInv, Counted
  <2>9. ASSUME NEW n \in Machines, at'[n][Leader] \notin {"new", "ready"}
        PROVE  ready[n] = NumThreads
    BY <2>9, GoEffect, ThreadsAreFinite DEF BarrierInv, Counted
  <2> QED BY <2>1, <2>2, <2>6, <2>7, <2>8, <2>9 DEF BarrierInv, Counted
<1>3. LeaderPlace'
  BY GoEffect, ThreadsAreFinite DEF BarrierInv, LeaderPlace
<1>4. ThreadPlace'
  BY GoEffect DEF BarrierInv, ThreadPlace
<1>5. Acknowledged'
  BY DEF BarrierInv, Acknowledged, Consumed
<1> QED BY <1>1, <1>2, <1>3, <1>4, <1>5 DEF BarrierInv

LEMMA StartSyncKeeps ==
    ASSUME BarrierInv, NEW m \in Machines, StartSync(m)
    PROVE  BarrierInv'
<1> USE DEF StartSync, barrierVars
<1> "sync" \in Places
  BY DEF Places
<1> BarrierTypeOK /\ Leader \in Threads
  BY ThreadsAreFinite DEF BarrierInv
<1>1. \/ at[m][Leader] = "listening" /\ round[m] = 0 /\ workload[m] = "idle"
      \/ at[m][Leader] = "done" /\ done[m] = NumThreads /\ round[m] = 1 /\ workload[m] = "ready"
  BY DEF BarrierInv, LeaderPlace
<1>2. BarrierTypeOK'
  <2>1. round' \in [Machines -> 0 .. 2]
    BY <1>1 DEF BarrierTypeOK
  <2>2. syncs' \in [Machines -> [Machines -> Nat]]
    BY DEF BarrierTypeOK
  <2>3. received' \in [Machines -> 0 .. NumOthers]
    BY ThreadsAreFinite DEF BarrierTypeOK
  <2> QED BY <2>1, <2>2, <2>3, GoEffect DEF BarrierTypeOK
<1>3. \A n \in Machines : round'[n] = IF n = m THEN round[m] + 1 ELSE round[n]
  BY DEF BarrierTypeOK
<1>4. Counted'
  <2>1. \A n \in Machines : Arrived(n)' = Arrived(n)
    BY <1>1, GoEffect DEF Arrived
  <2>2. \A n \in Machines : Past(n)' = Past(n)
    BY <1>1, <1>3, GoEffect DEF Past
  <2>3. ASSUME NEW n \in Machines, at'[n][Leader] \notin {"new", "ready"}
        PROVE  ready[n] = NumThreads
    BY <1>1, <2>3, GoEffect DEF BarrierInv, Counted
  <2>4. ASSUME NEW n \in Machines, round'[n] = 2
        PROVE  done[n] = NumThreads
    BY <1>1, <1>3, <2>4 DEF BarrierInv, Counted
  <2> QED BY <2>1, <2>2, <2>3, <2>4 DEF BarrierInv, Counted
<1>5. LeaderPlace'
  BY <1>1, <1>3, GoEffect DEF BarrierInv, LeaderPlace
<1>6. ThreadPlace'
  BY GoEffect DEF BarrierInv, ThreadPlace
<1>7. Acknowledged'
  <2>1. \A n \in Machines : acks'[n] = IF n = m THEN {} ELSE acks[n]
    BY DEF BarrierTypeOK
  <2>2. \A n \in Machines : \A k \in Others(n) :
            syncs'[k][n] = IF k = m THEN syncs[k][n] + 1 ELSE syncs[k][n]
    BY DEF BarrierTypeOK, Others
  <2>3. ASSUME NEW n \in Machines, NEW k \in Others(n)
        PROVE  /\ syncs'[k][n] <= round'[k]
               /\ Consumed(k, n)' = Consumed(k, n)
    <3>1. syncs[k][n] <= round[k]
      BY DEF BarrierInv, Acknowledged
    <3>2. syncs'[k][n] = IF k = m THEN syncs[k][n] + 1 ELSE syncs[k][n]
      BY <2>2
    <3>3. round'[k] = IF k = m THEN round[k] + 1 ELSE round[k]
      BY <1>3, MessageNumbers
    <3>4. syncs[k][n] \in Int /\ round[k] \in Int
      BY MessageNumbers
    <3> QED BY <3>1, <3>2, <3>3, <3>4 DEF Consumed
  <2> QED BY <1>3, <2>1, <2>3 DEF BarrierInv, Acknowledged
<1> QED BY <1>2, <1>4, <1>5, <1>6, <1>7 DEF BarrierInv

LEMMA SyncTakenKeeps ==
    ASSUME BarrierInv, NEW m \in Machines, NEW n \in Others(m), syncs[n][m] > 0,
           syncs' = [syncs EXCEPT ![n][m] = @ - 1]
    PROVE  /\ syncs' \in [Machines -> [Machines -> Nat]]
           /\ \A i \in Machines : syncs'[i][i] = 0
           /\ round' = round => \A i \in Machines : \A k \in Others(i) :
                /\ syncs'[k][i] <= round'[k]
                /\ Consumed(k, i)' >= Consumed(k, i)
                /\ k = n /\ i = m => Consumed(k, i)' = Consumed(k, i) + 1
<1>1. BarrierTypeOK /\ n \in Machines
  BY DEF BarrierInv, Others
<1>2. syncs' \in [Machines -> [Machines -> Nat]]
  BY <1>1 DEF BarrierTypeOK
<1>3. \A i \in Machines : \A k \in Others(i) :
          syncs'[k][i] = IF k = n /\ i = m THEN syncs[k][i] - 1 ELSE syncs[k][i]
  BY <1>1 DEF BarrierTypeOK, Others
<1>4. ASSUME round' = round, NEW i \in Machines, NEW k \in Others(i)
      PROVE  /\ syncs'[k][i] <= round'[k]
             /\ Consumed(k, i)' >= Consumed(k, i)
             /\ k = n /\ i = m => Consumed(k, i)' = Consumed(k, i) + 1
  <2>1. syncs[k][i] <= round[k]
    BY DEF BarrierInv, Acknowledged
  <2> QED BY <1>1, <1>3, <1>4, <2>1, MessageNumbers DEF Consumed
<1>5. \A i \in Machines : syncs'[i][i] = 0
  BY <1>1 DEF BarrierInv, BarrierTypeOK, Acknowledged, Others
<1> QED BY <1>2, <1>4, <1>5

LEMMA ReceiveSyncKeeps ==
    ASSUME BarrierInv, NEW m \in Machines, NEW n \in Others(m), ReceiveSync(m, n)
    PROVE  BarrierInv'
<1> USE DEF ReceiveSync, barrierVars
<1> BarrierTypeOK /\ n \in Machines /\ Leader \in Threads
  BY ThreadsAreFinite DEF BarrierInv, Others
<1>1. BarrierTypeOK'
  <2>1. received' \in [Machines -> 0 .. NumOthers]
    BY ThreadsAreFinite DEF BarrierTypeOK
  <2> QED BY <2>1, SyncTakenKeeps DEF BarrierTypeOK
<1>2. \A i \in Machines : Arrived(i)' = Arrived(i) /\ Past(i)' = Past(i)
  BY DEF Arrived, Past
<1>3. Counted'
  BY <1>2 DEF BarrierInv, Counted
<1>4. LeaderPlace' /\ ThreadPlace'
  BY DEF BarrierInv, LeaderPlace, ThreadPlace
<1>5. Acknowledged'
  <2>1. \A i \in Machines : acks'[i] = IF i = m THEN acks[m] \union {n} ELSE acks[i]
    BY DEF BarrierTypeOK
  <2>2. \A i \in Machines : acks'[i] \subseteq Others(i)
    BY <2>1 DEF BarrierInv, Acknowledged
  <2>3. ASSUME NEW i \in Machines, NEW k \in Others(i)
        PROVE  /\ syncs'[k][i] <= round[k]
               /\ Consumed(k, i) \in Int /\ Consumed(k, i)' \in Int /\ round[i] \in Int
               /\ Consumed(k, i)' >= Consumed(k, i)
               /\ k = n /\ i = m => Consumed(k, i)' = Consumed(k, i) + 1
    <3>1. Consumed(k, i)' \in Int
      BY <1>1, MessageNumbers DEF Consumed, BarrierTypeOK
    <3> QED BY <3>1, SyncTakenKeeps, MessageNumbers
  <2>4. Consumed(n, m) >= round[m] - 1
    <3>1. round[m] = 1 \/ (round[m] = 2 /\ workload[m] = "ready")
      BY DEF BarrierInv, LeaderPlace
    <3>2. round[n] >= syncs[n][m] /\ (workload[m] # "idle" => Consumed(n, m) >= 1)
      BY DEF BarrierInv, Acknowledged
    <3> QED BY <3>1, <3>2, MessageNumbers DEF Consumed
  <2>5. ASSUME NEW i \in Machines, NEW k \in Others(i), k \in acks'[i]
        PROVE  Consumed(k, i)' >= round'[i]
    <3>1. CASE k = n /\ i = m
      BY <2>3, <2>4, <3>1
    <3>2. CASE ~(k = n /\ i = m)
      <4>1. Consumed(k, i) >= round[i]
        BY <2>1, <2>5, <3>2 DEF BarrierInv, Acknowledged
      <4> QED BY <2>3, <4>1
    <3> QED BY <3>1, <3>2
  <2>6. ASSUME NEW i \in Machines, NEW k \in Others(i)
        PROVE  /\ workload[i] # "idle" => Consumed(k, i)' >= 1
               /\ workload[i] = "done" => Consumed(k, i)' >= 2
    BY <2>3 DEF BarrierInv, Acknowledged
  <2>7. \A i \in Machines : syncs'[i][i] = 0
    BY SyncTakenKeeps
  <2> QED BY <2>2, <2>3, <2>5, <2>6, <2>7 DEF Acknowledged
<1> QED BY <1>1, <1>3, <1>4, <1>5 DEF BarrierInv

LEMMA GetUnexpectedKeeps ==
    ASSUME BarrierInv, NEW m \in Machines, NEW n \in Others(m), GetUnexpected(m, n)
    PROVE  BarrierInv'
<1> USE DEF GetUnexpected, barrierVars
<1> "work" \in Places
  BY DEF Places
<1> BarrierTypeOK /\ n \in Machines /\ Leader \in Threads
  BY ThreadsAreFinite DEF BarrierInv, Others
<1>1. BarrierTypeOK'
  BY GoEffect, SyncTakenKeeps DEF BarrierTypeOK
<1>2. Counted'
  BY GoKeepsCounted DEF BarrierInv, LeaderPlace
<1>3. LeaderPlace'
  BY GoEffect DEF BarrierInv, LeaderPlace
<1>4. ThreadPlace'
  <2>1. \A i \in Machines : \A t \in Threads \ {Leader} : at'[i][t] = at[i][t]
    BY GoEffect
  <2> QED BY <2>1 DEF BarrierInv, ThreadPlace
<1>5. Acknowledged'
  <2>1. ASSUME NEW i \in Machines, NEW k \in Others(i)
        PROVE  /\ syncs'[k][i] <= round[k]
               /\ Consumed(k, i) \in Int /\ Consumed(k, i)' \in Int /\ round[i] \in Int
               /\ Consumed(k, i)' >= Consumed(k, i)
    <3>1. Consumed(k, i)' \in Int
      BY <1>1, MessageNumbers DEF Consumed, BarrierTypeOK
    <3> QED BY <3>1, SyncTakenKeeps, MessageNumbers
  <2>2. ASSUME NEW i \in Machines, NEW k \in Others(i)
        PROVE  /\ k \in acks[i] => Consumed(k, i)' >= round[i]
               /\ workload[i] # "idle" => Consumed(k, i)' >= 1
               /\ workload[i] = "done" => Consumed(k, i)' >= 2
    BY <2>1 DEF BarrierInv, Acknowledged
  <2>3. \A i \in Machines : syncs'[i][i] = 0
    BY SyncTakenKeeps
  <2> QED BY <2>1, <2>2, <2>3 DEF BarrierInv, Acknowledged
<1> QED BY <1>1, <1>2, <1>3, <1>4, <1>5 DEF BarrierInv

LEMMA ReceiveOtherKeeps ==
    ASSUME BarrierInv, NEW m \in Machines, ReceiveOther(m)
    PROVE  BarrierInv'
<1> USE DEF ReceiveOther, barrierVars
<1>1. BarrierTypeOK'
  BY ThreadsAreFinite DEF BarrierInv, BarrierTypeOK
<1>2. \A i \in Machines : Arrived(i)' = Arrived(i) /\ Past(i)' = Past(i)
  BY DEF Arrived, Past
<1>3. Counted'
  BY <1>2 DEF BarrierInv, Counted
<1>4. LeaderPlace' /\ ThreadPlace'
  BY DEF BarrierInv, LeaderPlace, ThreadPlace
<1>5. Acknowledged'
  BY DEF BarrierInv, Acknowledged, Consumed
<1> QED BY <1>1, <1>3, <1>4, <1>5 DEF BarrierInv

LEMMA EndSyncKeeps ==
    ASSUME BarrierInv, NEW m \in Machines, EndSync(m)
    PROVE  BarrierInv'
<1> USE DEF EndSync, syncVars
<1> "panic" \in Places /\ "synced" \in Places
  BY DEF Places
<1> BarrierTypeOK /\ Leader \in Threads
  BY ThreadsAreFinite DEF BarrierInv
<1>1. CASE Cardinality(acks[m]) # NumOthers
  BY <1>1, GoKeepsBarrierInv DEF barrierVars, BarrierInv, LeaderPlace
<1>2. CASE Cardinality(acks[m]) = NumOthers
  <2>1. Leave(m)
    BY <1>2
  <2>2. acks[m] = Others(m)
    BY <1>2, ThreadsAreFinite, FS_Subset DEF BarrierInv, Acknowledged
  <2>3. workload' = [workload EXCEPT ![m] = IF round[m] = 1 THEN "ready" ELSE "done"]
    BY <2>1 DEF Leave
  <2>4. Go(m, Leader, "synced")
    BY <2>1 DEF Leave
  <2>5. \/ round[m] = 1 /\ workload[m] = "idle" /\ workload'[m] = "ready"
        \/ round[m] = 2 /\ workload[m] = "ready" /\ workload'[m] = "done"
    BY <2>3 DEF BarrierInv, LeaderPlace, BarrierTypeOK
  <2>6. \A n \in Machines : n # m => workload'[n] = workload[n]
    BY <2>3 DEF BarrierTypeOK
  <2>7. BarrierTypeOK'
    BY <2>3, <2>4, GoEffect DEF BarrierTypeOK
  <2>8. Counted'
    BY <2>4, GoKeepsCounted DEF BarrierInv
  <2>9. LeaderPlace'
    BY <2>4, <2>5, <2>6, GoEffect DEF BarrierInv, LeaderPlace
  <2>10. ThreadPlace'
    <3>1. \A t \in Threads \ {Leader} : at'[m][t] = at[m][t] /\ at[m][t] # "end"
      BY <2>4, <2>5, GoEffect DEF BarrierInv, ThreadPlace
    <3> QED BY <2>4, <2>5, <2>6, <3>1, GoEffect DEF BarrierInv, ThreadPlace
  <2>11. Acknowledged'
    <3>1. \A i \in Machines : \A k \in Others(i) : Consumed(k, i)' = Consumed(k, i) /\ Consumed(k, i) \in Int
      BY MessageNumbers DEF Consumed
    <3>2. \A k \in Others(m) : Consumed(k, m) >= round[m]
      BY <2>2 DEF BarrierInv, Acknowledged
    <3>3. ASSUME NEW i \in Machines, NEW k \in Others(i)
          PROVE  /\ workload'[i] # "idle" => Consumed(k, i) >= 1
                 /\ workload'[i] = "done" => Consumed(k, i) >= 2
      BY <2>5, <2>6, <3>1, <3>2 DEF BarrierInv, Acknowledged
    <3> QED BY <3>1, <3>3 DEF BarrierInv, Acknowledged
  <2> QED BY <2>7, <2>8, <2>9, <2>10, <2>11 DEF BarrierInv
<1> QED BY <1>1, <1>2

-----------------------------------------------------------------------------
(* The gets                                                                *)

GetTypeOK ==
    /\ at \in [Machines -> [Threads -> Places]]
    /\ next \in [Machines -> [Threads -> Nat]]
    /\ passes \in [Machines -> [Threads -> 0 .. MaxPasses]]
    /\ sent \in [Machines -> [Threads -> SUBSET [op : Nat, key : Keys, to : Int]]]
    /\ asked \in [Machines -> [Threads -> Nat]]
    /\ responses \in [Machines -> [Threads -> Nat]]

NothingYet == \A m \in Machines, t \in Threads :
    at[m][t] = "new" /\ next[m][t] = 0 /\ passes[m][t] = 0 /\ sent[m][t] = {}

\* What a thread has sent are operations of its chunk, to the servers they
\* name: those it has done in this pass, and all once it has done a pass.
SentOfChunk == \A m \in Machines, t \in Threads :
    /\ next[m][t] <= ChunkEnd(Len(ops), NumThreads, t) - ChunkBegin(Len(ops), NumThreads, t)
    /\ \A g \in sent[m][t] :
        /\ ChunkBegin(Len(ops), NumThreads, t) < g.op
        /\ g.op <= ChunkEnd(Len(ops), NumThreads, t)
        /\ g.op \in DOMAIN ops
        /\ g.key = ops[g.op].key
        /\ g.to = RemoteIndex(ops[g.op].node)
    /\ \A i \in 1 .. ChunkEnd(Len(ops), NumThreads, t) - ChunkBegin(Len(ops), NumThreads, t) :
        i <= next[m][t] \/ passes[m][t] > 0 =>
            \E g \in sent[m][t] : g.op = ChunkBegin(Len(ops), NumThreads, t) + i

GetInv ==
    /\ GetTypeOK
    /\ generator # "dumped" => NothingYet
    /\ generator = "dumped" => SentOfChunk

LEMMA MachinesType ==
    /\ NumThreads \in Nat \ {0} /\ Leader \in Threads /\ Threads \subseteq Nat
    /\ \A t \in Threads : t < NumThreads
    /\ StartClientIndex \in Nat
<1>1. StartClientIndex \in Nat
  <2> DEFINE leading == {i \in DOMAIN Roles : \A j \in 1 .. i : Roles[j] = "client"}
  <2>1. Len(Roles) \in Nat /\ DOMAIN Roles = 1 .. Len(Roles)
    BY SizesAreSane
  <2>2. IsFiniteSet(DOMAIN Roles)
    BY <2>1, FS_Interval
  <2>3. leading \subseteq DOMAIN Roles
    OBVIOUS
  <2> QED BY <2>2, <2>3, FS_Subset, FS_CardinalityType DEF StartClientIndex
<1>2. NumThreads \in Nat \ {0} /\ Leader \in Threads /\ Threads \subseteq Nat /\ \A t \in Threads : t < NumThreads
  BY SizesAreSane DEF Leader, Threads
<1> QED BY <1>1, <1>2

LEMMA ChunkType ==
    ASSUME WorkloadInv, NEW t \in Threads
    PROVE  /\ Len(ops) \in Nat /\ DOMAIN ops = 1 .. Len(ops)
           /\ ChunkBegin(Len(ops), NumThreads, t) \in Nat
           /\ ChunkEnd(Len(ops), NumThreads, t) \in Nat
           /\ ChunkBegin(Len(ops), NumThreads, t) <= ChunkEnd(Len(ops), NumThreads, t)
           /\ ChunkEnd(Len(ops), NumThreads, t) <= Len(ops)
<1>1. Len(ops) \in Nat /\ DOMAIN ops = 1 .. Len(ops)
  BY DEF WorkloadInv, WorkloadTypeOK
<1>2. t \in Nat /\ t + 1 \in Nat /\ t + 1 <= NumThreads /\ NumThreads \in Nat \ {0} /\ NumThreads - 1 \in Nat
  BY MachinesType
<1>3. /\ ChunkBegin(Len(ops), NumThreads, t) <= ChunkBegin(Len(ops), NumThreads, t + 1)
      /\ ChunkBegin(Len(ops), NumThreads, t + 1) <= ChunkBegin(Len(ops), NumThreads, NumThreads)
  BY <1>1, <1>2, ChunksOrdered
<1>4. /\ ChunkEnd(Len(ops), NumThreads, t) = ChunkBegin(Len(ops), NumThreads, t + 1)
      /\ ChunkBegin(Len(ops), NumThreads, t) \in Nat
      /\ ChunkBegin(Len(ops), NumThreads, t + 1) \in Nat
      /\ ChunkBegin(Len(ops), NumThreads, NumThreads) \in Nat
  BY <1>1, <1>2, ChunkEnds
<1>5. Len(ops) = ChunkBegin(Len(ops), NumThreads, NumThreads)
  <2>1. ChunkEnd(Len(ops), NumThreads, NumThreads - 1) = ChunkBegin(Len(ops), NumThreads, (NumThreads - 1) + 1)
    BY <1>1, <1>2, ChunkEnds
  <2>2. (NumThreads - 1) + 1 = NumThreads
    BY <1>2
  <2>3. Len(ops) = ChunkEnd(Len(ops), NumThreads, NumThreads - 1)
    BY <1>1, <1>2, ChunkEnds
  <2> QED BY <2>1, <2>2, <2>3
<1> QED BY <1>1, <1>3, <1>4, <1>5

LEMMA InitGetInv == Init => GetInv
BY SizesAreSane DEF Init, WorkloadInit, GetInv, GetTypeOK, NothingYet, Places

\* The generator is through before the clients start.
LEMMA GeneratorKeepsGetInv ==
    ASSUME WorkloadInv, WorkloadInv', GetInv, GeneratorStep
    PROVE  GetInv'
<1>1. generator # "dumped"
  BY DEF GeneratorStep, Generate, StartGenerator, DumpOperations, DrawFromNothing, Drawing,
         GenerateRandom, GeneratePartitioned, GenerateZipfian, GenerateZipfianPartitioned,
         SingleNodeHotSetData, ToSecondNodeOnly, ToSecondNodeOnlyRDMA, To80SecondNode20Other
<1>2. NothingYet /\ UNCHANGED <<at, barrierVars, syncVars, getVars>>
  BY <1>1 DEF GetInv, GeneratorStep
<1>3. GetTypeOK' /\ NothingYet'
  BY <1>2 DEF GetInv, GetTypeOK, NothingYet, getVars
<1>4. SentOfChunk'
  <2>1. SUFFICES ASSUME NEW m \in Machines, NEW t \in Threads
                 PROVE  0 <= ChunkEnd(Len(ops'), NumThreads, t) - ChunkBegin(Len(ops'), NumThreads, t)
    BY <1>3 DEF SentOfChunk, NothingYet
  <2>2. /\ ChunkBegin(Len(ops'), NumThreads, t) \in Nat
        /\ ChunkEnd(Len(ops'), NumThreads, t) \in Nat
        /\ ChunkBegin(Len(ops'), NumThreads, t) <= ChunkEnd(Len(ops'), NumThreads, t)
    <3>1. Len(ops') \in Nat /\ t \in Nat /\ t + 1 \in Nat
      BY MachinesType DEF WorkloadInv, WorkloadTypeOK
    <3> QED BY <3>1, MachinesType, ChunkEnds, ChunksOrdered
  <2> QED BY <2>2
<1> QED BY <1>3, <1>4 DEF GetInv

LEMMA GetKeeps ==
    ASSUME WorkloadInv, GetInv, generator = "dumped", UNCHANGED workloadVars,
           NEW m \in Machines, NEW t \in Threads, Get(m, t)
    PROVE  GetInv'
<1> DEFINE begin(u) == ChunkBegin(Len(ops), NumThreads, u)
           end(u) == ChunkEnd(Len(ops), NumThreads, u)
           i == begin(t) + next[m][t] + 1
           new == [op |-> i, key |-> ops[i].key, to |-> RemoteIndex(ops[i].node)]
<1>1. Loaded = ops /\ UNCHANGED <<ops, generator>>
  BY DEF Loaded, WorkloadInv, FileHoldsOps, workloadVars
<1>2. \A u \in Threads : begin(u) \in Nat /\ end(u) \in Nat /\ end(u) <= Len(ops) /\ begin(u) <= end(u)
  BY ChunkType
<1>3. next[m][t] \in Nat /\ next[m][t] < end(t) - begin(t)
  BY <1>1 DEF Get, ChunkSize, GetInv, GetTypeOK
<1>4. i \in Nat /\ i \in DOMAIN ops /\ begin(t) < i /\ i <= end(t)
  BY <1>2, <1>3, ChunkType
<1>5. ops[i].key \in Keys /\ ops[i].node \in Nodes
  BY <1>4, OpsAreOperations
<1>6. /\ sent' = [sent EXCEPT ![m][t] = @ \union {new}]
      /\ next' = [next EXCEPT ![m][t] = @ + 1]
      /\ asked' = [asked EXCEPT ![m][t] = @ + 1]
      /\ Go(m, t, "get")
      /\ UNCHANGED <<passes, responses>>
  BY <1>1, <1>5, WorkloadIsSane DEF Get, Nodes
<1>7. new \in [op : Nat, key : Keys, to : Int]
  BY <1>4, <1>5, MachinesType DEF RemoteIndex, Nodes
<1> HIDE DEF begin, end, i
<1>8. GetTypeOK'
  BY <1>6, <1>7 DEF GetInv, GetTypeOK, Go, Places
<1>9. \A n \in Machines, u \in Threads :
          /\ sent'[n][u] = IF n = m /\ u = t THEN sent[m][t] \union {new} ELSE sent[n][u]
          /\ next'[n][u] = IF n = m /\ u = t THEN next[m][t] + 1 ELSE next[n][u]
  BY <1>6 DEF GetInv, GetTypeOK
<1>10. SentOfChunk'
  <2>1. SUFFICES ASSUME NEW n \in Machines, NEW u \in Threads
                 PROVE  /\ next'[n][u] <= end(u) - begin(u)
                        /\ \A g \in sent'[n][u] :
                             /\ begin(u) < g.op /\ g.op <= end(u) /\ g.op \in DOMAIN ops
                             /\ g.key = ops[g.op].key /\ g.to = RemoteIndex(ops[g.op].node)
                        /\ \A j \in 1 .. end(u) - begin(u) :
                             j <= next'[n][u] \/ passes[n][u] > 0 =>
                                 \E g \in sent'[n][u] : g.op = begin(u) + j
    BY <1>1, <1>6 DEF SentOfChunk, begin, end
  <2>2. /\ next[n][u] <= end(u) - begin(u)
        /\ \A g \in sent[n][u] :
             /\ begin(u) < g.op /\ g.op <= end(u) /\ g.op \in DOMAIN ops
             /\ g.key = ops[g.op].key /\ g.to = RemoteIndex(ops[g.op].node)
        /\ \A j \in 1 .. end(u) - begin(u) :
             j <= next[n][u] \/ passes[n][u] > 0 =>
                 \E g \in sent[n][u] : g.op = begin(u) + j
    BY DEF GetInv, SentOfChunk, begin, end
  <2>3. CASE n = m /\ u = t
    <3>1. next'[n][u] <= end(u) - begin(u)
      BY <1>2, <1>3, <1>9, <2>3
    <3>2. ASSUME NEW g \in sent'[n][u]
          PROVE  /\ begin(u) < g.op /\ g.op <= end(u) /\ g.op \in DOMAIN ops
                 /\ g.key = ops[g.op].key /\ g.to = RemoteIndex(ops[g.op].node)
      <4>1. CASE g \in sent[n][u]
        BY <2>2, <4>1
      <4>2. CASE g = new
        BY <1>4, <2>3, <4>2
      <4> QED BY <1>9, <2>3, <4>1, <4>2
    <3>3. ASSUME NEW j \in 1 .. end(u) - begin(u),
                 j <= next'[n][u] \/ passes[n][u] > 0
          PROVE  \E g \in sent'[n][u] : g.op = begin(u) + j
      <4>1. CASE j = next[m][t] + 1
        <5>1. new \in sent'[n][u] /\ new.op = i
          BY <1>9, <2>3
        <5>2. i = begin(u) + j
          BY <1>2, <1>3, <2>3, <4>1 DEF i
        <5> QED BY <5>1, <5>2
      <4>2. CASE j # next[m][t] + 1
        <5>1. j <= next[n][u] \/ passes[n][u] > 0
          BY <1>2, <1>3, <1>9, <2>3, <3>3, <4>2
        <5>2. PICK g \in sent[n][u] : g.op = begin(u) + j
          BY <2>2, <5>1
        <5> QED BY <1>9, <2>3, <5>2
      <4> QED BY <4>1, <4>2
    <3> QED BY <3>1, <3>2, <3>3
  <2>4. CASE ~(n = m /\ u = t)
    BY <1>9, <2>2, <2>4
  <2> QED BY <2>3, <2>4
<1> QED BY <1>1, <1>8, <1>10 DEF GetInv

LEMMA EndPassKeeps ==
    ASSUME WorkloadInv, GetInv, generator = "dumped", UNCHANGED workloadVars,
           NEW m \in Machines, NEW t \in Threads, EndPass(m, t)
    PROVE  GetInv'
<1> DEFINE begin(u) == ChunkBegin(Len(ops), NumThreads, u)
           end(u) == ChunkEnd(Len(ops), NumThreads, u)
<1>1. Loaded = ops /\ UNCHANGED <<ops, generator>>
  BY DEF Loaded, WorkloadInv, FileHoldsOps, workloadVars
<1>2. \A u \in Threads : begin(u) \in Nat /\ end(u) \in Nat /\ begin(u) <= end(u)
  BY ChunkType
<1>3. next[m][t] = end(t) - begin(t)
  BY <1>1 DEF EndPass, ChunkSize
<1>4. \A n \in Machines, u \in Threads :
          /\ sent'[n][u] = sent[n][u]
          /\ next'[n][u] = IF n = m /\ u = t THEN 0 ELSE next[n][u]
          /\ ~(n = m /\ u = t) => passes'[n][u] = passes[n][u]
  BY DEF EndPass, GetInv, GetTypeOK
<1>5. GetTypeOK'
  <2>1. passes' \in [Machines -> [Threads -> 0 .. MaxPasses]]
    BY SizesAreSane DEF EndPass, GetInv, GetTypeOK
  <2> QED BY <2>1 DEF EndPass, GetInv, GetTypeOK
<1> HIDE DEF begin, end
<1>6. SentOfChunk'
  <2>1. SUFFICES ASSUME NEW n \in Machines, NEW u \in Threads
                 PROVE  /\ next'[n][u] <= end(u) - begin(u)
                        /\ \A g \in sent'[n][u] :
                             /\ begin(u) < g.op /\ g.op <= end(u) /\ g.op \in DOMAIN ops
                             /\ g.key = ops[g.op].key /\ g.to = RemoteIndex(ops[g.op].node)
                        /\ \A j \in 1 .. end(u) - begin(u) :
                             j <= next'[n][u] \/ passes'[n][u] > 0 =>
                                 \E g \in sent'[n][u] : g.op = begin(u) + j
    BY <1>1 DEF SentOfChunk, begin, end
  <2>2. /\ next[n][u] <= end(u) - begin(u)
        /\ \A g \in sent[n][u] :
             /\ begin(u) < g.op /\ g.op <= end(u) /\ g.op \in DOMAIN ops
             /\ g.key = ops[g.op].key /\ g.to = RemoteIndex(ops[g.op].node)
        /\ \A j \in 1 .. end(u) - begin(u) :
             j <= next[n][u] \/ passes[n][u] > 0 =>
                 \E g \in sent[n][u] : g.op = begin(u) + j
    BY DEF GetInv, SentOfChunk, begin, end
  <2>3. CASE n = m /\ u = t
    <3>1. \A j \in 1 .. end(u) - begin(u) : j <= next[n][u]
      BY <1>2, <1>3, <2>3
    <3> QED BY <1>2, <1>4, <2>2, <2>3, <3>1
  <2>4. CASE ~(n = m /\ u = t)
    BY <1>4, <2>2, <2>4
  <2> QED BY <2>3, <2>4
<1> QED BY <1>1, <1>5, <1>6 DEF GetInv

\* Steps that send nothing and leave the position in the chunk alone.
LEMMA OthersKeepGetInv ==
    ASSUME GetInv, generator = "dumped", UNCHANGED <<workloadVars, next, passes, sent>>,
           GetTypeOK'
    PROVE  GetInv'
<1>1. SentOfChunk'
  BY DEF workloadVars, GetInv, SentOfChunk
<1> QED BY <1>1 DEF workloadVars, GetInv

-----------------------------------------------------------------------------
(* The specification                                                       *)

IInv == WorkloadInv /\ BarrierInv /\ GetInv

LEMMA InitIInv == Init => IInv
BY InitWorkloadInv, InitBarrierInv, InitGetInv DEF Init, IInv

LEMMA GeneratorKeepsIInv == ASSUME IInv, GeneratorStep PROVE IInv'
<1>1. WorkloadInv'
  BY GenerateWorkloadInv DEF IInv, GeneratorStep
<1>2. BarrierInv'
  BY BarrierStutter DEF IInv, GeneratorStep
<1>3. GetInv'
  BY <1>1, GeneratorKeepsGetInv DEF IInv
<1> QED BY <1>1, <1>2, <1>3 DEF IInv

LEMMA MachineKeepsIInv == ASSUME IInv, NEW m \in Machines, MachineStep(m) PROVE IInv'
<1> USE DEF IInv
<1>1. generator = "dumped" /\ UNCHANGED workloadVars
  BY DEF MachineStep
<1>2. WorkloadInv'
  BY <1>1, StutterWorkloadInv
<1> BarrierTypeOK /\ GetTypeOK /\ Leader \in Threads
  BY ThreadsAreFinite DEF BarrierInv, GetInv
<1> USE DEF getVars
<1>3. ASSUME NEW t \in Threads, ThreadReady(m, t) PROVE IInv'
  <2>1. GetTypeOK'
    BY <1>3 DEF ThreadReady, Go, GetTypeOK, Places
  <2> QED BY <1>1, <1>2, <1>3, <2>1, ThreadReadyKeeps, OthersKeepGetInv DEF ThreadReady
<1>4. ASSUME NEW t \in Threads, StartWork(m, t) PROVE IInv'
  <2>1. GetTypeOK'
    BY <1>4 DEF StartWork, Go, GetTypeOK, Places
  <2>2. BarrierInv'
    BY <1>4, GoKeepsBarrierInv DEF StartWork, BarrierInv, LeaderPlace, Places
  <2> QED BY <1>1, <1>2, <1>4, <2>1, <2>2, OthersKeepGetInv DEF StartWork
<1>5. ASSUME NEW t \in Threads, Get(m, t) PROVE IInv'
  <2>1. GetInv'
    BY <1>1, <1>5, GetKeeps
  <2>2. PICK p \in {"get", "panic"} : Go(m, t, p) /\ UNCHANGED <<barrierVars, syncVars>>
    BY <1>5 DEF Get
  <2>3. at[m][t] = "work" /\ p \in Places
    BY <1>5 DEF Get, Places
  <2>4. BarrierInv'
    BY <2>2, <2>3, GoKeepsBarrierInv DEF BarrierInv, LeaderPlace, ThreadPlace
  <2> QED BY <1>2, <2>1, <2>4
<1>6. ASSUME NEW t \in Threads, GetResponse(m, t) PROVE IInv'
  <2>1. GetTypeOK'
    BY <1>6 DEF GetResponse, Go, GetTypeOK, Places
  <2>2. BarrierInv'
    BY <1>6, GoKeepsBarrierInv DEF GetResponse, BarrierInv, LeaderPlace, ThreadPlace, Places
  <2> QED BY <1>1, <1>2, <1>6, <2>1, <2>2, OthersKeepGetInv DEF GetResponse
<1>7. ASSUME NEW t \in Threads, EndPass(m, t) PROVE IInv'
  <2>1. BarrierInv'
    BY <1>7, BarrierStutter DEF EndPass
  <2> QED BY <1>1, <1>2, <1>7, <2>1, EndPassKeeps
<1>8. ASSUME NEW t \in Threads, ThreadDone(m, t) PROVE IInv'
  <2>1. GetTypeOK'
    BY <1>8 DEF ThreadDone, Go, GetTypeOK, Places
  <2> QED BY <1>1, <1>2, <1>8, <2>1, ThreadDoneKeeps, OthersKeepGetInv DEF ThreadDone
<1>9. ASSUME NEW t \in Threads, Return(m, t) PROVE IInv'
  <2>1. GetTypeOK'
    BY <1>9 DEF Return, Go, GetTypeOK, Places
  <2>2. BarrierInv'
    BY <1>9, GoKeepsBarrierInv DEF Return, BarrierInv, LeaderPlace, ThreadPlace, Places
  <2> QED BY <1>1, <1>2, <1>9, <2>1, <2>2, OthersKeepGetInv DEF Return
<1>10. ASSUME Listen(m) PROVE IInv'
  <2>1. GetTypeOK'
    BY <1>10 DEF Listen, Go, GetTypeOK, Places
  <2>2. BarrierInv'
    BY <1>10, GoKeepsBarrierInv DEF Listen, BarrierInv, LeaderPlace, Places
  <2> QED BY <1>1, <1>2, <1>10, <2>1, <2>2, OthersKeepGetInv DEF Listen
<1>11. ASSUME StartSync(m) PROVE IInv'
  <2>1. GetTypeOK'
    BY <1>11 DEF StartSync, Go, GetTypeOK, Places
  <2> QED BY <1>1, <1>2, <1>11, <2>1, StartSyncKeeps, OthersKeepGetInv DEF StartSync
<1>12. ASSUME EndSync(m) PROVE IInv'
  <2>1. PICK p \in {"panic", "synced"} : Go(m, Leader, p)
    BY <1>12 DEF EndSync, Leave
  <2>2. GetTypeOK'
    BY <1>12, <2>1 DEF EndSync, Go, GetTypeOK, Places
  <2> QED BY <1>1, <1>2, <1>12, <2>2, EndSyncKeeps, OthersKeepGetInv DEF EndSync
<1>13. ASSUME NEW n \in Others(m), ReceiveSync(m, n) PROVE IInv'
  <2>1. GetTypeOK'
    BY <1>13 DEF ReceiveSync, GetTypeOK
  <2> QED BY <1>1, <1>2, <1>13, <2>1, ReceiveSyncKeeps, OthersKeepGetInv DEF ReceiveSync
<1>14. ASSUME NEW n \in Others(m), GetUnexpected(m, n) PROVE IInv'
  <2>1. GetTypeOK'
    BY <1>14 DEF GetUnexpected, Go, GetTypeOK, Places
  <2> QED BY <1>1, <1>2, <1>14, <2>1, GetUnexpectedKeeps, OthersKeepGetInv DEF GetUnexpected
<1>15. ASSUME ReceiveOther(m) PROVE IInv'
  <2>1. GetTypeOK'
    BY <1>15 DEF ReceiveOther, GetTypeOK
  <2> QED BY <1>1, <1>2, <1>15, <2>1, ReceiveOtherKeeps, OthersKeepGetInv DEF ReceiveOther
<1> QED
  BY <1>3, <1>4, <1>5, <1>6, <1>7, <1>8, <1>9, <1>10, <1>11, <1>12, <1>13, <1>14, <1>15
  DEF MachineStep

LEMMA ServerKeepsIInv == ASSUME IInv, ServerStep PROVE IInv'
<1> USE DEF IInv
<1>1. PICK m \in Machines, t \in Threads : ServerResponds(m, t) /\ UNCHANGED workloadVars
  BY DEF ServerStep
<1>2. WorkloadInv'
  BY <1>1, StutterWorkloadInv
<1>3. BarrierInv'
  BY <1>1, BarrierStutter DEF ServerResponds
<1>4. GetTypeOK'
  BY <1>1 DEF ServerResponds, GetInv, GetTypeOK
<1>5. NothingYet => NothingYet'
  BY <1>1 DEF ServerResponds, NothingYet
<1>6. SentOfChunk => SentOfChunk'
  BY <1>1 DEF ServerResponds, SentOfChunk, workloadVars
<1>7. GetInv'
  BY <1>1, <1>4, <1>5, <1>6 DEF GetInv, workloadVars
<1> QED BY <1>2, <1>3, <1>7

LEMMA StutterKeepsIInv == IInv /\ UNCHANGED vars => IInv'
<1> SUFFICES ASSUME IInv, UNCHANGED vars PROVE IInv'
  OBVIOUS
<1> USE DEF IInv, vars
<1>1. WorkloadInv'
  BY StutterWorkloadInv
<1>2. BarrierInv'
  BY BarrierStutter
<1>3. GetInv'
  BY DEF GetInv, GetTypeOK, NothingYet, SentOfChunk, getVars, workloadVars
<1> QED BY <1>1, <1>2, <1>3

\* The inductive invariant of the clients and the generator.
THEOREM Invariant == Spec => []IInv
<1>1. IInv /\ [Next]_vars => IInv'
  BY GeneratorKeepsIInv, MachineKeepsIInv, ServerKeepsIInv, StutterKeepsIInv DEF Next
<1> QED BY <1>1, InitIInv, PTL DEF Spec

-----------------------------------------------------------------------------
(* The properties of the runs                                              *)

\* Every variable keeps its type; the counters stay within the number of
\* threads and no channel holds more than two sync requests.
THEOREM TypeCorrect == Spec => []TypeOK
<1>1. IInv => TypeOK
  <2> SUFFICES ASSUME IInv PROVE TypeOK
    OBVIOUS
  <2>1. BarrierTypeOK /\ GetTypeOK /\ WorkloadTypeOK
    BY DEF IInv, BarrierInv, GetInv, WorkloadInv
  <2>2. ASSUME NEW m \in Machines
        PROVE  ready[m] \in 0 .. NumThreads /\ done[m] \in 0 .. NumThreads
    <3>1. /\ Cardinality(Arrived(m)) \in Nat /\ Cardinality(Arrived(m)) <= NumThreads
          /\ Cardinality(Past(m)) \in Nat /\ Cardinality(Past(m)) <= NumThreads
      BY PartsAreFinite, ThreadsAreFinite, FS_Subset, FS_CardinalityType
    <3>2. ready[m] = Cardinality(Arrived(m)) /\ done[m] = Cardinality(Past(m))
      BY DEF IInv, BarrierInv, Counted
    <3> QED BY <3>1, <3>2, MachinesType
  <2>3. ASSUME NEW n \in Machines, NEW m \in Machines
        PROVE  syncs[n][m] \in 0 .. 2
    <3>1. syncs[n][m] \in Nat /\ round[n] \in 0 .. 2
      BY <2>1 DEF BarrierTypeOK
    <3>2. CASE n = m
      BY <3>2 DEF IInv, BarrierInv, Acknowledged
    <3>3. CASE n # m
      BY <3>1, <3>3 DEF IInv, BarrierInv, Acknowledged, Others
    <3> QED BY <3>2, <3>3
  <2>4. ASSUME NEW m \in Machines, NEW t \in Threads
        PROVE  /\ next[m][t] \in 0 .. TotalOps
               /\ sent[m][t] \subseteq [op : 1 .. TotalOps, key : Keys, to : Nat]
    <3>1. CASE generator # "dumped"
      BY <3>1, WorkloadIsSane DEF IInv, GetInv, NothingYet
    <3>2. CASE generator = "dumped"
      <4>1. SentOfChunk /\ next[m][t] \in Nat /\ Len(ops) <= TotalOps
        BY <2>1, <3>2 DEF IInv, GetInv, GetTypeOK, WorkloadTypeOK
      <4>2. next[m][t] \in 0 .. TotalOps
        BY <4>1, ChunkType, WorkloadIsSane DEF SentOfChunk, IInv
      <4>3. ASSUME NEW g \in sent[m][t]
            PROVE  g \in [op : 1 .. TotalOps, key : Keys, to : Nat]
        <5>1. g \in [op : Nat, key : Keys, to : Int]
          BY <2>1 DEF GetTypeOK
        <5>2. g.op \in DOMAIN ops /\ g.to = RemoteIndex(ops[g.op].node)
          BY <4>1 DEF SentOfChunk
        <5>3. g.op \in 1 .. TotalOps
          BY <4>1, <5>2, ChunkType, WorkloadIsSane DEF IInv
        <5>4. ops[g.op].node \in Nodes
          BY <5>2, OpsAreOperations DEF IInv
        <5>5. g.to \in Nat
          BY <5>2, <5>4, MachinesType DEF RemoteIndex, Nodes
        <5> QED BY <5>1, <5>3, <5>5
      <4> QED BY <4>2, <4>3
    <3> QED BY <3>1, <3>2
  <2>5. /\ ready \in [Machines -> 0 .. NumThreads] /\ done \in [Machines -> 0 .. NumThreads]
        /\ syncs \in [Machines -> [Machines -> 0 .. 2]]
    BY <2>1, <2>2, <2>3 DEF BarrierTypeOK
  <2>6. /\ next \in [Machines -> [Threads -> 0 .. TotalOps]]
        /\ sent \in [Machines -> [Threads -> SUBSET [op : 1 .. TotalOps, key : Keys, to : Nat]]]
    BY <2>1, <2>4 DEF GetTypeOK
  <2> QED BY <2>1, <2>5, <2>6 DEF TypeOK, BarrierTypeOK, GetTypeOK
<1> QED BY <1>1, Invariant, PTL

\* Whatever number of machines and threads there are, nobody starts its
\* workload before everybody is ready.
THEOREM StartsTogether == Spec => []StartTogether
<1>1. IInv => StartTogether
  <2> SUFFICES ASSUME IInv, NEW m \in Machines, NEW n \in Machines,
                        NEW t \in Threads, NEW u \in Threads,
                        at[m][t] \in {"work", "get", "done", "end"}
                 PROVE  at[n][u] # "new"
    BY DEF StartTogether
  <2>2. BarrierTypeOK /\ Leader \in Threads
    BY ThreadsAreFinite DEF IInv, BarrierInv
  <2>3. workload[m] # "idle"
    <3>1. CASE t = Leader
      BY <2>2, <3>1 DEF IInv, BarrierInv, LeaderPlace, Acknowledged, BarrierTypeOK
    <3>2. CASE t # Leader
      BY <3>2 DEF IInv, BarrierInv, ThreadPlace
    <3> QED BY <3>1, <3>2
  <2>4. round[n] # 0
    <3>1. CASE n = m
      BY <2>3, <3>1 DEF IInv, BarrierInv, LeaderPlace
    <3>2. CASE n # m
      <4>1. n \in Others(m)
        BY <3>2 DEF Others
      <4>2. Consumed(n, m) >= 1 /\ syncs[n][m] \in Nat
        BY <2>2, <2>3, <4>1 DEF IInv, BarrierInv, Acknowledged, BarrierTypeOK
      <4> QED BY <4>2 DEF Consumed
    <3> QED BY <3>1, <3>2
  <2>5. at[n][Leader] \notin {"new", "ready"}
    BY <2>4 DEF IInv, BarrierInv, LeaderPlace
  <2>6. Arrived(n) = Threads
    BY <2>5, PartsAreFinite DEF IInv, BarrierInv, Counted
  <2> QED BY <2>6 DEF Arrived
<1> QED BY <1>1, Invariant, PTL

\* Nobody returns before everybody has done its workload, although no message
\* names its round and gets may swallow messages.
THEOREM FinishesTogether == Spec => []FinishTogether
<1>1. IInv => FinishTogether
  <2> SUFFICES ASSUME IInv, NEW m \in Machines, NEW n \in Machines,
                        NEW t \in Threads, NEW u \in Threads, at[m][t] = "end"
                 PROVE  at[n][u] \notin {"new", "ready", "work", "get"}
    BY DEF FinishTogether
  <2>2. BarrierTypeOK /\ Leader \in Threads
    BY ThreadsAreFinite DEF IInv, BarrierInv
  <2>3. round[n] = 2
    <3>1. workload[m] = "done"
      <4>1. CASE t = Leader
        BY <4>1 DEF IInv, BarrierInv, LeaderPlace
      <4>2. CASE t # Leader
        BY <4>2 DEF IInv, BarrierInv, ThreadPlace
      <4> QED BY <4>1, <4>2
    <3>2. CASE n # m
      <4>1. n \in Others(m)
        BY <3>2 DEF Others
      <4>2. Consumed(n, m) >= 2 /\ syncs[n][m] \in Nat /\ round[n] \in 0 .. 2
        BY <2>2, <3>1, <4>1 DEF IInv, BarrierInv, Acknowledged, BarrierTypeOK
      <4> QED BY <4>2 DEF Consumed
    <3>3. CASE n = m
      BY <3>1, <3>3 DEF IInv, BarrierInv, LeaderPlace
    <3> QED BY <3>2, <3>3
  <2>4. Past(n) = Threads
    BY <2>3, PartsAreFinite DEF IInv, BarrierInv, Counted
  <2>5. at[n][u] \in {"done", "end"} \/ u = Leader
    BY <2>4 DEF Past
  <2> QED BY <2>2, <2>3, <2>5 DEF IInv, BarrierInv, LeaderPlace
<1> QED BY <1>1, Invariant, PTL

\* The operations of the partitioned distributions go where their keys are, but
\* for those of displaced keys.
THEOREM OnlyDisplacedGoAstray == Spec => []OnlyDisplacedMiss
<1>1. IInv => OnlyDisplacedMiss
  BY InvGivesHome DEF IInv
<1> QED BY <1>1, Invariant, PTL

\* The clients load the operations that were generated.
THEOREM FileHolds == Spec => []FileHoldsOps
<1>1. IInv => FileHoldsOps
  BY DEF IInv, WorkloadInv
<1> QED BY <1>1, Invariant, PTL

\* No two threads of a machine perform the same operation of the file.
THEOREM OpsNotShared == Spec => []OneThreadPerOp
<1>1. IInv => OneThreadPerOp
  <2> SUFFICES ASSUME IInv, NEW m \in Machines, NEW t \in Threads, NEW u \in Threads, t # u,
                        NEW g \in sent[m][t], NEW h \in sent[m][u], g.op = h.op
                 PROVE  FALSE
    BY DEF OneThreadPerOp
  <2>2. SentOfChunk
    BY DEF IInv, GetInv, NothingYet
  <2>3. Len(ops) \in Nat /\ t \in Nat /\ u \in Nat /\ NumThreads \in Nat \ {0} /\ g.op \in Int
    BY ChunkType, MachinesType, <2>2 DEF IInv, SentOfChunk
  <2>4. /\ ChunkBegin(Len(ops), NumThreads, t) < g.op /\ g.op <= ChunkEnd(Len(ops), NumThreads, t)
        /\ ChunkBegin(Len(ops), NumThreads, u) < g.op /\ g.op <= ChunkEnd(Len(ops), NumThreads, u)
    BY <2>2 DEF SentOfChunk
  <2> QED BY <2>3, <2>4, ChunksDisjoint
<1> QED BY <1>1, Invariant, PTL

\* Machines whose threads have all been through their chunks have performed
\* the whole file.
THEOREM OpsAllSent == Spec => []EveryOpSent
<1>1. IInv => EveryOpSent
  <2> SUFFICES ASSUME IInv, NEW m \in Machines, \A t \in Threads : passes[m][t] > 0,
                        NEW i \in DOMAIN ops
                 PROVE  \E t \in Threads : \E g \in sent[m][t] : g.op = i
    BY DEF EveryOpSent
  <2>2. SentOfChunk
    BY MachinesType DEF IInv, GetInv, NothingYet
  <2>3. Len(ops) \in Nat /\ i \in 1 .. Len(ops) /\ NumThreads \in Nat \ {0}
    BY ChunkType, MachinesType DEF IInv
  <2>4. PICK t \in Threads : /\ ChunkBegin(Len(ops), NumThreads, t) < i
                             /\ i <= ChunkEnd(Len(ops), NumThreads, t)
    BY <2>3, ChunksCover DEF Threads
  <2> DEFINE j == i - ChunkBegin(Len(ops), NumThreads, t)
  <2>5. j \in 1 .. ChunkEnd(Len(ops), NumThreads, t) - ChunkBegin(Len(ops), NumThreads, t)
        /\ ChunkBegin(Len(ops), NumThreads, t) + j = i
    BY <2>3, <2>4, ChunkType DEF IInv
  <2> HIDE DEF j
  <2>6. \E g \in sent[m][t] : g.op = ChunkBegin(Len(ops), NumThreads, t) + j
    BY <2>2, <2>5 DEF SentOfChunk
  <2> QED BY <2>5, <2>6
<1> QED BY <1>1, Invariant, PTL

\* The threads of a machine divide the file among them, for every number of
\* threads and every length of the file.
THEOREM OpsAreDivided == Spec => []OpsDivided
<1>1. OneThreadPerOp /\ EveryOpSent => OpsDivided
  BY DEF OpsDivided
<1> QED BY <1>1, OpsNotShared, OpsAllSent, PTL

\* Every get goes to a server, and in a partitioned distribution to the one that
\* preloads its key exactly if the key is not displaced.
THEOREM GetsReachHome == Spec => []RequestsReachHome
<1>1. IInv => RequestsReachHome
  <2> SUFFICES ASSUME IInv, NEW m \in Machines, NEW t \in Threads, NEW g \in sent[m][t]
                 PROVE  /\ g.to + 1 \in DOMAIN Roles /\ Roles[g.to + 1] = "server"
                        /\ dist \in Partitioned =>
                               (Preloads(g.to - StartClientIndex, g.key) <=> ~Displaced(g.key))
    BY DEF RequestsReachHome
  <2>2. SentOfChunk
    BY DEF IInv, GetInv, NothingYet
  <2> DEFINE o == ops[g.op]
  <2>3. g.op \in DOMAIN ops /\ g.key = o.key /\ g.to = RemoteIndex(o.node)
    BY <2>2 DEF SentOfChunk
  <2>4. o.key \in Keys /\ o.node \in Nodes /\ o.node \in Int
    BY <2>3, OpsAreOperations DEF IInv, Nodes
  <2>5. g.to + 1 = StartClientIndex + o.node /\ g.to - StartClientIndex = o.node - 1
    BY <2>3, <2>4, MachinesType DEF RemoteIndex
  <2>6. OnlyDisplacedMiss
    BY InvGivesHome DEF IInv
  <2> HIDE DEF o
  <2>7. dist \in Partitioned => (Preloads(o.node - 1, o.key) <=> ~Displaced(o.key))
    BY <2>3, <2>6 DEF OnlyDisplacedMiss, o
  <2> QED BY <2>3, <2>4, <2>5, <2>7, ServersListedTogether
<1> QED BY <1>1, Invariant, PTL

=============================================================================
