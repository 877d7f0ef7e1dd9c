------------------------- MODULE AccessClimb_proofs -------------------------
(***************************************************************************)
(* Proofs about the access-rate thread, for any number of keys, any access *)
(* counts and latencies, and any cache smaller than the database.          *)
(*                                                                         *)
(* Rankings: counting what comes before a key in the order of buckets and  *)
(* greater keys gives every index one key, so the index is the number of   *)
(* keys before it.  Searches: Speed is what each split that fits performs; *)
(* it stays the same while a search runs, because ranking and latencies    *)
(* do.  BestSoFar and Around say what each search knows half way, and      *)
(* BestTold and StopsAtPeak follow when it ends.                           *)
(***************************************************************************)
EXTENDS AccessClimb, FiniteSetTheorems, TLAPS

-----------------------------------------------------------------------------
(* Ranks in a finite strict order                                          *)

\* In a finite strict linear order, counting what comes before an element gives
\* each place from zero on to one element, and the places follow the order.
LEMMA Ranks ==
    ASSUME NEW S, IsFiniteSet(S), NEW R,
           \A p \in S : <<p, p>> \notin R,
           \A p, q, s \in S : <<p, q>> \in R /\ <<q, s>> \in R => <<p, s>> \in R,
           \A p, q \in S : p # q => <<p, q>> \in R \/ <<q, p>> \in R
    PROVE  LET rank == [p \in S |-> Cardinality({q \in S : <<q, p>> \in R})]
           IN  /\ rank \in Bijection(S, 0 .. Cardinality(S) - 1)
               /\ \A p, q \in S : <<p, q>> \in R <=> rank[p] < rank[q]
<1> DEFINE before(p) == {q \in S : <<q, p>> \in R}
           rank == [p \in S |-> Cardinality(before(p))]
           T == 0 .. Cardinality(S) - 1
<1>1. Cardinality(S) \in Nat
  BY FS_CardinalityType
<1>2. ASSUME NEW p \in S
      PROVE  /\ IsFiniteSet(before(p)) /\ rank[p] \in Nat
             /\ rank[p] < Cardinality(S)
  <2>1. before(p) \in SUBSET (S \ {p})
    OBVIOUS
  <2>2. IsFiniteSet(S \ {p}) /\ Cardinality(S \ {p}) = Cardinality(S) - 1
    BY FS_RemoveElement
  <2> HIDE DEF before
  <2>3. IsFiniteSet(before(p)) /\ Cardinality(before(p)) <= Cardinality(S) - 1
    BY <2>1, <2>2, FS_Subset
  <2>4. Cardinality(before(p)) \in Nat
    BY <2>3, FS_CardinalityType
  <2> QED BY <1>1, <2>3, <2>4
<1>3. ASSUME NEW p \in S, NEW q \in S, <<p, q>> \in R
      PROVE  rank[p] < rank[q]
  <2>1. p \notin before(p) /\ before(p) \union {p} \in SUBSET before(q)
    BY <1>3
  <2> HIDE DEF before
  <2>2. Cardinality(before(p) \union {p}) = Cardinality(before(p)) + 1
    BY <1>2, <2>1, FS_AddElement
  <2>3. Cardinality(before(p) \union {p}) <= Cardinality(before(q))
    BY <1>2, <2>1, FS_Subset
  <2>4. rank[p] \in Nat /\ rank[q] \in Nat
    BY <1>2
  <2> QED BY <2>2, <2>3, <2>4
<1> HIDE DEF before
<1>4. rank \in Injection(S, T)
  <2>1. rank \in [S -> T]
    BY <1>1, <1>2
  <2> HIDE DEF rank
  <2>2. ASSUME NEW p \in S, NEW q \in S, p # q
        PROVE  rank[p] # rank[q]
    <3>1. rank[p] \in Nat /\ rank[q] \in Nat
      BY <1>2
    <3>2. rank[p] < rank[q] \/ rank[q] < rank[p]
      BY <1>3, <2>2
    <3> QED BY <3>1, <3>2
  <2> QED BY <2>1, <2>2 DEF Injection, IsInjective
<1>5. IsFiniteSet(T) /\ Cardinality(T) = Cardinality(S)
  <2>1. IsFiniteSet(T) /\ Cardinality(T) = IF 0 > Cardinality(S) - 1 THEN 0
                                           ELSE Cardinality(S) - 1 - 0 + 1
    BY <1>1, FS_Interval
  <2> QED BY <1>1, <2>1
<1>6. rank \in Surjection(S, T)
  BY <1>4, <1>5, FS_Injection
<1>7. \A p, q \in S : <<p, q>> \in R <=> rank[p] < rank[q]
  <2> HIDE DEF rank
  <2>1. ASSUME NEW p \in S, NEW q \in S, rank[p] < rank[q]
        PROVE  <<p, q>> \in R
    <3>1. rank[p] \in Nat /\ rank[q] \in Nat
      BY <1>2
    <3>2. p # q /\ <<q, p>> \notin R
      BY <1>3, <2>1, <3>1
    <3> QED BY <3>2
  <2> QED BY <1>3, <2>1
<1> QED BY <1>4, <1>6, <1>7 DEF Bijection, before

-----------------------------------------------------------------------------
(* Counting accesses                                                       *)

LEMMA KeysAreFinite == IsFiniteSet(Keys) /\ Cardinality(Keys) = NumKeys
BY SizesAreSane, FS_Interval DEF Keys

\* Accesses of more keys are more accesses.
LEMMA AccessesCount ==
    ASSUME NEW f \in [Keys -> Nat], NEW A \in SUBSET Keys, NEW B \in SUBSET A
    PROVE  /\ Accesses(f, A) \in Nat /\ Accesses(f, B) \in Nat
           /\ Accesses(f, B) <= Accesses(f, A)
           /\ \A k \in A : f[k] > 0 => Accesses(f, A) > 0
<1> DEFINE parts(keys) == {{k} \X (1 .. f[k]) : k \in keys}
           all(keys) == UNION parts(keys)
<1>1. ASSUME NEW keys \in SUBSET Keys
      PROVE  IsFiniteSet(all(keys)) /\ Cardinality(all(keys)) \in Nat
  <2> DEFINE part == [k \in keys |-> {k} \X (1 .. f[k])]
  <2>1. IsFiniteSet(keys)
    BY KeysAreFinite, FS_Subset
  <2>2. part \in Surjection(keys, parts(keys))
    BY DEF Surjection
  <2>3. IsFiniteSet(parts(keys))
    <3> HIDE DEF part, parts
    <3> QED BY <2>1, <2>2, FS_Surjection
  <2>4. ASSUME NEW k \in keys
        PROVE  IsFiniteSet({k} \X (1 .. f[k]))
    <3>1. f[k] \in Int
      OBVIOUS
    <3>2. IsFiniteSet({k})
      BY FS_Singleton
    <3>3. IsFiniteSet(1 .. f[k])
      BY <3>1, FS_Interval
    <3> QED BY <3>2, <3>3, FS_Product
  <2>5. IsFiniteSet(all(keys))
    BY <2>3, <2>4, FS_UNION
  <2> HIDE DEF all
  <2> QED BY <2>5, FS_CardinalityType
<1>2. all(B) \in SUBSET all(A)
  OBVIOUS
<1>3. ASSUME NEW k \in A, f[k] > 0
      PROVE  Cardinality(all(A)) # 0
  <2>1. <<k, 1>> \in {k} \X (1 .. f[k])
    BY <1>3
  <2>2. <<k, 1>> \in all(A)
    BY <2>1
  <2> HIDE DEF all
  <2> QED BY <1>1, <2>2, FS_EmptySet
<1> HIDE DEF all
<1>4. /\ Cardinality(all(A)) \in Nat /\ Cardinality(all(B)) \in Nat
      /\ Cardinality(all(B)) <= Cardinality(all(A))
  <2>1. IsFiniteSet(all(A)) /\ A \in SUBSET Keys /\ B \in SUBSET Keys
    BY <1>1
  <2> QED BY <1>1, <1>2, <2>1, FS_Subset
<1>5. \A k \in A : f[k] > 0 => Cardinality(all(A)) > 0
  BY <1>3, <1>4
<1> QED BY <1>4, <1>5 DEF Accesses, all

\* A part of a whole is at most a hundred percent.
LEMMA Percentage ==
    ASSUME NEW a \in Nat, NEW b \in Nat \ {0}, a <= b
    PROVE  (a * 100) \div b \in 0 .. 100
<1> DEFINE q == (a * 100) \div b
<1>1. q \in Nat /\ b * q <= a * 100
  OBVIOUS
<1> HIDE DEF q
<1>2. CASE q >= 101
  <2>1. b * q = b * 101 + b * (q - 101) /\ b * (q - 101) >= 0
    BY <1>1, <1>2
  <2> QED BY <1>1, <2>1
<1> QED BY <1>1, <1>2 DEF q

-----------------------------------------------------------------------------
(* Rankings                                                                *)

\* What get_and_sort_freq makes of access counts: at each index a key with its
\* frequency and bucket, in the order of buckets and then of greater keys, no key
\* twice and none left out, and sums that only grow, up to all accesses.
RankingOK(f, r) ==
    /\ r \in [Indexes -> [key : Keys, freq : Frequencies, bucket : 0 .. 100, sum : Nat]]
    /\ \A i, j \in Indexes : Ahead(r[i], r[j]) <=> i < j
    /\ \A k \in Keys : \E i \in Indexes : r[i].key = k /\ r[i].freq = f[k]
    /\ \A i, j \in Indexes : i <= j => r[i].sum <= r[j].sum
    /\ r[NumKeys - 1].sum = Accesses(f, Keys)

LEMMA BucketTyped ==
    ASSUME NEW f \in AccessCounts, NEW k \in Keys
    PROVE  BucketOf(f, k) \in 0 .. 100
<1> DEFINE upTo == ByFrequency(f, k) \union {k}
<1>1. f \in [Keys -> Nat] /\ \E h \in Keys : f[h] > 0
  BY SizesAreSane
<1>2. upTo \in SUBSET Keys
  BY DEF ByFrequency
<1> HIDE DEF upTo
<1>3. /\ Accesses(f, upTo) \in Nat /\ Accesses(f, Keys) \in Nat \ {0}
      /\ Accesses(f, upTo) <= Accesses(f, Keys)
  BY <1>1, <1>2, AccessesCount
<1> QED BY <1>3, Percentage DEF BucketOf, upTo

LEMMA RankingIsOK ==
    ASSUME NEW f \in AccessCounts
    PROVE  RankingOK(f, Ranking(f))
<1> DEFINE place(k) == [key |-> k, bucket |-> BucketOf(f, k)]
           placed == {place(k) : k \in Keys}
           before(p) == {q \in placed : Ahead(q, p)}
           R == {pair \in placed \X placed : Ahead(pair[1], pair[2])}
           rank == [p \in placed |-> Cardinality(before(p))]
           keysTo(p) == {q.key : q \in before(p) \union {p}}
           at_(i) == CHOOSE q \in placed : Cardinality(before(q)) = i
           r == Ranking(f)
<1>0. f \in [Keys -> Nat] /\ NumKeys \in Nat \ {0}
  BY SizesAreSane
<1>1. IsFiniteSet(placed) /\ Cardinality(placed) = NumKeys
  <2> DEFINE b == [k \in Keys |-> place(k)]
  <2>1. b \in Bijection(Keys, placed)
    <3>1. \A k \in Keys : b[k] = place(k) /\ b[k].key = k
      OBVIOUS
    <3>2. \A k, h \in Keys : b[k] = b[h] => k = h
      BY <3>1
    <3>3. b \in [Keys -> placed]
      OBVIOUS
    <3>4. \A p \in placed : \E k \in Keys : b[k] = p
      BY <3>1
    <3> HIDE DEF b, placed
    <3> QED BY <3>2, <3>3, <3>4 DEF Bijection, Injection, Surjection, IsInjective
  <2> HIDE DEF b, placed
  <2> QED BY <2>1, KeysAreFinite, FS_Bijection DEF ExistsBijection
<1>2. \A p \in placed : /\ p.key \in Keys /\ p.bucket \in 0 .. 100
                        /\ p = [key |-> p.key, bucket |-> BucketOf(f, p.key)]
  BY BucketTyped
<1>3. \A p, q \in placed : p # q => p.key # q.key
  BY <1>2
<1> HIDE DEF placed
<1>4. /\ \A p \in placed : ~Ahead(p, p)
      /\ \A p, q, s \in placed : Ahead(p, q) /\ Ahead(q, s) => Ahead(p, s)
      /\ \A p, q \in placed : p # q => Ahead(p, q) \/ Ahead(q, p)
  <2>1. \A p \in placed : p.key \in Int /\ p.bucket \in Int
    BY <1>0, <1>2 DEF Keys
  <2> QED BY <1>3, <2>1 DEF Ahead
<1>5. \A p, q \in placed : <<p, q>> \in R <=> Ahead(p, q)
  OBVIOUS
<1>6. /\ rank \in Bijection(placed, Indexes)
      /\ \A p, q \in placed : Ahead(p, q) <=> rank[p] < rank[q]
  <2> HIDE DEF R
  <2>1. LET byR == [p \in placed |-> Cardinality({q \in placed : <<q, p>> \in R})]
        IN  /\ byR \in Bijection(placed, 0 .. NumKeys - 1)
            /\ \A p, q \in placed : <<p, q>> \in R <=> byR[p] < byR[q]
    BY <1>1, <1>4, <1>5, Ranks
  <2>2. \A p \in placed : {q \in placed : <<q, p>> \in R} = before(p)
    BY <1>5
  <2> QED BY <1>5, <2>1, <2>2 DEF Indexes
<1>7. ASSUME NEW i \in Indexes
      PROVE  at_(i) \in placed /\ rank[at_(i)] = i
  <2>1. \E q \in placed : rank[q] = i
    BY <1>6 DEF Bijection, Surjection
  <2>2. \E q \in placed : Cardinality(before(q)) = i
    BY <2>1
  <2> QED BY <2>2
<1>8. ASSUME NEW p \in placed
      PROVE  rank[p] \in Indexes /\ at_(rank[p]) = p
  <2>1. rank[p] \in Indexes
    BY <1>6 DEF Bijection, Surjection
  <2>2. at_(rank[p]) \in placed /\ rank[at_(rank[p])] = rank[p]
    BY <1>7, <2>1
  <2> QED BY <1>6, <2>1, <2>2 DEF Bijection, Injection, IsInjective
<1>9. r = [i \in Indexes |-> [key |-> at_(i).key, freq |-> f[at_(i).key],
                             bucket |-> at_(i).bucket,
                             sum |-> Accesses(f, keysTo(at_(i)))]]
  BY DEF Ranking, placed
<1> HIDE DEF at_, rank, r, keysTo, before
<1>10. ASSUME NEW i \in Indexes
       PROVE  /\ r[i].key = at_(i).key /\ r[i].freq = f[at_(i).key]
              /\ r[i].bucket = at_(i).bucket /\ r[i].sum = Accesses(f, keysTo(at_(i)))
  BY <1>9
<1>11. \A i, j \in Indexes : Ahead(at_(i), at_(j)) <=> i < j
  BY <1>6, <1>7
<1>12. \A k \in Keys : place(k) \in placed
  BY DEF placed
<1>13. ASSUME NEW i \in Indexes, NEW j \in Indexes, i <= j
       PROVE  keysTo(at_(i)) \in SUBSET keysTo(at_(j)) /\ keysTo(at_(j)) \in SUBSET Keys
  <2>1. i \in Int /\ j \in Int
    BY DEF Indexes
  <2>2. \A p \in placed : Ahead(p, at_(i)) => Ahead(p, at_(j))
    <3>1. at_(i) \in placed /\ at_(j) \in placed
      BY <1>7
    <3>2. i = j \/ Ahead(at_(i), at_(j))
      BY <1>11, <1>13, <2>1
    <3> QED BY <1>4, <3>1, <3>2
  <2>3. at_(i) = at_(j) \/ Ahead(at_(i), at_(j))
    BY <1>11, <1>13, <2>1
  <2>4. at_(i) \in placed /\ at_(j) \in placed
    BY <1>7
  <2>5. before(at_(i)) \union {at_(i)} \subseteq before(at_(j)) \union {at_(j)}
    BY <2>2, <2>3, <2>4 DEF before
  <2>6. before(at_(j)) \union {at_(j)} \subseteq placed
    BY <2>4 DEF before
  <2> HIDE DEF before
  <2>7. keysTo(at_(i)) \in SUBSET keysTo(at_(j))
    BY <2>5 DEF keysTo
  <2>8. keysTo(at_(j)) \in SUBSET Keys
    BY <1>2, <2>6 DEF keysTo
  <2> QED BY <2>7, <2>8
<1>14. keysTo(at_(NumKeys - 1)) = Keys
  <2> DEFINE last == NumKeys - 1
  <2>1. last \in Indexes
    BY <1>0 DEF Indexes
  <2>2. ASSUME NEW k \in Keys
        PROVE  k \in keysTo(at_(last))
    <3>1. place(k) \in placed /\ place(k).key = k
      BY <1>12
    <3>2. rank[place(k)] \in Indexes /\ at_(rank[place(k)]) = place(k)
      BY <1>8, <3>1
    <3> HIDE DEF place
    <3>3. place(k) = at_(last) \/ Ahead(place(k), at_(last))
      BY <1>0, <1>11, <2>1, <3>2 DEF Indexes
    <3> QED BY <3>1, <3>3 DEF keysTo, before
  <2> HIDE DEF last
  <2>3. keysTo(at_(last)) \subseteq Keys
    BY <1>13, <2>1 DEF Indexes
  <2> QED BY <2>2, <2>3 DEF last
<1>15. r \in [Indexes -> [key : Keys, freq : Frequencies, bucket : 0 .. 100, sum : Nat]]
  <2>1. ASSUME NEW i \in Indexes
        PROVE  /\ at_(i).key \in Keys /\ at_(i).bucket \in 0 .. 100
               /\ f[at_(i).key] \in Frequencies
               /\ Accesses(f, keysTo(at_(i))) \in Nat
    <3>1. at_(i).key \in Keys /\ at_(i).bucket \in 0 .. 100
      BY <1>2, <1>7
    <3>2. keysTo(at_(i)) \in SUBSET Keys
      BY <1>13 DEF Indexes
    <3>3. Accesses(f, keysTo(at_(i))) \in Nat
      BY <1>0, <3>2, AccessesCount
    <3> QED BY <3>1, <3>3 DEF Frequencies
  <2> QED BY <1>9, <2>1
<1>16. \A i, j \in Indexes : Ahead(r[i], r[j]) <=> i < j
  BY <1>10, <1>11 DEF Ahead
<1>17. \A k \in Keys : \E i \in Indexes : r[i].key = k /\ r[i].freq = f[k]
  <2>1. ASSUME NEW k \in Keys
        PROVE  \E i \in Indexes : at_(i).key = k
    <3>1. place(k) \in placed /\ place(k).key = k
      BY <1>12
    <3> HIDE DEF place
    <3> QED BY <1>8, <3>1
  <2> QED BY <1>10, <2>1
<1>18. \A i, j \in Indexes : i <= j => r[i].sum <= r[j].sum
  BY <1>0, <1>10, <1>13, AccessesCount
<1>19. r[NumKeys - 1].sum = Accesses(f, Keys)
  BY <1>0, <1>10, <1>14 DEF Indexes
<1> QED BY <1>15, <1>16, <1>17, <1>18, <1>19 DEF RankingOK, r

\* As many indexes come before one as its number says.
LEMMA IndexesBefore ==
    ASSUME NEW f, NEW r, RankingOK(f, r), NEW j \in Indexes
    PROVE  Cardinality({i \in Indexes : Ahead(r[i], r[j])}) = j
<1>1. {i \in Indexes : Ahead(r[i], r[j])} = 0 .. j - 1
  <2>1. \A i \in Indexes : Ahead(r[i], r[j]) <=> i < j
    BY DEF RankingOK
  <2>2. \A i : i \in Indexes /\ i < j <=> i \in 0 .. j - 1
    BY SizesAreSane DEF Indexes
  <2> QED BY <2>1, <2>2
<1>2. j \in Nat
  BY SizesAreSane DEF Indexes
<1>3. Cardinality(0 .. j - 1) = IF 0 > j - 1 THEN 0 ELSE j - 1 - 0 + 1
  BY <1>2, FS_Interval
<1>4. Cardinality(0 .. j - 1) = j
  BY <1>2, <1>3
<1> QED BY <1>1, <1>4

-----------------------------------------------------------------------------
(* Performances                                                            *)

LEMMA QuotientBound ==
    ASSUME NEW a \in Nat, NEW d \in Nat \ {0}
    PROVE  a \div d \in 0 .. a
<1> DEFINE q == a \div d
<1>1. q \in Nat /\ d * q <= a
  OBVIOUS
<1> HIDE DEF q
<1>2. d * q = q + (d - 1) * q /\ (d - 1) * q >= 0
  BY <1>1
<1> QED BY <1>1, <1>2 DEF q

LEMMA PerformanceTyped ==
    ASSUME TypeOK, NEW local \in Nat, NEW remote \in Nat
    PROVE  Performance(local, remote) \in 0 .. Word - 1
<1> DEFINE l == LocalAccesses(local)
           far == RemoteAccesses(local, remote)
           d == DiskAccesses(local, remote)
           sum == l * ns.cache + ((2 * far) \div 3) * ns.rdma
                  + (far \div 3) * ns.cache + d * ns.disk
<1>0. NumKeys \in Nat \ {0} /\ Word \in Nat \ {0}
  BY SizesAreSane
<1>1. \A i \in Nat : cdf[Clamped(i)].sum \in Nat
  BY <1>0 DEF TypeOK, Clamped, Indexes
<1>2. local + remote \in Nat /\ remote + local \in Nat
  OBVIOUS
<1>3. l \in Int /\ far \in Int /\ d \in Int
  BY <1>0, <1>1, <1>2 DEF LocalAccesses, RemoteAccesses, DiskAccesses, SumBetween
<1>4. ns.cache \in Nat /\ ns.rdma \in Nat /\ ns.disk \in Nat
  BY SizesAreSane DEF TypeOK
<1> HIDE DEF l, far, d
<1>5. sum \in Int
  <2>1. (2 * far) \div 3 \in Int /\ far \div 3 \in Int
    BY <1>3
  <2> HIDE DEF l
  <2> QED BY <1>3, <1>4, <2>1
<1>6. Latency(local, remote) = sum % Word
  BY DEF Latency, l, far, d
<1> HIDE DEF sum
<1>7. Latency(local, remote) \in 0 .. Word - 1
  BY <1>0, <1>5, <1>6
<1>8. CASE Latency(local, remote) = 0
  BY <1>0, <1>8 DEF Performance
<1>9. CASE Latency(local, remote) # 0
  <2>1. Latency(local, remote) \in Nat \ {0} /\ Word - 1 \in Nat
    BY <1>0, <1>7, <1>9
  <2>2. (Word - 1) \div Latency(local, remote) \in 0 .. Word - 1
    BY <2>1, QuotientBound
  <2> QED BY <1>9, <2>2 DEF Performance
<1> QED BY <1>8, <1>9

Shares == 0 .. CacheSize \div 3

\* The performance of each split that fits the cache.
Speed == [local \in Shares |-> Performance(local, CacheSize - 3 * local)]

LEMMA ShareFits ==
    ASSUME NEW local \in Int
    PROVE  /\ local \in Shares <=> local >= 0 /\ 3 * local <= CacheSize
           /\ local \in Shares => /\ CacheSize - 3 * local \in 0 .. CacheSize
                                  /\ local \in 0 .. NumKeys - 1
                                  /\ RemoteShare(local) = CacheSize - 3 * local
BY SizesAreSane, StepsAreSane DEF Shares, RemoteShare

LEMMA SpeedTyped == ASSUME TypeOK PROVE Speed \in [Shares -> 0 .. Word - 1]
<1> SUFFICES ASSUME NEW local \in Shares
             PROVE  Performance(local, CacheSize - 3 * local) \in 0 .. Word - 1
  BY DEF Speed
<1>1. local \in Nat /\ CacheSize - 3 * local \in Nat
  BY ShareFits DEF Shares
<1> QED BY <1>1, PerformanceTyped

\* With the same ranking and latencies a split performs the same.
LEMMA SpeedKept == ASSUME UNCHANGED <<cdf, ns>> PROVE Speed' = Speed
BY DEF Speed, Performance, Latency, LocalAccesses, RemoteAccesses, DiskAccesses, SumBetween

-----------------------------------------------------------------------------
(* The inductive invariant                                                 *)

Places == {"off", "start", "up", "down", "far", "tell"}

\* A split in use fills the cache, a climb keeps the loop's index at zero, its
\* turns count from one, and its way down starts from a split that fits.
Typed ==
    /\ TypeOK
    /\ climb \in [at : Places, turn : 0 .. 4, local : 0 .. CacheSize \div 3 + CoarseStep,
                  increased : BOOLEAN, decreased : BOOLEAN, improved : BOOLEAN, told : BOOLEAN]
    /\ 3 * best.local + best.remote = CacheSize
    /\ settings # None => 3 * settings.local + settings.remote = CacheSize
    /\ Climbing => at = 0
    /\ climb.at = "up" => climb.turn >= 1
    /\ climb.at = "down" => 3 * climb.local <= CacheSize

\* Once there is something to search or something told, keys are ranked.
Ranked == ~Idle \/ settings # None => cdf \in Rankings

\* Until the next search the settings name the ranking's key at the local mark.
AsTold == Published =>
    IF settings.local = 0 THEN settings.cutoff = Unset /\ settings.bucket = Unset
    ELSE /\ settings.bucket = cdf[settings.local].bucket
         /\ settings.cutoff = cdf[settings.local].key

\* The loop over all splits has found the best of those it has been through.
BestSoFar == ~Climbing /\ ~Idle =>
    /\ best.perf <= Speed[best.local]
    /\ \A local \in Shares : local < at => Speed[local] <= best.perf

BestTold == Published /\ ~climb.told =>
    \A local \in Shares : Speed[local] <= Speed[settings.local]

\* Of the three greater shares those before turn are no better than the best.
NoneAbove(turn) == \A i \in 1 .. 3 :
    i < turn /\ Fits(best.local + FineSteps[i]) => ~Better(Speed[best.local + FineSteps[i]])

NoneBelow == best.local - FineSteps[1] > 0 => ~Better(Speed[best.local - FineSteps[1]])

\* What a round knows of the shares around the best when it has not moved it.
Around ==
    /\ climb.at = "up" /\ ~climb.increased => NoneAbove(climb.turn)
    /\ climb.at = "down" =>
           /\ ~climb.increased
           /\ climb.decreased \/ (NoneAbove(4) /\ (climb.local = best.local \/ NoneBelow))
    /\ climb.at = "far" => ~climb.improved
    /\ climb.at = "tell" /\ climb.improved => NoneAbove(4) /\ NoneBelow

IInv == Typed /\ Ranked /\ AsTold /\ BestSoFar /\ BestTold /\ Around

LEMMA Sizes ==
    /\ NumKeys \in Nat \ {0} /\ CacheSize \in Nat /\ Word \in Nat \ {0} /\ CacheSize < Word
    /\ CacheSize \div 3 \in Nat /\ CacheSize \div 3 < NumKeys
    /\ CoarseStep \in Nat /\ \A i \in 1 .. 3 : FineSteps[i] \in Nat \ {0}
BY SizesAreSane, StepsAreSane

LEMMA InitIInv == ClimbInit => IInv
<1> SUFFICES ASSUME ClimbInit PROVE IInv
  OBVIOUS
<1> USE Sizes
<1>1. cdf \in [Indexes -> [key : Keys, freq : Frequencies, bucket : 0 .. 100, sum : Nat]]
  BY DEF ClimbInit, Init, Indexes, Keys, Frequencies
<1>2. TypeOK
  BY <1>1 DEF ClimbInit, Init, TypeOK
<1>3. Typed
  BY <1>2 DEF Typed, ClimbInit, Init, NotClimbing, Places, Climbing
<1>4. Ranked /\ AsTold /\ BestSoFar /\ BestTold /\ Around
  BY DEF ClimbInit, Init, NotClimbing, Climbing, Idle, Ranked, AsTold, BestSoFar, BestTold,
         Around, Published
<1> QED BY <1>3, <1>4 DEF IInv

-----------------------------------------------------------------------------
(* Each step preserves the invariant                                       *)

SpeedOK == Speed \in [Shares -> 0 .. Word - 1]

LEMMA SpeedTypedNext == TypeOK' => Speed' \in [Shares -> 0 .. Word - 1]
<1>1. TypeOK => SpeedOK
  BY SpeedTyped DEF SpeedOK
<1>2. TypeOK' => SpeedOK'
  BY <1>1, PTL
<1> QED BY <1>2 DEF SpeedOK

LEMMA RankingsTyped ==
    ASSUME NEW ranking \in Rankings
    PROVE  /\ \E f \in AccessCounts : RankingOK(f, ranking)
           /\ ranking \in [Indexes -> [key : Keys, freq : Frequencies,
                                       bucket : 0 .. 100, sum : Nat]]
BY RankingIsOK DEF Rankings, RankingOK

BestType == [perf : 0 .. Word - 1, local : 0 .. NumKeys - 1, remote : 0 .. CacheSize]

SettingsType == [local : 0 .. NumKeys - 1, remote : 0 .. CacheSize,
                 rate : Frequencies \union {Unset}, bucket : 0 .. 100 \union {Unset},
                 cutoff : Keys \union {Unset}]

\* What a split that fills the cache is told as.
LEMMA TellTold ==
    ASSUME Typed, Tell
    PROVE  /\ settings' \in SettingsType
           /\ settings'.local = best.local /\ settings'.remote = best.remote
           /\ 3 * settings'.local + settings'.remote = CacheSize
           /\ IF best.local = 0 THEN settings'.cutoff = Unset /\ settings'.bucket = Unset
              ELSE /\ settings'.bucket = cdf[best.local].bucket
                   /\ settings'.cutoff = cdf[best.local].key
           /\ at' = NumKeys + 1 /\ UNCHANGED <<cdf, ns, best>>
<1>1. best \in BestType /\ 3 * best.local + best.remote = CacheSize
  BY DEF Typed, TypeOK, BestType
<1>2. at' = NumKeys + 1 /\ UNCHANGED <<cdf, ns, best>>
  BY DEF Tell
<1>3. CASE best.local = 0
  <2>1. settings' = [local |-> best.local, remote |-> best.remote, rate |-> Unset,
                     bucket |-> Unset, cutoff |-> Unset]
    BY <1>3 DEF Tell, None
  <2> QED BY <1>1, <1>2, <1>3, <2>1 DEF SettingsType, BestType
<1>4. CASE best.local # 0
  <2>1. settings' = [local |-> best.local, remote |-> best.remote,
                     rate |-> cdf[best.local].freq, bucket |-> cdf[best.local].bucket,
                     cutoff |-> cdf[best.local].key]
    BY <1>4 DEF Tell
  <2>2. cdf[best.local] \in [key : Keys, freq : Frequencies, bucket : 0 .. 100, sum : Nat]
    BY <1>1 DEF Typed, TypeOK, BestType, Indexes
  <2> QED BY <1>1, <1>2, <1>4, <2>1, <2>2 DEF SettingsType, BestType
<1> QED BY <1>3, <1>4

LEMMA BestTyped ==
    ASSUME TypeOK, NEW local \in Shares, Take(local, Speed[local])
    PROVE  /\ best' \in BestType
           /\ 3 * best'.local + best'.remote = CacheSize
           /\ best'.local = local /\ best'.perf = Speed[local]
<1>1. best' = [perf |-> Speed[local], local |-> local, remote |-> CacheSize - 3 * local]
  BY DEF Take
<1>2. Speed[local] \in 0 .. Word - 1
  BY SpeedTyped
<1>3. CacheSize - 3 * local \in 0 .. CacheSize /\ local \in 0 .. NumKeys - 1
  BY ShareFits DEF Shares
<1> QED BY <1>1, <1>2, <1>3, Sizes DEF BestType

\* A climb on its way keeps what is said of the search and of the settings.
LEMMA OnTheWay ==
    ASSUME IInv, Climbing, Climbing', UNCHANGED <<cdf, ns, at, settings>>,
           Typed', Around'
    PROVE  IInv'
<1>1. at = 0 /\ ~Idle /\ ~Idle'
  BY Sizes DEF IInv, Typed, Idle
<1>2. Ranked' /\ AsTold' /\ BestTold' /\ BestSoFar'
  BY <1>1 DEF IInv, Ranked, AsTold, BestTold, BestSoFar, Published
<1> QED BY <1>2 DEF IInv

LEMMA CollectStep ==
    ASSUME IInv, ~Climbing, NEW ranking \in Rankings, NEW latencies \in Latencies,
           Collect(ranking, latencies), UNCHANGED climb
    PROVE  IInv'
<1>1. /\ cdf' = ranking /\ ns' = latencies /\ at' = 0
      /\ best' = [perf |-> 0, local |-> 0, remote |-> CacheSize]
      /\ settings' = settings /\ climb' = climb /\ ~Climbing'
  BY DEF Collect, Climbing
<1>2. TypeOK'
  BY <1>1, RankingsTyped, Sizes DEF IInv, Typed, TypeOK
<1>3. Typed'
  BY <1>1, <1>2, Sizes DEF IInv, Typed
<1>4. ~Idle' /\ Ranked' /\ AsTold' /\ BestTold'
  BY <1>1, Sizes DEF Idle, Ranked, AsTold, BestTold, Published
<1>5. BestSoFar'
  <2>1. 0 \in Shares /\ \A local \in Shares : ~(local < at')
    BY <1>1, Sizes DEF Shares
  <2>2. Speed'[0] \in 0 .. Word - 1
    BY <1>2, <2>1, SpeedTypedNext
  <2>3. best'.local = 0 /\ best'.perf = 0
    BY <1>1
  <2>4. best'.perf <= Speed'[best'.local]
    BY <2>2, <2>3, Sizes
  <2> QED BY <1>1, <2>1, <2>4 DEF BestSoFar
<1>6. Around'
  BY <1>1 DEF Around, Climbing
<1> QED BY <1>3, <1>4, <1>5, <1>6 DEF IInv

LEMMA TryStep ==
    ASSUME IInv, ~Climbing, Try, UNCHANGED climb
    PROVE  IInv'
<1>1. /\ ~Idle /\ ~OutOfRange(at) /\ at' = at + 1
      /\ UNCHANGED <<cdf, ns, settings, climb>> /\ ~Climbing'
  BY DEF Try, Climbing
<1>2. at \in Shares /\ at < NumKeys /\ RemoteShare(at) = CacheSize - 3 * at
  <2>1. at \in Nat /\ at < NumKeys /\ at <= CacheSize \div 3
    BY <1>1, Sizes DEF IInv, Typed, TypeOK, OutOfRange
  <2>2. at \in Shares
    BY <2>1, Sizes DEF Shares
  <2> QED BY <2>1, <2>2, ShareFits
<1>3. IF Speed[at] > best.perf THEN Take(at, Speed[at]) ELSE best' = best
  BY <1>2 DEF Try, Take, Speed
<1>4. best \in BestType /\ Speed \in [Shares -> 0 .. Word - 1] /\ Speed' = Speed
  BY <1>1, SpeedTyped, SpeedKept DEF IInv, Typed, TypeOK, BestType
<1>5. best' \in BestType /\ 3 * best'.local + best'.remote = CacheSize
  BY <1>2, <1>3, <1>4, BestTyped DEF IInv, Typed
<1>6. Typed'
  BY <1>1, <1>2, <1>5, Sizes DEF IInv, Typed, TypeOK, BestType
<1>7. ~Idle' /\ Ranked' /\ AsTold' /\ BestTold'
  BY <1>1, <1>2, Sizes DEF IInv, Idle, Ranked, AsTold, BestTold, Published, Shares
<1>8. BestSoFar'
  <2>1. /\ best.perf <= Speed[best.local]
        /\ \A local \in Shares : local < at => Speed[local] <= best.perf
    BY <1>1 DEF IInv, BestSoFar
  <2>2. \A local \in Shares : local < at + 1 => local < at \/ local = at
    BY <1>2, Sizes DEF Shares
  <2>3. best.perf \in Int /\ \A local \in Shares : Speed[local] \in Int
    BY <1>4 DEF BestType
  <2>4. CASE Speed[at] > best.perf
    <3>1. best'.local = at /\ best'.perf = Speed[at]
      BY <1>2, <1>3, <2>4, BestTyped DEF IInv, Typed
    <3>2. \A local \in Shares : local < at + 1 => Speed[local] <= Speed[at]
      BY <1>2, <2>1, <2>2, <2>3, <2>4
    <3> QED BY <1>1, <1>2, <1>4, <2>3, <3>1, <3>2 DEF BestSoFar
  <2>5. CASE ~(Speed[at] > best.perf)
    <3>1. best' = best
      BY <1>3, <2>5
    <3>2. \A local \in Shares : local < at + 1 => Speed[local] <= best.perf
      BY <1>2, <2>1, <2>2, <2>3, <2>5
    <3> QED BY <1>1, <1>4, <2>1, <3>1, <3>2 DEF BestSoFar
  <2> QED BY <2>4, <2>5
<1>9. Around'
  BY <1>1 DEF Around, Climbing
<1> QED BY <1>6, <1>7, <1>8, <1>9 DEF IInv

\* The search ends: every split that fits has been tried.
LEMMA PublishStep ==
    ASSUME IInv, ~Climbing, Publish, climb' = NotClimbing
    PROVE  IInv'
<1>1. ~Idle /\ OutOfRange(at) /\ Tell
  BY DEF Publish
<1>2. /\ settings' \in SettingsType
      /\ settings'.local = best.local /\ settings'.remote = best.remote
      /\ 3 * settings'.local + settings'.remote = CacheSize
      /\ IF best.local = 0 THEN settings'.cutoff = Unset /\ settings'.bucket = Unset
         ELSE /\ settings'.bucket = cdf[best.local].bucket
              /\ settings'.cutoff = cdf[best.local].key
      /\ at' = NumKeys + 1 /\ UNCHANGED <<cdf, ns, best>>
  BY <1>1, TellTold DEF IInv
<1>3. ~Climbing' /\ climb' = NotClimbing
  BY DEF Climbing, NotClimbing
<1>4. Typed'
  BY <1>2, <1>3, Sizes DEF IInv, Typed, TypeOK, SettingsType, NotClimbing, Places
<1>5. Ranked' /\ AsTold'
  BY <1>1, <1>2 DEF IInv, Ranked, AsTold
<1>6. BestSoFar' /\ Around'
  BY <1>2, <1>3 DEF BestSoFar, Idle, Around, NotClimbing
<1>7. BestTold'
  <2>1. /\ best.perf <= Speed[best.local]
        /\ \A local \in Shares : local < at => Speed[local] <= best.perf
    BY <1>1 DEF IInv, BestSoFar
  <2>2. \A local \in Shares : local < at
    BY <1>1, Sizes DEF OutOfRange, Shares, IInv, Typed, TypeOK
  <2>3. Speed \in [Shares -> 0 .. Word - 1] /\ Speed' = Speed
    BY <1>2, SpeedTyped, SpeedKept DEF IInv, Typed
  <2>4. best \in BestType /\ best.local \in Shares
    <3>1. best \in BestType /\ 3 * best.local + best.remote = CacheSize
      BY DEF IInv, Typed, TypeOK, BestType
    <3> QED BY <3>1, ShareFits DEF BestType
  <2>5. \A local \in Shares : Speed[local] <= Speed[best.local]
    <3>1. best.perf \in Int /\ Speed[best.local] \in Int
      BY <2>3, <2>4 DEF BestType
    <3>2. \A local \in Shares : Speed[local] \in Int /\ Speed[local] <= best.perf
      BY <2>1, <2>2, <2>3
    <3> QED BY <2>1, <3>1, <3>2
  <2> QED BY <1>2, <2>3, <2>5 DEF BestTold
<1> QED BY <1>4, <1>5, <1>6, <1>7 DEF IInv

LEMMA StartClimbStep ==
    ASSUME IInv, NEW ranking \in Rankings, NEW latencies \in Latencies,
           StartClimb(ranking, latencies)
    PROVE  IInv'
<1>1. /\ cdf' = ranking /\ ns' = latencies /\ at' = 0 /\ UNCHANGED <<best, settings>>
      /\ climb' = [at |-> "start", turn |-> 0, local |-> 0, increased |-> FALSE,
                   decreased |-> FALSE, improved |-> FALSE, told |-> climb.told]
  BY DEF StartClimb, NotClimbing
<1>2. TypeOK'
  BY <1>1, RankingsTyped, Sizes DEF IInv, Typed, TypeOK
<1>3. Typed'
  BY <1>1, <1>2, Sizes DEF IInv, Typed, Places
<1>4. ~Idle' /\ Climbing' /\ climb'.at = "start"
  BY <1>1, Sizes DEF Idle, Climbing
<1>5. Ranked' /\ AsTold' /\ BestTold' /\ BestSoFar' /\ Around'
  BY <1>1, <1>4 DEF Ranked, AsTold, BestTold, BestSoFar, Around, Published
<1> QED BY <1>3, <1>5 DEF IInv

ClimbType ==
    [at : Places, turn : 0 .. 4, local : 0 .. CacheSize \div 3 + CoarseStep,
     increased : BOOLEAN, decreased : BOOLEAN, improved : BOOLEAN, told : BOOLEAN]

\* Steps of a climb leave the loop's index and the settings alone.
LEMMA ClimbTyped ==
    ASSUME Typed, Climbing, UNCHANGED <<cdf, ns, at, settings>>,
           best' \in BestType, 3 * best'.local + best'.remote = CacheSize,
           climb' \in ClimbType,
           climb'.at = "up" => climb'.turn >= 1,
           climb'.at = "down" => 3 * climb'.local <= CacheSize
    PROVE  Typed'
<1>1. TypeOK'
  BY DEF Typed, TypeOK, BestType
<1> QED BY <1>1 DEF Typed, ClimbType

LEMMA MeasureStep == ASSUME IInv, Measure PROVE IInv'
<1>1. /\ climb.at = "start" /\ Climbing /\ UNCHANGED <<cdf, ns, at, settings>>
      /\ climb' = [climb EXCEPT !.at = "up", !.turn = 1, !.increased = FALSE,
                                !.decreased = FALSE]
      /\ best' = [perf |-> Performance(InUse, CacheSize - 3 * InUse),
                  local |-> InUse, remote |-> CacheSize - 3 * InUse]
  BY DEF Measure, NewRound, Climbing
<1>2. InUse \in Shares
  <2>1. CASE settings = None
    BY <2>1, Sizes DEF InUse, Shares
  <2>2. CASE settings # None
    <3>1. settings.local \in 0 .. NumKeys - 1 /\ settings.remote \in 0 .. CacheSize
          /\ 3 * settings.local + settings.remote = CacheSize
      BY <2>2 DEF IInv, Typed, TypeOK
    <3> QED BY <2>2, <3>1, ShareFits DEF InUse
  <2> QED BY <2>1, <2>2
<1> HIDE DEF InUse
<1>3. Take(InUse, Speed[InUse])
  BY <1>1, <1>2 DEF Take, Speed
<1>4. climb \in ClimbType
  BY DEF IInv, Typed, ClimbType
<1>5. climb' \in ClimbType /\ climb'.at = "up" /\ climb'.turn = 1
  <2>1. /\ climb.local \in 0 .. CacheSize \div 3 + CoarseStep
        /\ climb.improved \in BOOLEAN /\ climb.told \in BOOLEAN
        /\ climb' = [at |-> "up", turn |-> 1, local |-> climb.local, increased |-> FALSE,
                     decreased |-> FALSE, improved |-> climb.improved, told |-> climb.told]
    BY <1>1, <1>4 DEF ClimbType
  <2> QED BY <2>1 DEF ClimbType, Places
<1>6. Typed' /\ Climbing'
  BY <1>1, <1>2, <1>3, <1>5, BestTyped, ClimbTyped DEF IInv, Typed, Climbing
<1>7. Around'
  BY <1>5 DEF Around, NoneAbove
<1> QED BY <1>1, <1>6, <1>7, OnTheWay

\* Up or down, a better share is taken and another changes nothing.
LEMMA TakenOrNot ==
    ASSUME Typed, NEW local \in Shares,
           IF Better(Speed[local]) THEN Take(local, Speed[local]) ELSE UNCHANGED best
    PROVE  best' \in BestType /\ 3 * best'.local + best'.remote = CacheSize
<1>1. best \in BestType
  BY DEF Typed, TypeOK, BestType
<1> QED BY <1>1, BestTyped DEF Typed

LEMMA UpStep == ASSUME IInv, Up PROVE IInv'
<1> DEFINE p == Speed[Higher]
           i == climb.turn
<1>1. climb.at = "up" /\ i \in 1 .. 3 /\ climb \in ClimbType
  BY DEF Up, IInv, Typed, ClimbType
<1>2. Higher = best.local + FineSteps[i] /\ Fits(Higher) /\ Higher \in Shares
  <2>1. best.local \in Nat /\ FineSteps[i] \in Nat
    BY <1>1, Sizes DEF IInv, Typed, TypeOK
  <2>2. Higher = best.local + FineSteps[i] /\ Fits(Higher)
    BY DEF Up, Higher
  <2> QED BY <2>1, <2>2, ShareFits DEF Fits
<1>3. /\ IF Better(p) THEN Take(Higher, p) ELSE UNCHANGED best
      /\ climb' = [climb EXCEPT !.turn = @ + 1, !.increased = @ \/ Better(p),
                                !.improved = @ \/ Better(p)]
      /\ UNCHANGED <<cdf, ns, at, settings>>
  BY <1>2 DEF Up, Speed
<1>4. Speed' = Speed
  BY <1>3, SpeedKept
<1>5. Better(p) \in BOOLEAN
  BY DEF Better
<1>6. /\ climb' \in ClimbType /\ climb'.at = "up" /\ climb'.turn = i + 1
      /\ climb'.increased = (climb.increased \/ Better(p))
  <2>1. /\ climb.local \in 0 .. CacheSize \div 3 + CoarseStep
        /\ climb.increased \in BOOLEAN /\ climb.decreased \in BOOLEAN
        /\ climb.improved \in BOOLEAN /\ climb.told \in BOOLEAN
    BY <1>1 DEF ClimbType
  <2>2. climb' = [at |-> "up", turn |-> i + 1, local |-> climb.local,
                  increased |-> climb.increased \/ Better(p), decreased |-> climb.decreased,
                  improved |-> climb.improved \/ Better(p), told |-> climb.told]
    BY <1>1, <1>3 DEF ClimbType
  <2> QED BY <1>1, <1>5, <2>1, <2>2 DEF ClimbType, Places
<1>7. Typed' /\ Climbing'
  BY <1>1, <1>2, <1>3, <1>6, TakenOrNot, ClimbTyped DEF IInv, Climbing
<1>8. Around'
  <2>1. CASE climb'.increased
    BY <1>6, <2>1 DEF Around
  <2>2. CASE ~climb'.increased
    <3>1. ~climb.increased /\ ~Better(p) /\ best' = best
      BY <1>3, <1>6, <2>2
    <3>2. NoneAbove(i)
      BY <1>1, <3>1 DEF IInv, Around
    <3>3. \A j \in 1 .. 3 : j < i + 1 => j < i \/ j = i
      BY <1>1
    <3>4. NoneAbove(climb.turn)'
      BY <1>2, <1>4, <1>6, <3>1, <3>2, <3>3 DEF NoneAbove, Better
    <3> QED BY <1>6, <3>4 DEF Around
  <2> QED BY <2>1, <2>2
<1> QED BY <1>1, <1>3, <1>7, <1>8, OnTheWay DEF Climbing

\* A round that moved the best is followed by another; one that did not ends the
\* rounds, with a split to tell if an earlier round improved it.
LEMMA RoundEnds ==
    ASSUME Typed, NEW c \in ClimbType
    PROVE  /\ AfterRound(c) \in ClimbType /\ AfterRound(c).at # "off"
           /\ AfterRound(c).at # "down" /\ AfterRound(c).improved = c.improved
           /\ c.increased \/ c.decreased => AfterRound(c).at = "up" /\ AfterRound(c).turn = 1
           /\ ~c.increased /\ ~c.decreased =>
                 AfterRound(c).at = IF c.improved THEN "tell" ELSE "far"
<1>1. best.local + CoarseStep \in 0 .. CacheSize \div 3 + CoarseStep
  <2>1. best.local \in Shares
    BY ShareFits DEF Typed, TypeOK
  <2> QED BY <2>1, Sizes DEF Shares
<1>2. /\ c.turn \in 0 .. 4 /\ c.local \in 0 .. CacheSize \div 3 + CoarseStep
      /\ c.increased \in BOOLEAN /\ c.decreased \in BOOLEAN
      /\ c.improved \in BOOLEAN /\ c.told \in BOOLEAN
  BY DEF ClimbType
<1>3. CASE c.increased \/ c.decreased
  <2>1. AfterRound(c) = [at |-> "up", turn |-> 1, local |-> c.local, increased |-> FALSE,
                         decreased |-> FALSE, improved |-> c.improved, told |-> c.told]
    BY <1>3 DEF AfterRound, NewRound, ClimbType
  <2> QED BY <1>2, <1>3, <2>1 DEF ClimbType, Places
<1>4. CASE ~(c.increased \/ c.decreased)
  <2>1. AfterRound(c) = [at |-> IF c.improved THEN "tell" ELSE "far", turn |-> c.turn,
                         local |-> best.local + CoarseStep, increased |-> c.increased,
                         decreased |-> c.decreased, improved |-> c.improved, told |-> c.told]
    BY <1>4 DEF AfterRound, ClimbType
  <2> QED BY <1>1, <1>2, <1>4, <2>1 DEF ClimbType, Places
<1> QED BY <1>3, <1>4

\* The way up ends with the third share or with one that does not fit, and then
\* the greater ones do not fit either.
LEMMA UpEndsStep == ASSUME IInv, UpEnds PROVE IInv'
<1>1. /\ climb.at = "up" /\ climb \in ClimbType /\ Typed
      /\ UNCHANGED <<cdf, ns, at, best, settings>>
  BY DEF UpEnds, IInv, Typed, ClimbType, vars
<1>2. Speed' = Speed /\ best' \in BestType /\ 3 * best'.local + best'.remote = CacheSize
  BY <1>1, SpeedKept DEF Typed, TypeOK, BestType
<1>3. CASE climb.increased
  <2>1. climb' = AfterRound(climb)
    BY <1>3 DEF UpEnds
  <2>2. climb' \in ClimbType /\ climb'.at = "up" /\ climb'.turn = 1
    BY <1>1, <1>3, <2>1, RoundEnds
  <2>3. Typed' /\ Climbing'
    BY <1>1, <1>2, <2>2, ClimbTyped DEF Climbing
  <2>4. Around'
    BY <2>2 DEF Around, NoneAbove
  <2> QED BY <1>1, <2>3, <2>4, OnTheWay DEF Climbing
<1>4. CASE ~climb.increased
  <2>1. climb' = [climb EXCEPT !.at = "down", !.local = best.local]
    BY <1>4 DEF UpEnds
  <2>2. best.local \in Shares /\ best.local \in Nat
    BY ShareFits DEF IInv, Typed, TypeOK
  <2>3. climb' \in ClimbType /\ climb'.at = "down" /\ climb'.local = best.local
        /\ climb'.increased = climb.increased
    <3>1. /\ climb.turn \in 0 .. 4 /\ climb.increased \in BOOLEAN
          /\ climb.decreased \in BOOLEAN /\ climb.improved \in BOOLEAN
          /\ climb.told \in BOOLEAN
      BY <1>1 DEF ClimbType
    <3>2. climb' = [at |-> "down", turn |-> climb.turn, local |-> best.local,
                    increased |-> climb.increased, decreased |-> climb.decreased,
                    improved |-> climb.improved, told |-> climb.told]
      BY <1>1, <2>1 DEF ClimbType
    <3>3. best.local \in 0 .. CacheSize \div 3 + CoarseStep
      BY <2>2, Sizes DEF Shares
    <3> QED BY <3>1, <3>2, <3>3 DEF ClimbType, Places
  <2>4. Typed' /\ Climbing'
    BY <1>1, <1>2, <2>2, <2>3, ClimbTyped, ShareFits DEF Climbing
  <2>5. NoneAbove(climb.turn) /\ climb.turn \in 1 .. 4
    BY <1>1, <1>4 DEF IInv, Around, Typed
  <2>6. ASSUME NEW i \in 1 .. 3, Fits(best.local + FineSteps[i])
        PROVE  i < climb.turn
    <3>1. CASE climb.turn <= 3
      <4>1. ~Fits(best.local + FineSteps[climb.turn])
        BY <2>5, <3>1 DEF UpEnds, Higher
      <4>2. climb.turn <= i => FineSteps[climb.turn] <= FineSteps[i]
        BY <2>5, <3>1, StepsAreSane
      <4>3. FineSteps[climb.turn] \in Nat /\ FineSteps[i] \in Nat
        BY <2>5, <3>1, Sizes
      <4> QED BY <2>2, <2>5, <2>6, <4>1, <4>2, <4>3, Sizes DEF Fits
    <3>2. CASE climb.turn > 3
      BY <2>5, <3>2
    <3> QED BY <2>5, <3>1, <3>2
  <2>7. NoneAbove(4)'
    BY <1>1, <1>2, <2>5, <2>6 DEF NoneAbove, Better
  <2>8. Around'
    BY <1>1, <1>4, <2>3, <2>7 DEF Around
  <2> QED BY <1>1, <2>4, <2>8, OnTheWay DEF Climbing
<1> QED BY <1>3, <1>4

LEMMA SeenBelow ==
    ASSUME NEW c \in ClimbType, NEW share, NEW better \in BOOLEAN, NEW seen,
           seen = [c EXCEPT !.local = share, !.decreased = @ \/ better, !.improved = @ \/ better]
    PROVE  seen = [at |-> c.at, turn |-> c.turn, local |-> share,
                   increased |-> c.increased, decreased |-> c.decreased \/ better,
                   improved |-> c.improved \/ better, told |-> c.told]
BY DEF ClimbType

LEMMA DownStep == ASSUME IInv, Down PROVE IInv'
<1> DEFINE p == Speed[Lower]
           seen == [climb EXCEPT !.local = Lower, !.decreased = @ \/ Better(p),
                                 !.improved = @ \/ Better(p)]
<1>1. climb.at = "down" /\ climb \in ClimbType /\ Lower > 0 /\ Typed /\ ~climb.increased
  BY DEF Down, IInv, Typed, ClimbType, Around
<1>2. Lower = climb.local - FineSteps[1] /\ Lower \in Shares
  <2>1. climb.local \in Nat /\ FineSteps[1] \in Nat /\ 3 * climb.local <= CacheSize
    BY <1>1, Sizes DEF ClimbType, Typed
  <2>2. Lower = climb.local - FineSteps[1]
    BY DEF Lower
  <2> QED BY <1>1, <2>1, <2>2, Sizes, ShareFits
<1>3. /\ IF Better(p) THEN Take(Lower, p) ELSE UNCHANGED best
      /\ climb' = IF Worse(p) THEN AfterRound(seen) ELSE seen
      /\ UNCHANGED <<cdf, ns, at, settings>>
  BY <1>2 DEF Down, Speed
<1>4. Speed' = Speed
  BY <1>3, SpeedKept
<1>5. /\ seen \in ClimbType /\ seen.at = "down" /\ seen.local = Lower
      /\ seen.increased = climb.increased
      /\ seen.decreased = (climb.decreased \/ Better(p))
  <2>1. /\ climb.turn \in 0 .. 4
        /\ climb.increased \in BOOLEAN /\ climb.decreased \in BOOLEAN
        /\ climb.improved \in BOOLEAN /\ climb.told \in BOOLEAN /\ Better(p) \in BOOLEAN
    BY <1>1 DEF ClimbType, Better
  <2>2. seen = [at |-> "down", turn |-> climb.turn, local |-> Lower,
                increased |-> climb.increased, decreased |-> climb.decreased \/ Better(p),
                improved |-> climb.improved \/ Better(p), told |-> climb.told]
    <3> DEFINE better == Better(p)
    <3>1. /\ better \in BOOLEAN
          /\ seen = [climb EXCEPT !.local = Lower, !.decreased = @ \/ better,
                                  !.improved = @ \/ better]
      BY <2>1
    <3> HIDE DEF seen, better
    <3>2. seen = [at |-> climb.at, turn |-> climb.turn, local |-> Lower,
                  increased |-> climb.increased, decreased |-> climb.decreased \/ better,
                  improved |-> climb.improved \/ better, told |-> climb.told]
      BY <1>1, <3>1, SeenBelow
    <3> QED BY <1>1, <3>2 DEF better
  <2>3. Lower \in 0 .. CacheSize \div 3 + CoarseStep
    BY <1>2, Sizes DEF Shares
  <2> HIDE DEF seen, p
  <2> QED BY <2>1, <2>2, <2>3 DEF ClimbType, Places
<1> HIDE DEF seen, p
<1>6. climb' \in ClimbType /\ climb'.at # "off"
  BY <1>1, <1>3, <1>5, RoundEnds
<1>7. Typed' /\ Climbing'
  <2>1. best' \in BestType /\ 3 * best'.local + best'.remote = CacheSize
    BY <1>1, <1>2, <1>3, TakenOrNot DEF p
  <2>2. climb'.at = "up" => climb'.turn >= 1
    <3>1. seen.increased \in BOOLEAN /\ seen.decreased \in BOOLEAN
      BY <1>5 DEF ClimbType
    <3> QED BY <1>1, <1>3, <1>5, <3>1, RoundEnds
  <2>3. climb'.at = "down" => 3 * climb'.local <= CacheSize
    BY <1>1, <1>2, <1>3, <1>5, RoundEnds, ShareFits
  <2> QED BY <1>1, <1>3, <1>6, <2>1, <2>2, <2>3, ClimbTyped DEF Climbing
<1>8. CASE seen.decreased
  <2>1. climb'.at \in {"up", "down"} /\ (climb'.at = "up" => climb'.turn = 1)
        /\ (climb'.at = "down" => ~climb'.increased /\ climb'.decreased)
    BY <1>1, <1>3, <1>5, <1>8, RoundEnds
  <2>2. Around'
    BY <2>1 DEF Around, NoneAbove
  <2> QED BY <1>1, <1>3, <1>7, <2>2, OnTheWay DEF Climbing
<1>9. CASE ~seen.decreased
  <2>1. ~climb.decreased /\ ~Better(p) /\ best' = best
    BY <1>3, <1>5, <1>9
  <2>2. NoneAbove(4) /\ (climb.local = best.local \/ NoneBelow)
    BY <1>1, <2>1 DEF IInv, Around
  <2>3. NoneBelow
    BY <1>2, <2>1, <2>2 DEF NoneBelow, p
  <2>4. NoneAbove(4)' /\ NoneBelow'
    BY <1>4, <2>1, <2>2, <2>3 DEF NoneAbove, NoneBelow, Better
  <2>5. climb'.at # "up" /\ (climb'.at = "down" => ~climb'.increased)
        /\ (climb'.at = "far" => ~climb'.improved)
    BY <1>1, <1>3, <1>5, <1>9, RoundEnds
  <2>6. Around'
    BY <2>4, <2>5 DEF Around
  <2> QED BY <1>1, <1>3, <1>7, <2>6, OnTheWay DEF Climbing
<1> QED BY <1>8, <1>9

LEMMA DownEndsStep == ASSUME IInv, DownEnds PROVE IInv'
<1>1. /\ climb.at = "down" /\ climb \in ClimbType /\ Lower <= 0 /\ Typed /\ ~climb.increased
      /\ climb' = AfterRound(climb) /\ UNCHANGED <<cdf, ns, at, best, settings>>
  BY DEF DownEnds, IInv, Typed, ClimbType, Around, vars
<1>2. Speed' = Speed /\ best' \in BestType /\ 3 * best'.local + best'.remote = CacheSize
  BY <1>1, SpeedKept DEF Typed, TypeOK, BestType
<1>3. /\ climb' \in ClimbType /\ climb'.at # "off" /\ climb'.at # "down"
      /\ climb.decreased => climb'.at = "up" /\ climb'.turn = 1
      /\ ~climb.decreased => climb'.at = (IF climb.improved THEN "tell" ELSE "far")
                             /\ climb'.improved = climb.improved
  BY <1>1, RoundEnds
<1>4. climb.decreased \in BOOLEAN
  BY <1>1 DEF ClimbType
<1>5. climb'.at = "up" => climb'.turn >= 1
  BY <1>3, <1>4
<1>6. Typed' /\ Climbing'
  BY <1>1, <1>2, <1>3, <1>5, ClimbTyped DEF Climbing
<1>7. Around'
  <2>1. CASE climb.decreased
    BY <1>3, <2>1 DEF Around, NoneAbove
  <2>2. CASE ~climb.decreased
    <3>1. NoneAbove(4) /\ (climb.local = best.local \/ NoneBelow)
      BY <1>1, <2>2 DEF IInv, Around
    <3>2. climb.local = best.local => ~(best.local - FineSteps[1] > 0)
      BY <1>1, Sizes DEF Lower, Typed, TypeOK
    <3>3. NoneAbove(4)' /\ NoneBelow'
      BY <1>1, <1>2, <3>1, <3>2 DEF NoneAbove, NoneBelow, Better
    <3> QED BY <1>3, <2>2, <3>3 DEF Around
  <2> QED BY <2>1, <2>2
<1> QED BY <1>1, <1>6, <1>7, OnTheWay DEF Climbing

\* The great steps come only after rounds that improved nothing.
LEMMA FarStep == ASSUME IInv, Far \/ FarEnds PROVE IInv'
<1>1. /\ climb.at = "far" /\ climb \in ClimbType /\ Typed /\ ~climb.improved
      /\ UNCHANGED <<cdf, ns, at, settings>>
  BY DEF Far, FarEnds, IInv, Typed, ClimbType, Around, vars
<1>2. /\ best' \in BestType /\ 3 * best'.local + best'.remote = CacheSize
      /\ climb' \in ClimbType /\ climb'.at \in {"far", "tell"} /\ ~climb'.improved
  <2>1. CASE Far
    <3>1. Fits(Farther) /\ Farther \in Shares
      <4>1. climb.local \in Nat
        BY <1>1, Sizes DEF ClimbType
      <4>2. Fits(Farther) /\ Farther = climb.local + CoarseStep
        BY <2>1 DEF Far, Farther
      <4> QED BY <4>1, <4>2, Sizes, ShareFits DEF Fits
    <3>2. /\ IF Better(Speed[Farther]) THEN Take(Farther, Speed[Farther]) ELSE UNCHANGED best
          /\ climb' = [climb EXCEPT !.local = Farther,
                                    !.at = IF Worse(Speed[Farther]) THEN "tell" ELSE @]
      BY <2>1, <3>1 DEF Far, Speed
    <3>3. best' \in BestType /\ 3 * best'.local + best'.remote = CacheSize
      BY <1>1, <3>1, <3>2, TakenOrNot
    <3>4. \E place \in {"far", "tell"} : climb' = [climb EXCEPT !.local = Farther, !.at = place]
      BY <1>1, <3>2
    <3>5. Farther \in 0 .. CacheSize \div 3 + CoarseStep
      BY <3>1, Sizes DEF Shares
    <3>6. climb' \in ClimbType /\ climb'.at \in {"far", "tell"} /\ ~climb'.improved
      BY <1>1, <3>4, <3>5 DEF ClimbType, Places
    <3> QED BY <3>3, <3>6
  <2>2. CASE FarEnds
    <3>1. climb' = [climb EXCEPT !.at = "tell"] /\ best' = best
      BY <2>2 DEF FarEnds, vars
    <3> QED BY <1>1, <3>1 DEF ClimbType, Places, Typed, TypeOK, BestType
  <2> QED BY <2>1, <2>2
<1>3. Typed' /\ Climbing'
  BY <1>1, <1>2, ClimbTyped DEF Climbing
<1>4. Around'
  BY <1>2 DEF Around
<1> QED BY <1>1, <1>3, <1>4, OnTheWay DEF Climbing

LEMMA TellClimbedStep == ASSUME IInv, TellClimbed PROVE IInv'
<1>1. climb.at = "tell" /\ Tell /\ at = 0 /\ ~Idle
  BY Sizes DEF TellClimbed, IInv, Typed, Climbing, Idle
<1>2. climb' = [at |-> "off", turn |-> 0, local |-> 0, increased |-> FALSE,
                decreased |-> FALSE, improved |-> FALSE, told |-> TRUE]
  BY DEF TellClimbed, NotClimbing
<1>3. /\ settings' \in SettingsType
      /\ settings'.local = best.local /\ settings'.remote = best.remote
      /\ 3 * settings'.local + settings'.remote = CacheSize
      /\ IF best.local = 0 THEN settings'.cutoff = Unset /\ settings'.bucket = Unset
         ELSE /\ settings'.bucket = cdf[best.local].bucket
              /\ settings'.cutoff = cdf[best.local].key
      /\ at' = NumKeys + 1 /\ UNCHANGED <<cdf, ns, best>>
  BY <1>1, TellTold DEF IInv
<1>4. Typed'
  BY <1>2, <1>3, Sizes DEF IInv, Typed, TypeOK, SettingsType, Places, Climbing
<1>5. Ranked' /\ AsTold'
  BY <1>1, <1>3 DEF IInv, Ranked, AsTold
<1>6. BestSoFar' /\ BestTold' /\ Around'
  BY <1>2, <1>3 DEF BestSoFar, BestTold, Idle, Around
<1> QED BY <1>4, <1>5, <1>6 DEF IInv

LEMMA NextIInv == IInv /\ [ClimbNext]_climbVars => IInv'
<1> SUFFICES ASSUME IInv, [ClimbNext]_climbVars PROVE IInv'
  OBVIOUS
<1>1. CASE Search
  BY <1>1, CollectStep, TryStep, PublishStep DEF Search
<1>2. CASE \E ranking \in Rankings, latencies \in Latencies : StartClimb(ranking, latencies)
  BY <1>2, StartClimbStep
<1>3. CASE ClimbStep
  BY <1>3, MeasureStep, UpStep, UpEndsStep, DownStep, DownEndsStep, FarStep, TellClimbedStep
     DEF ClimbStep
<1>4. CASE UNCHANGED climbVars
  <2>1. UNCHANGED <<cdf, ns, at, best, settings, climb>>
    BY <1>4 DEF climbVars, vars
  <2>2. Speed' = Speed
    BY <2>1, SpeedKept
  <2>3. Typed' /\ Ranked' /\ AsTold'
    BY <2>1 DEF IInv, Typed, TypeOK, Ranked, AsTold, Climbing, Idle, Published
  <2>4. BestSoFar' /\ BestTold' /\ Around'
    BY <2>1, <2>2 DEF IInv, BestSoFar, BestTold, Around, NoneAbove, NoneBelow, Better,
                      Climbing, Idle, Published
  <2> QED BY <2>3, <2>4 DEF IInv
<1> QED BY <1>1, <1>2, <1>3, <1>4 DEF ClimbNext

LEMMA Invariance == ClimbSpec => []IInv
BY InitIInv, NextIInv, PTL DEF ClimbSpec

-----------------------------------------------------------------------------
(* The theorems                                                            *)

\* Rankings, splits, marks and the place of a climb keep their types
\* (access_rate_calculations.cpp: both searches and what the policy is told).
THEOREM TypeCorrect == ClimbSpec => []ClimbOK
<1>1. IInv => ClimbOK
  BY DEF IInv, Typed, ClimbOK, Places
<1> QED BY <1>1, Invariance, PTL

\* Whichever search runs, three local shares and the shared part fill the cache:
\* cache_size - 3 * local, unsigned in one and signed in the other, never wraps.
THEOREM SplitsFillCache == ClimbSpec => []NoWrap
<1>1. IInv => NoWrap
  BY DEF IInv, Typed, NoWrap
<1> QED BY <1>1, Invariance, PTL

\* The bucket and the key the policy is told cut the ranking at the local water
\* mark: as many keys come before them as each server is to keep for itself.
THEOREM CutoffIsExact == ClimbSpec => []CutoffMatchesWaterMark
<1>1. ASSUME IInv, Published, settings.local # 0
      PROVE  settings.local = Cardinality({i \in Indexes :
                \/ cdf[i].bucket < settings.bucket
                \/ cdf[i].bucket = settings.bucket /\ cdf[i].key > settings.cutoff})
  <2> DEFINE mark == settings.local
  <2>1. PICK f \in AccessCounts : RankingOK(f, cdf)
    BY <1>1, RankingsTyped DEF IInv, Ranked, Published
  <2>2. mark \in Indexes
    BY <1>1 DEF IInv, Typed, TypeOK, Published, Indexes
  <2>3. settings.bucket = cdf[mark].bucket /\ settings.cutoff = cdf[mark].key
    BY <1>1 DEF IInv, AsTold
  <2>4. Cardinality({i \in Indexes : Ahead(cdf[i], cdf[mark])}) = mark
    BY <2>1, <2>2, IndexesBefore
  <2> HIDE DEF mark
  <2>5. {i \in Indexes : \/ cdf[i].bucket < settings.bucket
                         \/ cdf[i].bucket = settings.bucket /\ cdf[i].key > settings.cutoff}
        = {i \in Indexes : Ahead(cdf[i], cdf[mark])}
    BY <2>3 DEF Ahead
  <2> QED BY <2>4, <2>5 DEF mark
<1>2. IInv => CutoffMatchesWaterMark
  BY <1>1 DEF CutoffMatchesWaterMark, IInv, AsTold
<1> QED BY <1>2, Invariance, PTL

\* The search over all splits tells the policy one that performs as well as any
\* other that fits the cache, whatever the ranking and the latencies.
THEOREM SearchFindsBest == ClimbSpec => []SearchedIsBest
<1>1. ASSUME IInv, Published, ~climb.told, NEW local \in Shares
      PROVE  Performance(local, CacheSize - 3 * local)
                <= Performance(settings.local, settings.remote)
  <2>1. /\ settings.local \in 0 .. NumKeys - 1 /\ settings.remote \in 0 .. CacheSize
        /\ 3 * settings.local + settings.remote = CacheSize
    BY <1>1 DEF IInv, Typed, TypeOK, Published
  <2>2. settings.local \in Shares /\ settings.remote = CacheSize - 3 * settings.local
    BY <2>1, Sizes, ShareFits
  <2>3. Speed[local] <= Speed[settings.local]
    BY <1>1 DEF IInv, BestTold
  <2>4. \A share \in Shares : Speed[share] = Performance(share, CacheSize - 3 * share)
    BY DEF Speed
  <2>5. Speed[settings.local] = Performance(settings.local, settings.remote)
    BY <2>2, <2>4
  <2> QED BY <2>3, <2>4, <2>5
<1>2. IInv => SearchedIsBest
  BY <1>1 DEF SearchedIsBest, ChosenIsBest, Shares
<1> QED BY <1>2, Invariance, PTL

\* Where get_best_access_rates stops by itself, none of the three greater shares
\* nor the next smaller one is better, as far as floats tell.
THEOREM ClimbStopsAtPeak == ClimbSpec => []StopsAtPeak
<1>1. ASSUME IInv, climb.at = "tell", climb.improved, NEW local, local > 0, Fits(local),
             \/ \E i \in 1 .. 3 : local = best.local + FineSteps[i]
             \/ local = best.local - FineSteps[1]
      PROVE  ~Better(Performance(local, CacheSize - 3 * local))
  <2>0. \A i \in 1 .. 3 : FineSteps[i] \in Nat
    BY Sizes
  <2>1. best.local \in Nat /\ \A i \in 1 .. 3 : FineSteps[i] \in Nat
    <3>1. best.local \in Nat
      BY <1>1, Sizes DEF IInv, Typed, TypeOK
    <3> QED BY <2>0, <3>1
  <2>2. local \in Int
    BY <1>1, <2>1
  <2>3. local \in Shares
    BY <1>1, <2>2, ShareFits DEF Fits
  <2>4. NoneAbove(4) /\ NoneBelow
    BY <1>1 DEF IInv, Around
  <2>5. ~Better(Speed[local])
    BY <1>1, <2>4 DEF NoneAbove, NoneBelow
  <2> QED BY <2>3, <2>5 DEF Speed
<1>2. IInv => StopsAtPeak
  BY <1>1 DEF StopsAtPeak
<1> QED BY <1>2, Invariance, PTL

\* The running sums of a ranking only grow, so the unsigned difference in
\* get_sum_freq_till_index never wraps while either search uses it.
THEOREM SumsNeverWrap ==
    ClimbSpec => [](~Idle => \A start, end \in Nat : start <= end => SumBetween(start, end) >= 0)
<1>1. ASSUME IInv, ~Idle, NEW start \in Nat, NEW end \in Nat, start <= end
      PROVE  SumBetween(start, end) >= 0
  <2>1. PICK f \in AccessCounts : RankingOK(f, cdf)
    BY <1>1, RankingsTyped DEF IInv, Ranked
  <2>2. /\ Clamped(start) \in Indexes /\ Clamped(end) \in Indexes
        /\ Clamped(start) <= Clamped(end)
    BY <1>1, Sizes DEF Clamped, Indexes
  <2>3. /\ cdf[Clamped(start)].sum <= cdf[Clamped(end)].sum
        /\ cdf[Clamped(start)].sum \in Nat /\ cdf[Clamped(end)].sum \in Nat
    BY <2>1, <2>2 DEF RankingOK
  <2> QED BY <2>3 DEF SumBetween
<1>2. IInv => (~Idle => \A start, end \in Nat : start <= end => SumBetween(start, end) >= 0)
  BY <1>1
<1> QED BY <1>2, Invariance, PTL

=============================================================================
