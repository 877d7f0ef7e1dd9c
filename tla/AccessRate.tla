----------------------------- MODULE AccessRate -----------------------------
(***************************************************************************)
(* The access-rate thread of a server (policy access_rate_dynamic).  Now   *)
(* and then it takes the keys' access frequencies, ranks the keys, tries   *)
(* every split of the cache into keys that each server keeps for itself    *)
(* and keys that one server keeps for all, and hands the best split to the *)
(* cache policy, with the key that marks its end in the ranking.           *)
(*                                                                         *)
(* Ranking: keys by descending frequency fall into buckets by the          *)
(* percentage of all accesses reached so far; inside a bucket they are     *)
(* sorted by descending key.  A ranking is given here by the keys that     *)
(* come before each key, a sum of frequencies by the accesses it counts.   *)
(* Unsigned 64-bit numbers are numbers modulo Word.                        *)
(***************************************************************************)
EXTENDS Integers, FiniteSets

CONSTANTS
    NumKeys,        \* get_block_db_num_entries
    CacheSize,      \* get_cache_size, in keys
    NameOrder,      \* the place of each key's decimal name among all, as strings
    AccessCounts,   \* how often each key may have been accessed in a period
    Latencies,      \* records [cache, rdma, disk]: latencies measured last
    Word            \* 2 to the number of bits of an unsigned number

Keys == 1 .. NumKeys

ASSUME SizesAreSane ==
    /\ NumKeys \in Nat \ {0} /\ CacheSize \in Nat /\ Word \in Nat /\ CacheSize < Word
    /\ NameOrder \in [Keys -> Nat]
    /\ \A f \in AccessCounts : f \in [Keys -> Nat] /\ \E k \in Keys : f[k] > 0
    /\ Latencies \subseteq [cache : Nat, rdma : Nat, disk : Nat]

Unset == Word - 1       \* uint64_t(-1)
None == [local |-> Unset, remote |-> Unset, rate |-> Unset, bucket |-> Unset, cutoff |-> Unset]

VARIABLES
    cdf,        \* the ranking: key, accesses, running sum and bucket at each index
    ns,         \* latencies of the cache, of a remote cache and of the disk
    at,         \* index of the loop over the splits, NumKeys + 1: not running
    best,       \* best split so far: its performance and both water marks
    settings    \* what the cache policy was told last

vars == <<cdf, ns, at, best, settings>>

Indexes == 0 .. NumKeys - 1

-----------------------------------------------------------------------------
(* get_and_sort_freq                                                       *)

\* How often the keys of a set were accessed: an access is a key and a number.
Accesses(f, keys) == Cardinality(UNION {{k} \X (1 .. f[k]) : k \in keys})

\* Of keys accessed equally often the one with the greater name comes first.
\* Where keys without an access stand does not matter: they add nothing.
ByFrequency(f, k) ==
    {h \in Keys : f[h] > f[k] \/ (f[h] = f[k] /\ NameOrder[h] > NameOrder[k])}

\* The percentage of all accesses that fall to the keys up to k in that order.
BucketOf(f, k) == (Accesses(f, ByFrequency(f, k) \union {k}) * 100) \div Accesses(f, Keys)

\* Mutant: a bucket's keys are sorted by ascending key.
AheadAscending(a, b) == a.bucket < b.bucket \/ (a.bucket = b.bucket /\ a.key < b.key)

\* a comes before b in the final ranking.
Ahead(a, b) == a.bucket < b.bucket \/ (a.bucket = b.bucket /\ a.key > b.key)

\* The sorted vector and the map of running sums, for access counts f.
Ranking(f) ==
    LET placed == {[key |-> k, bucket |-> BucketOf(f, k)] : k \in Keys}
        ahead(p) == {q \in placed : Ahead(q, p)}
    IN [i \in Indexes |->
          LET p == CHOOSE q \in placed : Cardinality(ahead(q)) = i
          IN [key |-> p.key, freq |-> f[p.key], bucket |-> p.bucket,
              sum |-> Accesses(f, {q.key : q \in ahead(p) \union {p}})]]

\* Rankings of a period with some access: without any, Buckets divides by zero.
Rankings == {Ranking(f) : f \in AccessCounts}

-----------------------------------------------------------------------------
(* calculate_performance                                                   *)

Clamped(i) == IF i >= NumKeys THEN NumKeys - 1 ELSE i

\* get_sum_freq_till_index: accesses after index start, up to index end.
SumBetween(start, end) == cdf[Clamped(end)].sum - cdf[Clamped(start)].sum

LocalAccesses(local) == SumBetween(0, local)
RemoteAccesses(local, remote) == SumBetween(local, local + remote)
DiskAccesses(local, remote) == SumBetween(remote + local, NumKeys)

Latency(local, remote) ==
    LET far == RemoteAccesses(local, remote)
    IN (LocalAccesses(local) * ns.cache
        + ((2 * far) \div 3) * ns.rdma + (far \div 3) * ns.cache
        + DiskAccesses(local, remote) * ns.disk) % Word

Performance(local, remote) ==
    LET latency == Latency(local, remote)
    IN IF latency = 0 THEN 0 ELSE (Word - 1) \div latency

-----------------------------------------------------------------------------
(* itr_through_all_the_perf_values_to_find_optimal                         *)

Idle == at = NumKeys + 1

Init ==
    /\ cdf = [i \in Indexes |-> [key |-> i + 1, freq |-> 0, bucket |-> 0, sum |-> 0]]
    /\ ns \in Latencies
    /\ at = NumKeys + 1
    /\ best = [perf |-> 0, local |-> 0, remote |-> CacheSize]
    /\ settings = None

\* The thread wakes up, ranks the keys and starts the search.
Collect(ranking, latencies) ==
    /\ Idle
    /\ cdf' = ranking /\ ns' = latencies
    /\ at' = 0
    /\ best' = [perf |-> 0, local |-> 0, remote |-> CacheSize]
    /\ UNCHANGED settings

RemoteShare(local) == (CacheSize - 3 * local) % Word

\* Mutant: only remote < 0 ends the loop, which an unsigned number never is.
OutOfRangeNever(local) == local >= NumKeys

\* The loop ends with the ranking, or when three local shares exceed the cache.
OutOfRange(local) == local >= NumKeys \/ local > CacheSize \div 3

\* Mutant: a better split is taken but its performance is not.
TryForgets ==
    /\ ~Idle /\ ~OutOfRange(at)
    /\ LET p == Performance(at, RemoteShare(at))
       IN best' = IF p > best.perf
                  THEN [best EXCEPT !.local = at, !.remote = RemoteShare(at)] ELSE best
    /\ at' = at + 1
    /\ UNCHANGED <<cdf, ns, settings>>

\* One turn of the loop.
Try ==
    /\ ~Idle /\ ~OutOfRange(at)
    /\ LET p == Performance(at, RemoteShare(at))
       IN best' = IF p > best.perf
                  THEN [perf |-> p, local |-> at, remote |-> RemoteShare(at)] ELSE best
    /\ at' = at + 1
    /\ UNCHANGED <<cdf, ns, settings>>

\* set_water_marks, set_access_rate, set_bucket_id, set_key_id_cutoff.
Tell ==
    /\ settings' = IF best.local = 0
             THEN [None EXCEPT !.local = best.local, !.remote = best.remote]
             ELSE [local |-> best.local, remote |-> best.remote,
                   rate |-> cdf[best.local].freq, bucket |-> cdf[best.local].bucket,
                   cutoff |-> cdf[best.local].key]
    /\ at' = NumKeys + 1
    /\ UNCHANGED <<cdf, ns, best>>

Publish == ~Idle /\ OutOfRange(at) /\ Tell

Next ==
    \/ \E ranking \in Rankings, latencies \in Latencies : Collect(ranking, latencies)
    \/ Try
    \/ Publish

Spec == Init /\ [][Next]_vars

-----------------------------------------------------------------------------
Frequencies == {0} \union UNION {{f[k] : k \in Keys} : f \in AccessCounts}

\* Loop, splits and settings have their types, frequencies their bound.
TypeOK ==
    /\ cdf \in [Indexes -> [key : Keys, freq : Frequencies, bucket : 0 .. 100, sum : Nat]]
    /\ ns \in Latencies
    /\ at \in 0 .. NumKeys + 1
    /\ best \in [perf : 0 .. Word - 1, local : 0 .. NumKeys - 1, remote : 0 .. CacheSize]
    /\ settings = None \/
       settings \in [local : 0 .. NumKeys - 1, remote : 0 .. CacheSize,
                     rate : Frequencies \union {Unset}, bucket : 0 .. 100 \union {Unset},
                     cutoff : Keys \union {Unset}]

\* Three servers' local shares and the shared part fill the cache and no more:
\* the unsigned cache_size - 3 * local never wraps round in a split that counts.
NoWrap == \A split \in {best, settings} :
    split # None => 3 * split.local + split.remote = CacheSize

Published == Idle /\ settings # None

\* What the policy was told last is a split as good as any other that fits.
ChosenIsBest == Published =>
    \A local \in 0 .. CacheSize \div 3 : local < NumKeys =>
        Performance(local, CacheSize - 3 * local)
            <= Performance(settings.local, settings.remote)

\* The keys ranked before the cutoff, by bucket and then by greater key, are as
\* many as the local water mark says; with nothing kept locally nothing is cut.
CutoffMatchesWaterMark == Published =>
    IF settings.local = 0 THEN settings.cutoff = Unset /\ settings.bucket = Unset
    ELSE settings.local = Cardinality({i \in Indexes :
            \/ cdf[i].bucket < settings.bucket
            \/ cdf[i].bucket = settings.bucket /\ cdf[i].key > settings.cutoff})

=============================================================================
