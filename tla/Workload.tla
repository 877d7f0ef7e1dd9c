------------------------------ MODULE Workload ------------------------------
(***************************************************************************)
(* The operations the clients perform: ldc --dump_operations writes the    *)
(* dataset's keys, draws a key and a server for each operation as the      *)
(* configured distribution says, and dumps them to operations.txt.  Every  *)
(* client machine loads that file and gives each of its threads a chunk of *)
(* it (get_chunk).  A run of the generator is one behaviour of this module;*)
(* ClientSync goes on with the clients.                                    *)
(*                                                                         *)
(* A draw (rand() % n) is a choice among n, and by zero it is a crash.     *)
(* The dataset's keys are 1 .. NumKeys; keys[i] of the code is key i + 1.  *)
(***************************************************************************)
EXTENDS Integers, Sequences, FiniteSets

CONSTANTS
    NumKeys,            \* NUM_KEY_VALUE_PAIRS
    NumNodes,           \* NUM_NODES
    TotalOps,           \* TOTAL_OPERATIONS
    HotPercents,        \* the values of HOT_KEY_PERCENTAGE tried, in percent
    HotAccessPercent,   \* HOT_KEY_ACCESS_PERCENTAGE, in percent
    HotThreads,         \* HOT_THREAD
    RdmaThreads,        \* RDMA_THREAD
    Distributions       \* the values of DISTRIBUTION_TYPE tried

ASSUME WorkloadIsSane ==
    /\ NumNodes \in Nat \ {0} /\ NumKeys \in Nat /\ NumKeys >= NumNodes
    /\ TotalOps \in Nat
    /\ HotPercents \subseteq 0 .. 100 /\ HotAccessPercent \in 0 .. 100
    /\ HotThreads \in Nat /\ RdmaThreads \in Nat /\ HotThreads + RdmaThreads > 0

\* Two distributions name nodes 2 and 3 whatever NUM_NODES is.
ASSUME DistributionsFit ==
    /\ "SECOND_NODE_ONLY" \in Distributions => NumNodes >= 2
    /\ "SPLIT" \in Distributions => NumNodes >= 3

VARIABLES
    dist,       \* DISTRIBUTION_TYPE
    hot,        \* the hot keys
    threads,    \* SPLIT: the thread ids still to come in the shuffled order
    ops,        \* operationSet
    file,       \* the numbers in operations.txt
    generator   \* "off", "on", "crashed", "dumped"

workloadVars == <<dist, hot, threads, ops, file, generator>>

-----------------------------------------------------------------------------
(* Dataset, servers and the chunks of the client threads                   *)

Keys == 1 .. NumKeys
Nodes == 1 .. NumNodes

\* READ_OP, and the value-initialized op of an operation built without one.
ReadOp == 82
NoOp == 0

KeysPerNode == NumKeys \div NumNodes

\* The server of a key in the partitioned distributions, counted from 1.
HomeFromZero(k) == (((k - 1) \div KeysPerNode) % NumNodes) + 1        \* mutant
Home(k) == ((k \div KeysPerNode) % NumNodes) + 1

\* start_keys <= k < end_keys: server s, counted from 0, preloads key k.
Preloads(s, k) == s * NumKeys <= k * NumNodes /\ k * NumNodes < (s + 1) * NumKeys

Least(a, b) == IF a <= b THEN a ELSE b

\* Chunk i of n of a sequence of the given length: the positions after
\* ChunkBegin up to ChunkEnd.
ChunkBegin(length, n, i) == (i * (length \div n)) + Least(i, (length % n))
ChunkEndEven(length, n, i) == ((i + 1) * (length \div n)) + Least(i, (length % n))   \* mutant
ChunkEnd(length, n, i) == ((i + 1) * (length \div n)) + Least(i + 1, (length % n))

\* operations.txt holds a line of key, node and op for each operation.
DumpWithoutOp(s) ==                                                 \* mutant
    [j \in 1 .. 2 * Len(s) |->
        LET o == s[((j - 1) \div 2) + 1] IN IF (j - 1) % 2 = 0 THEN o.key ELSE o.node]

DumpOf(s) ==
    [j \in 1 .. 3 * Len(s) |->
        LET o == s[((j - 1) \div 3) + 1]
            column == (j - 1) % 3
        IN  IF column = 0 THEN o.key ELSE IF column = 1 THEN o.node ELSE o.op]

\* An incomplete last line is dropped.
LoadOf(f) ==
    [i \in 1 .. Len(f) \div 3 |->
        [key |-> f[3 * i - 2], node |-> f[3 * i - 1], op |-> f[3 * i]]]

-----------------------------------------------------------------------------
(* Hot keys                                                                *)

Shuffled == {"ZIPFIAN", "ZIPFIAN_PARTITIONED"}
SingleNode == {"SINGLE_NODE", "SECOND_NODE_ONLY", "RDMA_ONLY"}
Skewed == Shuffled \union SingleNode

\* newKeySet: the middle third, startIdx up to endIdx.
StartIdx == NumKeys \div 3
EndIdx == (2 * NumKeys) \div 3

\* The first numHotKeys of the key order: any keys after the shuffle, or the
\* first of the middle third.
HotSets(d, p) ==
    IF d \in Shuffled
    THEN {S \in SUBSET Keys : Cardinality(S) = (p * NumKeys) \div 100}
    ELSE IF d \in SingleNode \union {"SPLIT"}
    THEN {StartIdx + 1 .. StartIdx + ((p * (EndIdx - StartIdx)) \div 100)}
    ELSE {{}}

HotKeyOps == (HotAccessPercent * TotalOps) \div 100

\* Hot keys for the first HotKeyOps operations, then the other keys.
Drawn == IF Len(ops) < HotKeyOps THEN hot ELSE Keys \ hot

TotalThreads == HotThreads + RdmaThreads
OpsPerThread == TotalOps \div TotalThreads

\* How many operations there are to be: SPLIT drops a remainder.
Size ==
    IF dist = "SPLIT" THEN OpsPerThread * TotalThreads
    ELSE IF dist = "YCSB" THEN 0 ELSE TotalOps

-----------------------------------------------------------------------------
WorkloadInit ==
    /\ dist \in Distributions
    /\ hot = {}
    /\ threads = 0 .. TotalThreads - 1
    /\ ops = <<>>
    /\ file = <<>>
    /\ generator = "off"

\* generateDatabaseAndOperationSet up to the generator's loop.
StartGenerator ==
    /\ generator = "off"
    /\ generator' = "on"
    /\ \E p \in HotPercents : hot' \in HotSets(dist, p)
    /\ UNCHANGED <<dist, threads, ops, file>>

Drawing(d) == generator = "on" /\ dist \in d /\ Len(ops) < Size

Push(k, n, o) ==
    /\ ops' = Append(ops, [key |-> k, node |-> n, op |-> o])
    /\ UNCHANGED <<dist, hot, file, generator>>

GenerateRandom ==
    /\ Drawing({"RANDOM"})
    /\ \E k \in Keys, n \in Nodes : Push(k, n, ReadOp)
    /\ UNCHANGED threads

GeneratePartitioned ==
    /\ Drawing({"PARTITIONED"})
    /\ LET k == (Len(ops) % NumKeys) + 1 IN Push(k, Home(k), ReadOp)
    /\ UNCHANGED threads

GenerateZipfian ==
    /\ Drawing({"ZIPFIAN"})
    /\ \E k \in Drawn, n \in Nodes : Push(k, n, ReadOp)
    /\ UNCHANGED threads

GenerateZipfianPartitioned ==
    /\ Drawing({"ZIPFIAN_PARTITIONED"})
    /\ \E k \in Drawn : Push(k, Home(k), ReadOp)
    /\ UNCHANGED threads

SingleNodeHotSetData ==
    /\ Drawing({"SINGLE_NODE"})
    /\ \E k \in Drawn, n \in Nodes : Push(k, n, ReadOp)
    /\ UNCHANGED threads

ToSecondNodeOnly ==
    /\ Drawing({"SECOND_NODE_ONLY"})
    /\ \E k \in Drawn : Push(k, 2, ReadOp)
    /\ UNCHANGED threads

ToSecondNodeOnlyRDMA ==
    /\ Drawing({"RDMA_ONLY"})
    /\ \E k \in Drawn : Push(k, 1, ReadOp)
    /\ UNCHANGED threads

\* The threads come in a random order; a thread's operations all go to node
\* 2, or for an RDMA thread all to node 1 or all to node 3.
To80SecondNode20Other ==
    /\ Drawing({"SPLIT"})
    /\ IF Len(ops) % OpsPerThread = 0
       THEN \E id \in threads :
                /\ threads' = threads \ {id}
                /\ \E k \in hot, n \in IF id < HotThreads THEN {2} ELSE {1, 3} :
                       Push(k, n, NoOp)
       ELSE /\ \E k \in hot : Push(k, ops[Len(ops)].node, NoOp)
            /\ UNCHANGED threads

\* rand() % 0: there is no key to draw.
DrawFromNothing ==
    /\ \/ Drawing(Skewed) /\ Drawn = {}
       \/ Drawing({"SPLIT"}) /\ hot = {}
    /\ generator' = "crashed"
    /\ UNCHANGED <<dist, hot, threads, ops, file>>

DumpOperations ==
    /\ generator = "on" /\ Len(ops) = Size
    /\ file' = DumpOf(ops)
    /\ generator' = "dumped"
    /\ UNCHANGED <<dist, hot, threads, ops>>

Generate ==
    \/ StartGenerator \/ DumpOperations \/ DrawFromNothing
    \/ GenerateRandom \/ GeneratePartitioned
    \/ GenerateZipfian \/ GenerateZipfianPartitioned
    \/ SingleNodeHotSetData \/ ToSecondNodeOnly \/ ToSecondNodeOnlyRDMA
    \/ To80SecondNode20Other

-----------------------------------------------------------------------------
Operation == [key : Keys, node : Nodes, op : {ReadOp, NoOp}]

WorkloadTypeOK ==
    /\ dist \in Distributions
    /\ hot \subseteq Keys
    /\ threads \subseteq 0 .. TotalThreads - 1
    /\ ops \in Seq(Operation) /\ Len(ops) <= TotalOps
    /\ file \in Seq(Int)
    /\ generator \in {"off", "on", "crashed", "dumped"}

\* The keys on which the two divisions differ, as Home rounds a share down and
\* Preloads does not: the first s * r / N of each share s, where r is the
\* remainder of the keys, and those after the last share.  With r = 1 that is
\* the first key of each share but share 0, with r = 0 only the last key.
Displaced(k) ==
    \/ (k % KeysPerNode) * NumNodes < (k \div KeysPerNode) * (NumKeys % NumNodes)
    \/ k >= NumNodes * KeysPerNode

Partitioned == {"PARTITIONED", "ZIPFIAN_PARTITIONED"}

\* An operation of a partitioned distribution names the server that preloads its
\* key (operations.cpp:34 against ldc.cpp:682), but for the displaced keys, which
\* are sent to a server that has not loaded them.
OnlyDisplacedMiss ==
    dist \in Partitioned =>
        \A i \in DOMAIN ops :
            Preloads(ops[i].node - 1, ops[i].key) <=> ~Displaced(ops[i].key)

\* What the clients load is what was generated.
FileHoldsOps == generator = "dumped" => LoadOf(file) = ops

=============================================================================
