--------------------------- MODULE BlockPlacement ---------------------------
(***************************************************************************)
(* Where the blocks of the keys lie when the cache index is off            *)
(* (use_cache_indexing = false), and the preload that fills them.  Every   *)
(* server walks the dataset and writes the keys of its own range, one RDMA *)
(* write after the other, into the memory of the node a key is placed on.  *)
(* Offsets count bytes, one per key, but a write is a whole block: the     *)
(* value followed by zeros.  Blocks of neighbouring keys overlap, and no   *)
(* server waits for another.                                               *)
(*                                                                         *)
(* All keys have the same value, so a byte is known by whether it holds    *)
(* the value's character.  A read of a key returns the ValueBytes bytes at *)
(* its offset.                                                             *)
(***************************************************************************)
EXTENDS Integers

CONSTANTS
    NumKeys,        \* NUM_KEY_VALUE_PAIRS: the dataset's keys are 1 .. NumKeys
    NumNodes,       \* NUM_NODES
    BlockBytes,     \* BLKSZ
    ValueBytes      \* VALUE_SIZE

ASSUME SizesAreSane ==
    /\ NumNodes \in Nat \ {0} /\ NumKeys \in Nat /\ NumKeys >= NumNodes
    /\ ValueBytes \in Nat \ {0} /\ BlockBytes \in Nat /\ ValueBytes <= BlockBytes

Servers == 0 .. NumNodes - 1
DatasetKeys == 1 .. NumKeys

VARIABLES
    next,       \* next[s]: the dataset key server s looks at next
    filled      \* filled[n]: offsets of node n's memory that hold the character

placementVars == <<next, filled>>

-----------------------------------------------------------------------------
(* Placement                                                               *)

KeysPerNode == NumKeys \div NumNodes

Node(k) == IF k > KeysPerNode * NumNodes THEN 0 ELSE (k - 1) \div KeysPerNode

Offset(k) ==
    IF k > KeysPerNode * NumNodes
    THEN KeysPerNode + (k - KeysPerNode * NumNodes)
    ELSE (k - 1) % KeysPerNode

\* start_keys <= k < end_keys, with s * NumKeys / NumNodes not rounded.
InRange(s, k) == s * NumKeys <= k * NumNodes /\ k * NumNodes < (s + 1) * NumKeys

ValueOf(k) == Offset(k) .. Offset(k) + ValueBytes - 1
BlockOf(k) == Offset(k) .. Offset(k) + BlockBytes - 1

-----------------------------------------------------------------------------
PlacementInit ==
    /\ next = [s \in Servers |-> 1]
    /\ filled = [n \in Servers |-> {}]

WriteCorrectNode(k) ==
    filled' = [filled EXCEPT ![Node(k)] = (@ \ BlockOf(k)) \union ValueOf(k)]

\* Mutant: the dataset is walked from its last key to its first.
PreloadDescending(s) ==
    LET k == NumKeys + 1 - next[s] IN
    /\ next[s] \in DatasetKeys
    /\ next' = [next EXCEPT ![s] = @ + 1]
    /\ IF InRange(s, k) THEN WriteCorrectNode(k) ELSE UNCHANGED filled

\* One turn of the loop over the dataset's keys; the write has completed.
Preload(s) ==
    /\ next[s] \in DatasetKeys
    /\ next' = [next EXCEPT ![s] = @ + 1]
    /\ IF InRange(s, next[s]) THEN WriteCorrectNode(next[s]) ELSE UNCHANGED filled

Preloaded == \A s \in Servers : next[s] \notin DatasetKeys

-----------------------------------------------------------------------------
\* Positions are dataset keys or the end; a node's memory holds the values of
\* its own keys, zeros elsewhere.
PlacementTypeOK ==
    /\ next \in [Servers -> 1 .. NumKeys + 1]
    /\ filled \in [Servers -> SUBSET Nat]
    /\ \A n \in Servers : \A a \in filled[n] :
          \E k \in DatasetKeys : Node(k) = n /\ a \in ValueOf(k)

\* A read at the key's offset returns the value the client expects.
Readable(k) == ValueOf(k) \subseteq filled[Node(k)]

Loaded(k) == \E s \in Servers : InRange(s, k) /\ next[s] > k

\* Every key the preload has written stays readable, whichever server wrote it
\* and in whichever order the servers go.
LoadedKeysStay == \A k \in DatasetKeys : Loaded(k) => Readable(k)

=============================================================================
