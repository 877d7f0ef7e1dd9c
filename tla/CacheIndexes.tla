---------------------------- MODULE CacheIndexes ----------------------------
(***************************************************************************)
(* Replication of the cache index without logs (use_cache_logs off): the   *)
(* cache's callbacks post, for every other server in turn, a one-sided     *)
(* write of the key's entry into that server's copy.  The NIC fetches the  *)
(* entry from the owner's memory when it carries the write out, so a write *)
(* delivers the owner's entry of that moment; the writes of one queue pair *)
(* are carried out in order.  dealloc_remote clears the owner's entry      *)
(* itself, once per turn of its loop.                                      *)
(*                                                                         *)
(* When a read finds another key in the slot a copy points to, an RDMA     *)
(* worker calls update_local_key on the reader's copies.                   *)
(***************************************************************************)
EXTENDS Integers, Sequences, FiniteSets

CONSTANTS N,            \* number of servers
          Keys,
          Ptrs,         \* offsets of value slots in a server's storage
          Invalid,      \* KEY_VALUE_PTR_INVALID
          Threads,      \* threads that run cache callbacks
          Home,         \* Home[t]: the server of thread t
          NumTokens,    \* FreeRequestTokenQueueSize
          MaxOps        \* bound: cache operations of a thread

Servers == 0 .. N-1
Others(m) == Servers \ {m}

ASSUME IndexAssumption ==
    /\ N \in Nat \ {0} /\ MaxOps \in Nat /\ NumTokens \in Nat
    /\ Home \in [Threads -> Servers]
    /\ Invalid \notin Ptrs

Pointer == Ptrs \union {Invalid}

VARIABLES
    index,      \* index[m][o][k]: entry k of m's copy of o's index
    posted,     \* posted[m][o]: the keys of m's unfinished writes to o
    tokens,     \* tokens[m]: free request tokens
    completed,  \* completed[m]: writes finished, token not yet given back
    at,         \* at[t]: "idle" or the callback thread t is in
    arg,        \* arg[t]: the callback's key
    todo,       \* todo[t]: the servers its loop has still to visit
    ops,        \* ops[t]: operations t has begun
    reading,    \* reading[m]: keys that m reads through its copies
    repaired    \* repaired[m][o]: entries a repair has written since a write did

thread == <<at, arg, todo, ops>>
reader == <<reading, repaired>>
vars == <<index, posted, tokens, completed, thread, reader>>

Init ==
    /\ index = [m \in Servers |-> [o \in Servers |-> [k \in Keys |-> Invalid]]]
    /\ posted = [m \in Servers |-> [o \in Servers |-> <<>>]]
    /\ tokens = [m \in Servers |-> NumTokens]
    /\ completed = [m \in Servers |-> 0]
    /\ at = [t \in Threads |-> "idle"]
    /\ arg \in [Threads -> Keys]
    /\ todo = [t \in Threads |-> {}]
    /\ ops = [t \in Threads |-> 0]
    /\ reading = [m \in Servers |-> {}]
    /\ repaired = [m \in Servers |-> [o \in Servers |-> {}]]

\* A panic ends the process: all threads of its server stop.
Alive(m) == \A t \in Threads : Home[t] = m => at[t] # "panic"

-----------------------------------------------------------------------------
(* The block cache (external) changes, then runs the callback              *)

Begin(t, k, callback) ==
    /\ at' = [at EXCEPT ![t] = callback]
    /\ arg' = [arg EXCEPT ![t] = k]
    /\ todo' = [todo EXCEPT ![t] = Others(Home[t])]
    /\ ops' = [ops EXCEPT ![t] = @ + 1]

\* A value is stored in a slot no other key uses.
CachePut(t, k, p) ==
    /\ at[t] = "idle" /\ Alive(Home[t]) /\ ops[t] < MaxOps
    /\ \A h \in Keys \ {k} : index[Home[t]][Home[t]][h] # p
    /\ index' = [index EXCEPT ![Home[t]][Home[t]][k] = p]
    /\ Begin(t, k, "write")
    /\ UNCHANGED <<posted, tokens, completed, reader>>

\* An eviction leaves the index to the callback.
CacheEvict(t, k) ==
    /\ at[t] = "idle" /\ Alive(Home[t]) /\ ops[t] < MaxOps
    /\ index[Home[t]][Home[t]][k] # Invalid
    /\ Begin(t, k, "dealloc")
    /\ UNCHANGED <<index, posted, tokens, completed, reader>>

-----------------------------------------------------------------------------
(* The callbacks: one step per turn of the loop over the other servers     *)

Panic(t) ==
    /\ at' = [at EXCEPT ![t] = "panic"]
    /\ UNCHANGED <<posted, tokens, completed, arg, todo, ops>>

\* RDMAData::write of entry arg[t] to server i: takes a token or panics.
Post(t, i) ==
    LET m == Home[t] IN
    IF tokens[m] = 0 THEN Panic(t)
    ELSE /\ posted' = [posted EXCEPT ![m][i] = Append(@, arg[t])]
         /\ tokens' = [tokens EXCEPT ![m] = @ - 1]
         /\ todo' = [todo EXCEPT ![t] = @ \ {i}]
         /\ UNCHANGED <<completed, at, arg, ops>>

\* The servers are visited in index order.
Turn(t, i) ==
    /\ Alive(Home[t])
    /\ i \in todo[t] /\ \A j \in todo[t] : i <= j

WriteRemote(t, i) ==
    /\ at[t] = "write" /\ Turn(t, i)
    /\ IF index[Home[t]][Home[t]][arg[t]] = Invalid THEN Panic(t) ELSE Post(t, i)
    /\ UNCHANGED <<index, reader>>

\* Mutant: the owner's entry is cleared after the loop's last write only.
DeallocRemoteLate(t, i) ==
    /\ at[t] = "dealloc" /\ i \in todo[t] /\ \A j \in todo[t] : i <= j
    /\ Post(t, i)
    /\ index' = IF todo[t] = {i}
                THEN [index EXCEPT ![Home[t]][Home[t]][arg[t]] = Invalid] ELSE index
    /\ UNCHANGED reader

DeallocRemote(t, i) ==
    /\ at[t] = "dealloc" /\ Turn(t, i)
    /\ index' = [index EXCEPT ![Home[t]][Home[t]][arg[t]] = Invalid]
    /\ Post(t, i)
    /\ UNCHANGED reader

Return(t) ==
    /\ at[t] \in {"write", "dealloc"} /\ todo[t] = {}
    /\ at' = [at EXCEPT ![t] = "idle"]
    /\ UNCHANGED <<index, posted, tokens, completed, arg, todo, ops, reader>>

-----------------------------------------------------------------------------
(* The NIC and the workers                                                 *)

NicWrite(m, o) ==
    /\ posted[m][o] # <<>>
    /\ LET k == Head(posted[m][o]) IN
       index' = [index EXCEPT ![o][m][k] = index[m][m][k]]
    /\ posted' = [posted EXCEPT ![m][o] = Tail(@)]
    /\ completed' = [completed EXCEPT ![m] = @ + 1]
    /\ repaired' = [repaired EXCEPT ![o][m] = @ \ {Head(posted[m][o])}]
    /\ UNCHANGED <<tokens, thread, reading>>

\* Mutant: the token of a finished write is not given back.
ExecutePendingLeaks(m) ==
    /\ completed[m] > 0
    /\ completed' = [completed EXCEPT ![m] = @ - 1]
    /\ UNCHANGED <<index, posted, tokens, thread, reader>>

ExecutePending(m) ==
    /\ completed[m] > 0 /\ Alive(m)
    /\ completed' = [completed EXCEPT ![m] = @ - 1]
    /\ tokens' = [tokens EXCEPT ![m] = @ + 1]
    /\ UNCHANGED <<index, posted, thread, reader>>

-----------------------------------------------------------------------------
(* Reads through the copies                                                *)

\* read_callback: some copy points somewhere.
StartRead(m, k) ==
    /\ Alive(m) /\ k \notin reading[m]
    /\ \E o \in Others(m) : index[m][o][k] # Invalid
    /\ reading' = [reading EXCEPT ![m] = @ \union {k}]
    /\ UNCHANGED <<index, posted, tokens, completed, thread, repaired>>

\* The slot held the expected key, or no key at all.
EndRead(m, k) ==
    /\ Alive(m) /\ k \in reading[m]
    /\ reading' = [reading EXCEPT ![m] = @ \ {k}]
    /\ UNCHANGED <<index, posted, tokens, completed, thread, repaired>>

\* The slot held `found`: m's copies of the entry `found` become what m's own
\* index says of `expected`.
UpdateLocalKey(m, expected, found) ==
    /\ Alive(m) /\ expected \in reading[m] /\ found # expected
    /\ reading' = [reading EXCEPT ![m] = @ \ {expected}]
    /\ index' = [index EXCEPT ![m] =
           [o \in Servers |-> IF o = m THEN @[o]
                              ELSE [@[o] EXCEPT ![found] = index[m][m][expected]]]]
    /\ repaired' = [repaired EXCEPT ![m] =
           [o \in Servers |-> IF o = m THEN @[o] ELSE @[o] \union {found}]]
    /\ UNCHANGED <<posted, tokens, completed, thread>>

-----------------------------------------------------------------------------
ThreadStep(t) ==
    \/ \E k \in Keys, p \in Ptrs : CachePut(t, k, p)
    \/ \E k \in Keys : CacheEvict(t, k)
    \/ \E i \in Servers : WriteRemote(t, i) \/ DeallocRemote(t, i)
    \/ Return(t)

Next ==
    \/ \E t \in Threads : ThreadStep(t)
    \/ \E m, o \in Servers : NicWrite(m, o)
    \/ \E m \in Servers : ExecutePending(m)
    \/ \E m \in Servers, k \in Keys : StartRead(m, k) \/ EndRead(m, k)
    \/ \E m \in Servers, expected, found \in Keys : UpdateLocalKey(m, expected, found)

Spec == Init /\ [][Next]_vars

-----------------------------------------------------------------------------
Callbacks == {"write", "dealloc"}

TypeOK ==
    /\ index \in [Servers -> [Servers -> [Keys -> Pointer]]]
    /\ posted \in [Servers -> [Servers -> Seq(Keys)]]
    /\ tokens \in [Servers -> Nat]
    /\ completed \in [Servers -> Nat]
    /\ at \in [Threads -> Callbacks \union {"idle", "panic"}]
    /\ arg \in [Threads -> Keys]
    /\ todo \in [Threads -> SUBSET Servers]
    /\ ops \in [Threads -> Nat]
    /\ reading \in [Servers -> SUBSET Keys]
    /\ repaired \in [Servers -> [Servers -> SUBSET Keys]]

\* A write of o's entry k to m is posted, or a loop has still to post it.
Posted(o, m, k) == \E i \in DOMAIN posted[o][m] : posted[o][m][i] = k

OnItsWay(o, m, k) ==
    \/ Posted(o, m, k)
    \/ \E t \in Threads : Home[t] = o /\ arg[t] = k /\ m \in todo[t]

\* A copy differs from its owner's entry only while a write of that entry is on
\* its way, or after a repair: while the callbacks of a server do not overlap,
\* no order of callbacks and NIC leaves a copy wrong for good.
CopiesCatchUp == \A o \in Servers : \A m \in Others(o), k \in Keys :
    \/ index[m][o][k] = index[o][o][k]
    \/ OnItsWay(o, m, k)
    \/ k \in repaired[m][o]

\* A loop still has servers to visit only inside its callback, and dealloc has
\* cleared the entry it is about to send again.
LoopOK == \A t \in Threads :
    /\ todo[t] \subseteq Others(Home[t])
    /\ at[t] = "idle" => todo[t] = {}
    /\ (at[t] = "dealloc" /\ todo[t] # Others(Home[t]))
           => index[Home[t]][Home[t]][arg[t]] = Invalid

IInv == TypeOK /\ LoopOK /\ CopiesCatchUp

\* The writes m has posted and the NIC has not finished: where to, and the place
\* in that queue pair.
InFlight(m) == UNION {{o} \X DOMAIN posted[m][o] : o \in Servers}

\* Every token is free, with the NIC, or with a worker: none is lost, so the
\* panic of get_request_token needs NumTokens writes on their way at once.
TokensConserved == \A m \in Servers :
    tokens[m] + completed[m] + Cardinality(InFlight(m)) = NumTokens

=============================================================================
