--------------------------- MODULE CacheIndexLogs ---------------------------
(***************************************************************************)
(* Replication of the cache index through logs (use_cache_logs): every     *)
(* server keeps, for each server, a copy of its cache index and a copy of  *)
(* its log of index updates.  A cache write or eviction appends the key's  *)
(* entry to the server's own log; the append that lands on position 0      *)
(* also publishes the whole log to the other servers with one-sided RDMA   *)
(* writes, and a background worker on each of them applies what it finds   *)
(* filled.  The own index is written by the block cache (external).        *)
(*                                                                         *)
(* Memory is shared without locks between the threads, the worker and the  *)
(* NIC, so a copy of an entry that is being written is torn: any mix of    *)
(* its old and new words.                                                  *)
(***************************************************************************)
EXTENDS Integers, FiniteSetsExt

CONSTANTS N,            \* number of servers
          M,            \* cache_log_sync_every_x_operations
          Keys,
          Ptrs,         \* offsets of value slots in a server's storage
          Invalid,      \* KEY_VALUE_PTR_INVALID: no pointer, or no key
          Threads,      \* threads that run cache callbacks
          Home,         \* Home[t]: the server of thread t
          MaxOps        \* bound: cache operations each thread makes

Servers == 0 .. N-1
Positions == 0 .. M-1
Others(m) == Servers \ {m}

ASSUME LogAssumption ==
    /\ N \in Nat \ {0, 1} /\ M \in Nat \ {0} /\ MaxOps \in Nat
    /\ \A t \in Threads : Home[t] \in Servers
    /\ Invalid \notin Keys \union Ptrs

Pointer == Ptrs \union {Invalid}
Entry == [key : Keys \union {Invalid}, ptr : Pointer, filled : BOOLEAN]
EmptyEntry == [key |-> Invalid, ptr |-> Invalid, filled |-> FALSE]

VARIABLES
    index,      \* index[m][o]: m's copy of o's cache index (o = m: its own);
                \* the cell Invalid stands for the memory outside the table
    log,        \* log[m][o][j]: entry j of m's copy of o's log
    last,       \* last[m]: filled flag of entry M of m's own log
    logIndex,   \* logIndex[m]: the counter of m's own log
    pc,         \* pc[t]: where thread t is
    arg,        \* arg[t]: the entry t is appending
    pos,        \* pos[t]: the position t reserved
    todo,       \* todo[t]: what is left of t's loop over the other servers
    ready,      \* ready[t]: machines_ready
    ops,        \* ops[t]: operations t has begun
    scan,       \* scan[m]: the log entry <<o, j>> m's worker looks at
    got         \* got[m]: the entry m's worker loaded, or EmptyEntry

memory == <<index, log, last, logIndex>>
thread == <<pc, arg, pos, todo, ready, ops>>
worker == <<scan, got>>
vars == <<memory, thread, worker>>

\* The worker visits the other servers in index order, and the positions of
\* each log in order.
FirstServer(m, from) ==
    LET later == {o \in Others(m) : o >= from} IN
    Min(IF later = {} THEN Others(m) ELSE later)

\* Mutant: the worker's loop over positions starts at 1.
NextScanFromOne(m, s) ==
    IF s[2] < M-1 THEN <<s[1], s[2] + 1>> ELSE <<FirstServer(m, s[1] + 1), 1 % M>>

NextScan(m, s) ==
    IF s[2] < M-1 THEN <<s[1], s[2] + 1>> ELSE <<FirstServer(m, s[1] + 1), 0>>

Init ==
    /\ index = [m \in Servers |-> [o \in Servers |-> [k \in Keys \union {Invalid} |-> Invalid]]]
    /\ log = [m \in Servers |-> [o \in Servers |-> [j \in Positions |-> EmptyEntry]]]
    /\ last = [m \in Servers |-> FALSE]
    /\ logIndex = [m \in Servers |-> 0]
    /\ pc = [t \in Threads |-> "idle"]
    /\ arg = [t \in Threads |-> EmptyEntry]
    /\ pos = [t \in Threads |-> 0]
    /\ todo = [t \in Threads |-> {}]
    /\ ready = [t \in Threads |-> 0]
    /\ ops = [t \in Threads |-> 0]
    /\ scan = [m \in Servers |-> <<FirstServer(m, 0), 0>>]
    /\ got = [m \in Servers |-> EmptyEntry]

-----------------------------------------------------------------------------
(* A thread: the block cache changes the own index, then runs the callback *)

\* The cache stores k in a slot that no key uses, or evicts it, and calls
\* the callback registered for it.
CacheChanges(t, k, p) ==
    LET m == Home[t] IN
    /\ pc[t] = "idle" /\ ops[t] < MaxOps
    /\ p # index[m][m][k]
    /\ p # Invalid => \A h \in Keys : index[m][m][h] # p
    /\ index' = [index EXCEPT ![m][m][k] = p]
    /\ arg' = [arg EXCEPT ![t].key = k]
    /\ pc' = [pc EXCEPT ![t] = "callback"]
    /\ ops' = [ops EXCEPT ![t] = @ + 1]
    /\ UNCHANGED <<log, last, logIndex, pos, todo, ready, worker>>

\* append_entry_k: read the own index, possibly later than the change.
AppendEntryK(t) ==
    /\ pc[t] = "callback"
    /\ arg' = [arg EXCEPT ![t].ptr = index[Home[t]][Home[t]][arg[t].key],
                          ![t].filled = TRUE]
    /\ pc' = [pc EXCEPT ![t] = "reserve"]
    /\ UNCHANGED <<memory, pos, todo, ready, ops, worker>>

\* Mutant: positions counted from 1.
ReserveFromOne(t) ==
    /\ pc[t] = "reserve"
    /\ pos' = [pos EXCEPT ![t] = (logIndex[Home[t]] % M) + 1]
    /\ logIndex' = [logIndex EXCEPT ![Home[t]] = @ + 1]
    /\ pc' = [pc EXCEPT ![t] = "store"]
    /\ UNCHANGED <<index, log, last, arg, todo, ready, ops, worker>>

\* append_entry: log_index.fetch_add(1) % max_cache_log_index.
Reserve(t) ==
    /\ pc[t] = "reserve"
    /\ pos' = [pos EXCEPT ![t] = logIndex[Home[t]] % M]
    /\ logIndex' = [logIndex EXCEPT ![Home[t]] = @ + 1]
    /\ pc' = [pc EXCEPT ![t] = "store"]
    /\ UNCHANGED <<index, log, last, arg, todo, ready, ops, worker>>

\* The entry is written; position 0 goes on to publish.
Store(t) ==
    LET m == Home[t] IN
    /\ pc[t] = "store"
    /\ log' = [log EXCEPT ![m][m][pos[t]] = arg[t]]
    /\ IF pos[t] = 0
       THEN /\ pc' = [pc EXCEPT ![t] = "check"]
            /\ todo' = [todo EXCEPT ![t] = Others(m)]
       ELSE /\ pc' = [pc EXCEPT ![t] = "idle"]
            /\ UNCHANGED todo
    /\ ready' = [ready EXCEPT ![t] = 0]
    /\ UNCHANGED <<index, last, logIndex, arg, pos, ops, worker>>

-----------------------------------------------------------------------------
(* The loop of append_entry at position 0: check, then publish             *)

\* The RDMA read that is to check whether server i has applied the previous
\* batch.  Its queue pair i * N + m leads to server m's own copy of i's log,
\* and its first entry lands in entry M of m's own log.
CheckRead(t) ==
    LET m == Home[t] IN
    /\ pc[t] = "check" /\ todo[t] # {}
    /\ last' = [last EXCEPT ![m] = log[m][Min(todo[t])][0].filled]
    /\ pc' = [pc EXCEPT ![t] = "examine"]
    /\ UNCHANGED <<index, log, logIndex, arg, pos, todo, ready, ops, worker>>

\* if (!last_entry.filled) machines_ready++
Examine(t) ==
    /\ pc[t] = "examine"
    /\ ready' = [ready EXCEPT ![t] = IF last[Home[t]] THEN @ ELSE @ + 1]
    /\ todo' = [todo EXCEPT ![t] = @ \ {Min(@)}]
    /\ pc' = [pc EXCEPT ![t] = "check"]
    /\ UNCHANGED <<memory, arg, pos, ops, worker>>

\* "Unable to sync! Other nodes are not ready": check them all again.
Retry(t) ==
    /\ pc[t] = "check" /\ todo[t] = {}
    /\ ready[t] # N-1
    /\ ready' = [ready EXCEPT ![t] = 0]
    /\ todo' = [todo EXCEPT ![t] = Others(Home[t])]
    /\ UNCHANGED <<memory, pc, arg, pos, ops, worker>>

StartPublish(t) ==
    LET m == Home[t] IN
    /\ pc[t] = "check" /\ todo[t] = {}
    /\ ready[t] = N-1
    /\ last' = [last EXCEPT ![m] = TRUE]
    /\ todo' = [todo EXCEPT ![t] = Others(m) \X Positions]
    /\ pc' = [pc EXCEPT ![t] = "publish"]
    /\ UNCHANGED <<index, log, logIndex, arg, pos, ready, ops, worker>>

\* What the NIC may read at position j of m's own log: the entry there, torn
\* by the threads that are about to write it.
Seen(m, j) ==
    LET es == {log[m][m][j]} \union
              {arg[t] : t \in {u \in Threads : Home[u] = m /\ pc[u] = "store" /\ pos[u] = j}}
    IN  [key : {e.key : e \in es}, ptr : {e.ptr : e \in es}, filled : {e.filled : e \in es}]

\* Entry j of the whole-log RDMA write to server i lands.  The writes to the
\* servers follow one another, each waited for.
PublishEntry(t, i, j) ==
    LET m == Home[t] IN
    /\ pc[t] = "publish"
    /\ <<i, j>> \in todo[t]
    /\ \A s \in todo[t] : i <= s[1]
    /\ \E e \in Seen(m, j) : log' = [log EXCEPT ![i][m][j] = e]
    /\ todo' = [todo EXCEPT ![t] = @ \ {<<i, j>>}]
    /\ UNCHANGED <<index, last, logIndex, pc, arg, pos, ready, ops, worker>>

EndPublish(t) ==
    /\ pc[t] = "publish" /\ todo[t] = {}
    /\ pc' = [pc EXCEPT ![t] = "idle"]
    /\ UNCHANGED <<memory, arg, pos, todo, ready, ops, worker>>

-----------------------------------------------------------------------------
(* The background worker of server m                                       *)

Skip(m) ==
    /\ got[m] = EmptyEntry
    /\ ~log[m][scan[m][1]][scan[m][2]].filled
    /\ scan' = [scan EXCEPT ![m] = NextScan(m, @)]
    /\ UNCHANGED <<memory, thread, got>>

\* Load a filled entry.
Load(m) ==
    /\ got[m] = EmptyEntry
    /\ log[m][scan[m][1]][scan[m][2]].filled
    /\ got' = [got EXCEPT ![m] = log[m][scan[m][1]][scan[m][2]]]
    /\ UNCHANGED <<memory, thread, scan>>

\* Mutant: the worker applies an entry whatever its key.
ApplyAnyKey(m) ==
    LET o == scan[m][1]
        j == scan[m][2]
    IN
    /\ got[m] # EmptyEntry
    /\ log' = [log EXCEPT ![m][o][j].filled = FALSE]
    /\ \E p \in {got[m].ptr, log[m][o][j].ptr} :
          index' = [index EXCEPT ![m][o][got[m].key] = p]
    /\ got' = [got EXCEPT ![m] = EmptyEntry]
    /\ scan' = [scan EXCEPT ![m] = NextScan(m, @)]
    /\ UNCHANGED <<last, logIndex, thread>>

\* Mutant: the worker moves on before it clears the entry.
ApplyClearsNext(m) ==
    LET o == scan[m][1]
        next == NextScan(m, scan[m])
    IN
    /\ got[m] # EmptyEntry
    /\ log' = [log EXCEPT ![m][next[1]][next[2]].filled = FALSE]
    /\ IF got[m].key = Invalid
       THEN UNCHANGED index
       ELSE index' = [index EXCEPT ![m][o][got[m].key] = got[m].ptr]
    /\ got' = [got EXCEPT ![m] = EmptyEntry]
    /\ scan' = [scan EXCEPT ![m] = next]
    /\ UNCHANGED <<last, logIndex, thread>>

\* Clear the entry and write what was loaded to the copy of o's index, unless
\* its key is invalid.  An entry that landed since the load is cleared with
\* it, and its pointer may already have been the one loaded.
Apply(m) ==
    LET o == scan[m][1]
        j == scan[m][2]
    IN
    /\ got[m] # EmptyEntry
    /\ log' = [log EXCEPT ![m][o][j].filled = FALSE]
    /\ IF got[m].key = Invalid
       THEN UNCHANGED index
       ELSE \E p \in {got[m].ptr, log[m][o][j].ptr} :
               index' = [index EXCEPT ![m][o][got[m].key] = p]
    /\ got' = [got EXCEPT ![m] = EmptyEntry]
    /\ scan' = [scan EXCEPT ![m] = NextScan(m, @)]
    /\ UNCHANGED <<last, logIndex, thread>>

-----------------------------------------------------------------------------
Append(t) ==
    \/ AppendEntryK(t) \/ Reserve(t) \/ Store(t)
    \/ CheckRead(t) \/ Examine(t) \/ Retry(t) \/ StartPublish(t)
    \/ \E i \in Servers, j \in Positions : PublishEntry(t, i, j)
    \/ EndPublish(t)

Worker(m) == Skip(m) \/ Load(m) \/ Apply(m)

Next ==
    \/ \E t \in Threads :
          \/ \E k \in Keys, p \in Pointer : CacheChanges(t, k, p)
          \/ Append(t)
    \/ \E m \in Servers : Worker(m)

Spec == Init /\ [][Next]_vars

\* Threads in a callback and the workers keep running, and the NIC finishes
\* the operations it is given.
FairSpec ==
    /\ Spec
    /\ \A t \in Threads : WF_vars(Append(t))
    /\ \A m \in Servers : WF_vars(Worker(m))

-----------------------------------------------------------------------------
TypeOK ==
    /\ index \in [Servers -> [Servers -> [Keys \union {Invalid} -> Pointer]]]
    /\ log \in [Servers -> [Servers -> [Positions -> Entry]]]
    /\ last \in [Servers -> BOOLEAN]
    /\ logIndex \in [Servers -> Nat]
    /\ pc \in [Threads -> {"idle", "callback", "reserve", "store", "check", "examine", "publish"}]
    /\ arg \in [Threads -> Entry]
    /\ pos \in [Threads -> Positions]
    /\ \A t \in Threads :
          todo[t] \subseteq (IF pc[t] = "publish" THEN Others(Home[t]) \X Positions
                                                  ELSE Others(Home[t]))
    /\ ready \in [Threads -> 0 .. N-1]
    /\ ops \in [Threads -> 0 .. MaxOps]
    /\ \A m \in Servers : scan[m] \in Others(m) \X Positions
    /\ got \in [Servers -> Entry]

\* The background worker never writes outside the table of a cache index: an
\* entry caught half written before its first lap is complete can be filled
\* and still carry the invalid key, and the worker's guard must stop it.
NoWildWrite == \A m, o \in Servers : index[m][o][Invalid] = Invalid

\* append_entry returns: a thread that waits in the loop of position 0 waits
\* only for its own server's worker, so two servers that publish to each
\* other at once do not wait for one another.
EveryAppendReturns == \A t \in Threads : pc[t] # "idle" ~> pc[t] = "idle"

\* e has landed whole as entry j of m's copy of o's log, and not just on the
\* entry that m's worker has loaded and is about to clear.
Landed(m, o, j, e) ==
    /\ log[m][o][j] = e /\ log[o][o][j] = e
    /\ ~(got[m] # EmptyEntry /\ scan[m] = <<o, j>>)

\* Apply changes the filled flag alone, so other words come from a later batch.
Replaced(m, o, j, e) == [log[m][o][j] EXCEPT !.filled = TRUE] # e

\* An entry that was published reaches the remote copy of the index: the worker
\* comes to its position, and what it clears it has applied.  It can miss an
\* entry only where a later batch replaces it first, or where it lands between
\* the worker's load of that entry and its clearing of it.
EveryEntryApplied ==
    \A m \in Servers : \A o \in Others(m), j \in Positions, e \in Entry :
        e.filled /\ e.key # Invalid =>
            (Landed(m, o, j, e) ~> index[m][o][e.key] = e.ptr \/ Replaced(m, o, j, e))

-----------------------------------------------------------------------------
(* What the code does not keep                                             *)

\* An entry the remote worker has not applied is not replaced by a later
\* batch: what the check of append_entry is for ("Checking if remote is
\* done", "Unable to sync! Other nodes are not ready").
NoUnappliedOverwritten ==
    [][\A m, o \in Servers, j \in Positions :
          m # o /\ log[m][o][j].filled /\ log'[m][o][j].filled
              => log'[m][o][j] = log[m][o][j]]_log

\* README: an eventually consistent store.  Nothing is on its way from o to m:
\* o's last append published the log, no thread of o is in a callback, and m
\* has applied every entry it received.
Settled(m, o) ==
    /\ logIndex[o] % M = 1 % M
    /\ \A t \in Threads : Home[t] = o => pc[t] = "idle"
    /\ \A j \in Positions : ~log[m][o][j].filled
    /\ got[m] = EmptyEntry

SettledCopiesAgree ==
    \A m \in Servers : \A o \in Others(m) :
        Settled(m, o) => \A k \in Keys : index[m][o][k] = index[o][o][k]

=============================================================================
