# TWIG-KV in TLA+

A verification development for TWIG-KV (the programs in `src/src`, called LDC in
the code): TLA+ modules for the parts that keep shared or distributed state, TLC
configurations that check them on small instances, and TLAPS proofs for every
value of the constants. Paths below are relative to the repository, so `ldc.h:401`
is line 401 of `src/src/ldc.h`.

    cd tla
    tlc -workers 2 -config RequestPools.cfg MCRequestPools      # a run
    tlapm RequestPools_proofs.tla                               # a proof module

`PROJECT.json` lists the components, the runs with the properties each checks, a
mutated definition for each property of a passing run that makes TLC find it
violated, the source lines behind every definition, the hazards and the theorems.

## 1. The system

TWIG-KV is a distributed in-memory cache in front of a block store. One binary
runs on every machine; in the shipped configuration machines 0 to 2 are clients and
machines 3 to 5 are servers. Clients run closed loops of gets. A server answers a
get from its own block cache, from the cache of another server by a one-sided
RDMA read, or from disk.

    client machine                         server machine m
    +-----------------------+   get       +--------------------------------------+
    | thread 0 (leader) ----+------------>| worker threads (server_worker)       |
    | thread 1..n       ----+  response   |   block cache     disk (async)       |
    +-----------------------+<------------|   |callbacks        ^                |
        | sync requests                   |   v                 |                |
        v                                 | cache index     response queues      |
    other client machines                 | copies of the other servers' indexes |
                                          |   ^ one-sided      | one-sided       |
                                          |   | writes         v reads           |
                                          +---+----------------+-----------------+
                                          other servers' memory, through the NIC

The block cache and its disk (blkcache), the RDMA library (infinity), the
transport (machnet), the lock-free queue (moodycamel) and the RPC encoder (capnp)
are submodules and not in the repository. The models state what the code relies
on of them as external actions.

### Inventory

| component | state | operations | modelled in |
|---|---|---|---|
| RDMA read pools (`ldc.h` 268-420): `RDMAData`, `RDMADataWithQueue`, four worker threads of `ldc.cpp` 1041-1074 | free slots, free request tokens, pending queue, per-slot callback, token, bytes | `read`, `get_request_token`, `execute_pending` | `RequestPools`, promise in `AsyncReads` |
| Cache index with logs (`ldc.h` 609-790): `CacheIndexLogs` | per server: a copy of every server's index and log, a position counter, a flag | `append_entry_k`, `append_entry`, background worker | `CacheIndexLogs` |
| Cache index without logs (`ldc.h` 470-608): `CacheIndexes` | per server: a copy of every server's index, tokens, posted writes | `write_remote`, `dealloc_remote`, `execute_pending`, `update_local_key` | `CacheIndexes` |
| Get path (`ldc.cpp` 322-560, `connection.cpp` 166-560): handler, callbacks, response queues, forwarded singletons, `Client::get` | outstanding requests, posted reads, two response queues, the caches | `get`, `fetch_from_disk`, the three completions, `execute_pending_operations`, singleton put | `GetPath`, service in `KVService` |
| Client synchronisation (`connection.cpp` 236-316, `ldc.cpp` 104-211) | counters and flags of a machine, messages between leaders | thread barriers, `connect_to_other_clients`, `sync_with_other_clients`, the leader's gets | `ClientSync` |
| Block placement and preload (`rdma_reads.cpp`, `ldc.cpp` 680-693, 850-871) | a node's memory, each server's position in the dataset | `calculateNodeAndOffset`, `write_correct_node`, the preload loop | `BlockPlacement`, run by `OffsetReads` |
| Admission by access rate (`access_rate_calculations.cpp`, `ldc.cpp` 611-652) | ranking of the keys, best split, cache settings | `get_and_sort_freq`, `calculate_performance`, the search, the hill climb | `AccessRate`, `AccessClimb` |
| RDMA connection set-up (`rdma_server.cpp`, `ldc.h` 249-284, 446-523, 630-659, `ldc.cpp` 724-728) | a plain bool per storage object, bound ports, queue pairs | `RDMA_Server_Init`, `connect_to_servers`, `listen`, `connect` in rounds | `RdmaSetup` |
| Connections and flows (`connection.h`, `connection.cpp`) | the map from machine and port to flow of each object, messages on the wire | `listen`, `connect_to_remote_machine`, `send`, `receive`, `poll_receive` | `Connections` |
| Process start and stop (`ldc.cpp` 62-91, 576, 885-1110) | threads, barriers, `g_stop` | machnet, building the objects, starting threads, the leaders' meeting and syncs, the end of the work; SIGINT | `Connections`, `ClientSync`; SIGINT is not modelled, section 8 |
| Fixed-offset read ring (`async_rdma.h` 283-380, `rdma_reads.cpp` 87-113) | per node: 512 operations, a free and a pending queue | `get_next_available_async_rdma_op`, `rdma_reader_thread`, `background_work` | `OffsetReads` |
| Workload generation, division and routing (`operations.cpp`, `dataset.cpp`, `ldc.cpp` 93-102, 141-180) | hot keys, the operation set, operations.txt | the generators, dump and load, `get_chunk`, the remote index | `Workload`, executed by `ClientSync` |
| Put handler (`ldc.cpp`, `connection.cpp` 354) | cache and disk, put responses | put, `put_response` | not modelled, section 8 |
| Snapshots and monitoring, wire format, configuration, stand-alone experiments | - | - | not modelled, section 8 |

### What is hard, and what makes each part correct

* *Pools.* A data slot travels from caller to NIC to worker without a lock. It must
  never be in two hands, an empty token pool is a panic, and every read must be
  answered once, with its own bytes.
* *Index with logs.* Threads reserve entries by a counter, fill them without a
  lock, and one of them publishes the whole log while others write it. The remote
  worker reads memory that the NIC is writing. Torn entries must not be applied
  outside the table, appends must return, and a published entry must be applied.
* *Index without logs.* The same entry is cleared and sent once per server while
  the NIC reads it later. Copies must converge, tokens must not leak.
* *Get path.* Messages have no request id and `Client::get` takes the first one:
  the servers must owe exactly one response for each get, whatever the order of RDMA,
  disk and queue completions, or a client takes another get's answer. A leader's
  get can return on another leader's sync request, and its response is then still
  to come. Index pointers may be stale, and a one-sided read takes a slot's key and
  bytes while the owner may be writing them.
* *Client synchronisation.* Barriers of threads within barriers of machines, built
  from counters and untagged messages on a channel shared with gets.
* *Placement.* Blocks are larger than the distance between offsets, so each write
  overlaps its neighbours, on a node that two servers may write.
* *Read ring.* Operations, with their buffers and tokens, are reused without a lock,
  and a ring that runs dry hands out null pointers. A reused operation must
  neither complete early nor answer with the bytes of an earlier read.
* *Set-up.* Eight rounds of connections on fixed ports, ordered by a plain bool and
  by sleeps, neither of which says anything of the other servers: a call may come
  before its port is bound. Nobody may leave a round that a peer still
  needs, and queue pairs must end up where index arithmetic finds them.
* *Connections.* Every thread of every machine has a channel and a flow map of its own,
  several threads share a server's port, and a lookup that fails creates an empty
  flow instead of an error. Servers wait for one another's ports, leaders for one
  another's, and a leader's channel carries sync requests beside its responses.
* *Workload.* Keys numbered from 1, servers from 1, machines from 0 with clients
  first, server ranges from 0, chunks with a remainder: four places compute who owns a key
  or an operation, and a text file of bare numbers lies between two of them.
* *Access rate.* Unsigned arithmetic at the boundary of a search, performances
  compared as floats, and four settings that must describe one and the same split.

`PROJECT.json` lists the hazards one by one with the line where each bites, the
properties that cover it, and a note where none does yet.

## 2. Modules

| module | role |
|---|---|
| `RequestPools` | one call of `read` is a request; pools are sets, since the queues order nothing across threads |
| `AsyncReads` | abstract: a submitted read is answered at most once, with the bytes read for it |
| `RequestPools_proofs` | proofs |
| `CacheIndexLogs`, `CacheIndexLogs_proofs` | log replication: one step per unlocked memory access that others can see; and proofs |
| `CacheIndexes`, `CacheIndexes_proofs` | direct replication, and proofs |
| `GetPath`, `GetPath_proofs` | a get from `Client::get` to its response, and proofs |
| `KVService` | abstract: a get is answered at most once, with the value of its key unless a read of it was torn; a leader's call may be interrupted by a sync request |
| `Workload` | the operations: generators, the file, chunks, routing |
| `ClientSync`, `ClientSync_proofs` | the client machines start, perform those operations and stop together, on top of `Workload`; and proofs about both |
| `BlockPlacement` | placement and preload when there is no cache index |
| `OffsetReads`, `OffsetReads_proofs` | gets served by reads at fixed offsets, on top of `BlockPlacement`, and proofs |
| `RdmaSetup` | how the servers connect before they serve |
| `Connections`, `Connections_proofs` | machnet channels and flows, from the start of a process to the end of the clients' work, on top of `RdmaSetup`; and proofs about both |
| `AccessRate` | ranking, performance, search and the settings handed to the cache |
| `AccessClimb`, `AccessClimb_proofs` | the hill climb beside that search, on top of `AccessRate`; and proofs about both |
| `MC...` | constants for TLC that a .cfg cannot write, and symmetry |

`GetPath` takes the two index modules as given through one liberal choice: a
pointer of the cache index may lead to a slot of any key. What the pointers really
are is the subject of `CacheIndexLogs` and `CacheIndexes`. That `RDMA` reads are
answered once, which `GetPath` uses, is what `AsyncReads` promises and
`RequestPools` is shown to keep. `OffsetReads` is the get path of the mode without a cache
index: it extends `BlockPlacement`, so that what a read returns is what the preload left
in the node's memory. `ClientSync` extends `Workload`: one behaviour generates a file and
goes on with the clients that load it. `Connections` extends `RdmaSetup`: a server's
message channels come after its last round.

### From code to model

*RequestPools.* `TakeSlot`, `PostRead` and `EnqueuePending` are the three queue
operations of `RDMADataWithQueue::read`, on any number of threads. `NicComplete` is the
NIC (external). `DequeuePending`, `RunCallback` (which waits for the token first),
`FreeToken` and `FreeSlot` are `execute_pending`, one step per queue operation.
A panic for want of a token is the state in which a caller holds a slot and the
token pool is empty.

*CacheIndexLogs.* `CacheChanges` is the cache's own write of its index, before its
callback (external). `AppendEntryK`, `Reserve`, `Store` are `append_entry_k` and the
first part of `append_entry`. Position 0 goes on: `CheckRead`/`Examine` for each other
server, `Retry` or `StartPublish`, then `PublishEntry` per entry and server (the NIC
copies the log entry by entry and may catch an entry half written, see
`Seen`), `EndPublish`. `Skip`, `Load` and `Apply` are the background worker; between
`Load` and `Apply` a new entry may land.

*CacheIndexes.* `CachePut` and `CacheEvict` start a callback; `WriteRemote` and
`DeallocRemote` are one turn of its loop over the servers, `NicWrite` carries out the
oldest posted write of a queue pair with the owner's entry of that moment,
`ExecutePending` gives a token back, `UpdateLocalKey` is the repair that follows a read
of another key's slot. A panic stops all threads of its server.

*GetPath.* A *task* is whatever still owes a get its response: the request on the
wire, a posted read, an entry of a response queue, the response. `Ask` is
`Connection::get` up to its poll; it gives the get a name, which the code does not
have. The get returns in `Receive`, on whichever response comes first, or in
`ReceiveSync`, the "Unexpected response" of a leader's get: then the client asks
again while its earlier response is under way. `Hit`,
`MissRemote`, `MissLocal` are the branches of the handler;
`CallbackMatch`, `CallbackForward`, `CallbackMismatch`, `DiskDone` the completions on
other threads; `Drain` and `DrainForward` are `execute_pending_operations`;
`SingletonPut` the handler's branch for a forwarded singleton. Nothing guards the slot that
a one-sided read takes, so `CallbackMatch` and `CallbackForward` may find the expected
key with any key's bytes (`MayRead`), and `torn` records what such reads brought. The switches of
`ops_config.json` that change control are constants of the module.

*Workload.* `StartGenerator` picks the hot keys, one action per distribution draws the next
operation (`rand() % n` is a choice among n; `DrawFromNothing` is the division by zero when
there is no key to draw), `DumpOperations` writes the file and `LoadOf` reads it back.
`ChunkBegin` and `ChunkEnd` are `get_chunk`, `Home` is the server a partitioned operation
names, `Preloads` the range the server loads, `Displaced` the keys on which the two differ.

*ClientSync.* `at[m][t]` is the place of a client thread in `execute_operations`.
`StartSync`, `ReceiveSync`, `ReceiveOther`, `EndSync` are `sync_with_other_clients`, used for both
rounds; `Get`, `GetResponse`, `EndPass` are the loop over a thread's chunk, `GetUnexpected` the
leader's `Client::get` that takes a sync request. `RemoteIndex` turns an operation's node
into a machine.

*BlockPlacement.* `Node` and `Offset` translate `calculateNodeAndOffset`, `InRange` the
range of a server in `main`, `Preload` one turn of the loop that writes the range.
A byte is known by whether it holds the value's character.

*OffsetReads.* Gets have names as in `GetPath`, and `ReceiveSync` is the same branch of a
leader's get. `Hit` and `PostRead` are the handler's two branches, `PostRead` with the ring's
`get_next_available_async_rdma_op` and `enqueue_async_rdma_op`; a worker's operation is its
own until it is pending. `NicReads` is the NIC (external): the bytes land, the token
completes. `Answer` is `background_work` up to the queued response, `FreeOp` its reset and
the return to the free queue. `Bytes` is the string view it answers with: the value if
the operation has read since it was freed and the key's place holds the value.

*RdmaSetup.* A server's round has a listening thread (`Signal`, `Bind`, and the other side
of `Accept`) and a connecting one (`Look`, `SleepEnds`, `Call`, `Accept`); `Leave` is
`done_connect.wait()` or `result.get()`. Round 0 sets `ready` before it binds its port,
the later ones set `start_accepting_connections` after. The loops that read this bool are a data
race, so `loop` is what the build made of them: a loop that reads again, one that reads
once, or none at all. `SleepEnds` may happen at any time. A `Call` to a port that is not bound is
refused: the library asserts there, and `setup.py:476` patches the assertion to a
loop that calls again but never assigns the variable it tests, so the caller
stays in it (`"refused"`).

*Connections.* `phase[m][c]` is how far the object of channel c is: `MachnetStarts`, `Listen`,
`Connect` build it, `StartThreads` is `main` after the last one. `Send` is `Connection::send`
with its lookup; `flows` holds the keys an object put into its map itself. What `receive`
adds is used where it matters, in `ServeGet`: the flow of a request is there while its
response is sent. `SendGet`, `ServeGet`, `ReceiveResponse` are a get, `SendSingleton` and
`ReceiveSingleton` a forwarded singleton. `sync[m]` is the place of a client machine's leader:
`StartMeeting` and `Meet` are `connect_to_other_clients`; `StartFirstSync`, `SendSync`, `PollSync`,
`EndSync` a round of `sync_with_other_clients`, and `StartSecondSync` begins the second one
when every client of the machine has left its loop (`FinishWork`). `PollSync` counts any
message and `ReceiveResponse` returns on any message, as the code does on a leader's channel.

*AccessRate.* `Collect` is `get_and_sort_freq` over any frequencies, `Try` one turn of
the search, `Publish` the four settings. A ranking is given by the set of keys before
each key, equal counts ordered by the keys' names as strings (`NameOrder`); unsigned numbers are numbers modulo `Word`.

*AccessClimb.* `get_best_access_rates`: `Measure` the split in use, `Up` and `Down` the two
inner loops, `Far` the great steps when no round improved anything, `TellClimbed` the
settings. The call in `main` is commented out, so the thread here may choose
either search. Performances are compared as floats (`Single`). The great steps down
wait for a flag that is never set and are no action. Steps are given by `FineSteps` and
`CoarseStep`, since ten keys stand for the ten thousand and more that make a step of
0.01 percent at least one key.

## 3. Runs

| run | configuration | instance | states |
|---|---|---|---|
| `request_pools` | `RequestPools.cfg` | 3 reads, 2 slots, 2 tokens, 2 workers | 6529 |
| `index_logs` | `IndexLogs.cfg` | 2 servers, two threads on one and one on the other, log of 2 | 58770 |
| `index_logs_live` | `IndexLogsLive.cfg` | 2 servers, one thread each, 3 operations: two laps of the log | 26481 |
| `index_logs_overwrite` | `IndexLogsOverwrite.cfg` | counterexample | - |
| `index_logs_settled` | `IndexLogsSettled.cfg` | counterexample | - |
| `get_index` | `GetIndex.cfg` | a leader and another client, 2 gets under way, 1 sync request, 2 keys, torn reads of one, 2 servers, one forwarded singleton | 206388 |
| `client_sync` | `ClientSync.cfg` | 7 keys, 3 servers, files of 3 operations of 9 distributions; the partitioned one executed by 3 machines of 2 threads, symmetric | 877326 |
| `client_sync_second` | `ClientSyncSecond.cfg` | counterexample | - |
| `index_direct` | `IndexDirect.cfg` | 3 servers, 2 keys, 4 tokens, 3 cache operations | 648878 |
| `offset_reads` | `OffsetReads.cfg` (module `MCOffsetReads`) | 7 keys on 3 nodes, blocks of 4, values of 2, a leader and another client, 3 gets, 1 sync request, rings of 4 | 245606 |
| `rdma_setup` | `RdmaSetup.cfg` (module `Connections`) | 2 servers of 2 threads, with logs: 6 rounds; 2 client machines of 2 channels; 2 messages on the wire | 104980 |
| `access_rate` | `AccessRate.cfg` (module `MCAccessRate`) | 10 keys, 29 access patterns, cache of 25, two latency profiles | 76579 |

What they show:

* `request_pools`: no caller finds the token pool empty (`NoTokenPanic`); no slot or
  token is in two hands (`ExclusiveUse`); the pools implement `AsyncReads`; every read
  is answered (`EveryReadAnswered`).
* `index_logs`: the worker of a server never writes outside the index table
  (`NoWildWrite`), although it can load an entry that two threads and the NIC have
  torn. `index_logs_live`: `EveryAppendReturns`, also when both servers publish at
  once, and `EveryEntryApplied`, over the reuse of the log: an entry that lands in a remote
  log is applied to the remote index unless a later batch replaces it first or it
  lands between the worker's load of an earlier entry at its place and the
  clearing of that place.
* `get_index`: each get has exactly one response coming, and a client is owed one more
  than the get it waits for only for each of its gets that returned on a sync request
  (`OwedOnce`). A torn one-sided read spoils its own key and no other, through all the
  caching and forwarding that follows the key check (`OwnValues`). Hence the refinement of
  `KVService`: every get is answered at most once, with its key's value unless a read
  of that key was torn, and only a leader is ever given another get's answer.
  `EveryGetReturns`. The policy is `nchance`: in this model it has all steps of the
  shipped `access_rate_dynamic` and the forwarding of evicted singletons in addition.
* `client_sync`: no thread starts before all threads of all machines are ready
  (`StartTogether`), none ends before all are done (`FinishTogether`), even though
  leaders only count messages and gets interfere. A leader that the messages
  mislead panics, so nobody passes a barrier early. The same behaviours begin with the
  generator: what the clients load is what was generated (`FileHoldsOps`), no operation of the
  file is sent by two threads of a machine and none is left out (`OpsDivided`), and a get
  goes to the machine its operation names, which is a server (`RequestsReachHome`). Whether that
  server preloads the key depends on two divisions that round at different places. The
  properties say exactly when it does: a partitioned operation names the server
  that preloads its key if and only if the key is not `Displaced` (`OnlyDisplacedMiss`, and with it
  `RequestsReachHome`). With a remainder of r keys, the first s * r / N keys, rounded up, of share s are
  displaced, and those after the last share. At the shipped sizes r is 1: of 100,000 keys on
  three servers 33333, 66666 and 99999 are routed to a server that did not load them, and the last
  is loaded by nobody (section 4).
* `index_direct`: a copy of the index differs from its owner only while a write of
  that entry is on its way or after a repair (`CopiesCatchUp`), and no token is
  lost (`TokensConserved`), also when a callback panics. One thread runs the callbacks here;
  section 5 says what happens when several do.
* `offset_reads`: with one key more than divides evenly, as in the shipped sizes
  (100,000 keys on 3 nodes), a loaded key stays readable under every order of
  the servers' writes (`LoadedKeysStay`): with that remainder a server's range is
  just what lies on its own node, written in ascending order. The property depends on
  it: with 6 or 8 keys TLC finds it violated, since the first key of a
  server's range then lies at the end of its neighbour's memory, and the neighbour's
  last block, written later, zeroes the end of its value. Then the gets: each is
  answered once, with sync requests the only cause of a client being owed more than
  the answer it waits for (`OneAnswer`), and with the value of its key (`RightBytes`) if that key was
  loaded at all, no ring hands out a null operation (`NoNullOp`), and every get
  returns (`EveryGetReturns`). The code compares no key in this mode; that the bytes are
  right rests on placement, preload and the reset of the token together.
* `rdma_setup`: a server leaves a round connected both ways to every
  server (`LeavesConnected`), although a fast one may be a round ahead; `connect_qps[i * N + j]`
  leads to server j in round i
  (`QpsInOrder`), which `write_remote` and `append_entry` rely on. Then the channels: no get,
  response, singleton or sync request is sent along a flow that is not in the map
  (`NothingAstray`), and a message on its way to a client that is no leader is the
  answer of the server it waits for (`ResponseIsAwaited`), though clients share the servers'
  ports. Leaders are excepted: sync requests reach their channels, and so do responses
  to gets that took one for an answer. Every server thread runs and every client begins its
  work (`EveryThreadStarts`): servers that wait for one another's ports, leaders that
  wait for one another's and leaders that sync never wait in a circle. Two causes are named in the
  property: a call that was refused, since the caller then never goes on,
  and a build that reads the bool just once, so that a
  connecting thread that looked too early spins for ever. `ConnectionsOK` is the type
  invariant of both modules.
* `access_rate`: the search never wraps round below zero (`NoWrap`), publishes a best
  split (`SearchedIsBest`) with a cutoff at exactly that water mark in the ranking
  (`CutoffMatchesWaterMark`). Where the climb
  stops by itself neither the three greater shares nor the next smaller one is
  better (`StopsAtPeak`). `ClimbOK` is the type invariant of both modules.

### Bounds, and why they are enough

Every bound is a constant of its module.

* `RequestPools` has more reads than slots, as many tokens as slots (the tightest
  case allowed) and two workers: slots and tokens are reused, and both workers can
  be anywhere in `execute_pending`. The proofs lift all bounds.
* `CacheIndexLogs`: a log of two entries has an entry that publishes and one that
  does not. Two threads on one server are what a torn entry needs; three operations
  of one thread reuse position 0. `MaxOps` bounds operations per thread. Both
  at once is beyond a short run (5.1 million states already without liveness), which is
  why there are two runs.
* `GetPath`: two gets under way (`MaxTasks`) give every race between two gets, of two clients or
  of one: the leader may be owed a response when it asks again. One sync request
  (`MaxSyncs`) is what two client machines can put in its way in a round. Two servers give a
  server with cached keys and one without; `MayTear` and `Operations` bound whose reads
  may be torn, and which keys a client asks which server for. `MaxForwards` bounds singletons on
  their way. The proofs lift all of it.
* `ClientSync`: three machines, as shipped, so that a round takes more than one
  message; two threads make a machine's barrier real. Three operations do not divide by two
  threads, so a chunk is longer than the other. All distributions are generated,
  one is executed (`Executed`), once through the chunk (`MaxPasses`); seven keys on three
  servers leave a remainder of one, as the shipped 10,000,000 and 100,000 do, so
  there are displaced keys: 2, 4 and 6, which lie in another server's range, and 7,
  the last. The proofs lift all of it.
* `CacheIndexes`: three servers, so that a callback's loop has two turns, and four tokens
  for up to six writes, so that the panic of an empty pool happens.
* `OffsetReads`: 2 keys per node and a remainder of 1. A block is longer than a value
  and overlaps three later offsets, so the last block of a range reaches past the
  node's last offset. Three gets, two of them the leader's, and four operations are the tightest ring
  `EnoughOps` allows: as an answer is queued before its operation is freed, a client can ask
  again while its last operation is still out, so as many operations as gets
  would not do. `KeysAsked` lets the clients ask for a key of one node, the last key,
  which nobody preloads and which shares that node, and a key of the server's own
  node, which it may have cached; `MaxSyncs` is one.
* `RdmaSetup` and `Connections`: two servers with all six rounds, of two threads each, so
  that a server's objects come one after the other; two client machines, so that there are
  leaders to meet and to sync, and two channels of a client thread index, which share a server's
  port. `MaxOnWire` is two when a get or a singleton is sent: a late response, a get and a sync
  request, which has no bound, can meet at a leader. `MaxAlike` tells two equal messages apart. The
  proofs need no bound.
* `AccessRate`, `AccessClimb`: ten keys make room for three small steps and a great one
  below a third of the cache; the access patterns are a single hot key, all but one, skews,
  plateaus and ties. `Word` is far above all sums, so that wrapping round shows as an
  absurd number, and a significand of 8 bits makes performances that differ equal as floats.

`CHECK_DEADLOCK FALSE` stands where a bounded workload ends or a process panics
(`ClientSync`, `CacheIndexes`), a connecting thread is stuck in a hoisted loop or behind a refused
call (`Connections`), or the constant inputs run out of steps to choose
(`AccessRate`). The other runs check for
deadlock.

### Fairness

* Pools: each caller, each worker and the NIC are weakly fair. Callers spin
  on `free_queue`, workers run `while (!g_stop)`, and a posted read completes. Fairness
  of a thread says only that the scheduler runs it.
* Logs: threads inside a callback and each background worker are weakly fair;
  nothing forces the cache to change. The NIC's steps are part of the publishing
  thread, which waits for them.
* Get path: for each client, the steps that serve its gets are weakly fair
  *together*: while it waits a response is owed to it, so one of them is
  enabled until some response is taken, and each takes a get further on its way; the server's
  loop, the drains, the NIC,
  the disk and the client's own poll each run without a pause. Clients need
  not ask, no sync request need come, and nothing forces an eviction or the cache to keep a value.
* Offset reads: for each get, its worker, the NIC and its client's poll are weakly fair, and so is
  each ring's thread where it frees an operation; its answer to a given read is strongly fair, since
  `background_work` takes the pending operations in turn, queues an incomplete one again, and is
  busy with another's operation in between.
* Set-up and connections: the servers' set-up is weakly fair, and so is what machines do to
  build their objects and to gather their leaders. Each of the two can take only finitely
  many steps, so fairness of the whole is fairness to every thread. Nothing makes
  anybody send a get or a singleton or finish the work, and no assumption is made about how long a
  sleep lasts. That a client thread
  finds its server's port is `EveryClientHasServer`: all machines run with the same number
  of threads, as `setup.py` starts them.
* No liveness is claimed for client synchronisation (see the next section), nor for the
  two searches of the access-rate thread.

## 4. Where the code departs from what it says

Each is a `violation` run: TLC finds a behaviour of the code that breaks what a
comment, a log message or the repository's README says.

* `index_logs_overwrite` (`ldc.h:723`). Before it publishes, a server is to check that
  the other servers have applied the previous batch ("Checking if remote [{}] is
  done {}"). The queue pair it uses leads to its *own* copy of the other's log, so it
  waits for its own worker, and a batch can replace entries that the remote
  worker has not applied.
* `index_logs_settled` (`ldc.h:710`). The newest entry of a batch sits at position 0
  and the worker applies positions in ascending order: of two updates of one key
  the older can be applied last, and the copy stays wrong with everything
  published and applied, in a store described as eventually consistent. A wrong pointer
  costs a remote read and a disk read; it does not make a value another key's,
  which only a torn read can: that is `OwnValues`.
* `client_sync_second` (`connection.cpp:192`). A get of the leader takes another
  machine's sync request off the shared channel, drops it as an unexpected
  response, and its own late response is then counted as a sync message: the
  machine panics at the end of the workload.
  With three machines there is a second way to the same panic: the request of a fast
  machine for the end of the workload is counted by a slow machine that is still in
  its first round; it needs no get of the leader at all.

Met while modelling, and left to the hazard list and the plan:

* With cache indexing and `RDMA_ASYNC` off the handler also sends the buffer it
  never filled (`ldc.cpp:512`). `StrayResponses` models it; `GetPath` with
  `RdmaAsync = FALSE` violates `OwedOnce`. The shipped configuration has it on, and
  the theorems about responses carry the assumption `NoStray`.
* `update_local_key` (`ldc.h:568`) assigns the reader's entry of the *expected* key to
  the copies of the *found* key: right copies become wrong and nothing corrects them.
  This is the exception `repaired` in `CopiesCatchUp`.
* The last key of the dataset is in no server's preload range (`ldc.cpp:682`); without
  the cache index its read returns bytes of another key's block. With keys that do not
  divide evenly, the range a server loads and the server an operation names drift
  apart, since both round down at different places: with 100,000 keys on three servers key 33333
  is routed to the second server and preloaded by the first. `Displaced` says which keys these are. With
  the cache index such a get only costs more; it is answered from disk or by a one-sided read.
* A one-sided read takes a slot's key and its bytes without a lock, version or checksum
  (`ldc.cpp:463`): if the owner gives the slot to another key meanwhile, the key can match while
  the bytes are another's, and the cache may keep them. `OwnValues` says how far this goes.
* During set-up a call can come before the port is bound, as the sleeps (`ldc.cpp:726`,
  `ldc.h:462`) say nothing of the other servers. In the patched library the caller then never
  goes on (`setup/setup.py:476`: the loop's condition is not assigned again).
* `rand() % 0` when no key is hot, or every key, ends the generator (`DrawFromNothing`).
* With fewer than 10000 keys the climb's step of 0.01 percent is zero keys and its loop
  (`access_rate_calculations.cpp:409`) never leaves the spot; `StepsAreSane` excludes it.

## 5. Proofs

Eight proof modules, each beside its component. They assume what the named
`ASSUME`s of the component state, which TLC evaluates in every run.

*RequestPools_proofs*, for any calls, slots, tokens and workers with at least as
many tokens as slots (`EnoughTokens`; both are 50000 in the code).
`IInv` ties every slot in use to the call whose callback it holds (`SlotsOwned`), every
token in use to one such slot (`TokensOwned`), a call's stage to what it owns
(`StageOwns`), a worker to the slot it holds (`WorkersOwn`), the NIC's operations to slots
nobody else touches (`NicOwns`), and an answer to a call that was posted and not answered before
(`AnsweredOnce`). `NoTokenPanic` alone is not inductive: it needs that each token out
of the pool is stored in a slot out of the pool, and then a counting argument (a
caller with a slot but no token leaves fewer slots than tokens in use).
Theorems: `Invariance`, `TypeCorrect`, `TokenSafety`, `Exclusion`, and `Refinement` of
`AsyncReads`.

*GetPath_proofs*, for any clients, leaders, keys, servers, caches and switches, and any
numbers of sync requests and torn reads; the
synchronous disk reads, which no run sets, are covered here. Three theorems, `OneResponseOwed`,
`ValuesStayHome` and `Refinement` of `KVService`, assume `NoStray`: with one-sided reads,
`RDMA_ASYNC` is on. Their argument is one lemma, `MoveKeepsOwed`: every handler and every
callback replaces one task by one of the same get and key, so only `Ask`, `Receive` and
`ReceiveSync` change what is owed; and the gets a client is owed, a finite set (`CountOf`), grow by one
where it asks and shrink by one where a response comes. A sync request ends a get and
leaves the set as it is, so that from then on the client is owed one more. Without the assumption a
client may get two responses, but two theorems still hold: `TypeCorrect`, and `TornStaysHome`, by
which a torn read spoils only its own key in caches, forwarded singletons and
responses, though a response may carry an unfilled buffer.

*CacheIndexLogs_proofs*, for any number of servers, threads, keys and slots and any log
length. `NoWildWrite`: the memory behind the table can change only by a write through an
entry's key; the cache's own write has a key of the cache, and the worker tests the key it has
loaded, not the log's entry, so an entry that lands after the load cannot send it
elsewhere. `TypeOK` needs counting: `machines_ready` and the servers left to the loop are together no
more than the other servers (`LoopCounts`). And it needs that the worker's
scan, a minimum over the servers still ahead, stays among them (`FirstServerIsOther`).
Theorems: `TypeCorrect`, `WorkerStaysInTable`.

*CacheIndexes_proofs*, for any servers, threads, keys, slots and tokens.
`CopiesCatchUp` needs `LoopOK`: `dealloc_remote` clears the owner's entry in every turn of
its loop, and only because the first turn has cleared it do the later ones leave
the servers already written in agreement. That is where overlapping callbacks of one
server matter. `Convergence` has the hypothesis `NoPutInDealloc`: no put's callback
begins while a dealloc of the same key goes round. If one does, the put's writes can be
delivered before the dealloc's next turn clears the entry again, and a copy keeps a pointer
its owner has dropped, with nothing on its way; without the hypothesis TLC finds
this with two threads on one server. Whether the block cache's lock excludes it is outside the
repository. Any other overlap is allowed, and `ConvergenceOneThread` is the case of one
thread for each server, as in the run. Types and tokens need no such hypothesis: `NoTokenLost` counts the
places of a server's queue pairs, a finite set (`InFlight`) that a post enlarges
by one and the NIC reduces by one. Theorems: `TypeCorrect`, `NoTokenLost`, `Convergence`,
`ConvergenceOneThread`.

*OffsetReads_proofs*, for any keys, nodes, sizes, clients, leaders and operations under `EnoughOps`.
`IInv` adds to `TypeOK` that each get has just one request, read or answer under way (`OneEach`), that no
operation of a ring is lost (`OpsPlaced`) and that a pending read is at the node of the key its get
asked for (`ReadsPlaced`), without which one get could have reads in two rings. `OneAnswer` then counts
the gets a client is owed, as in `GetPath_proofs`. `NoNullOp` is a pigeonhole argument: were
every operation in use while a request waits, each would stand for a get, the
one being freed for the waiting get, and two would stand for the same one.
The theorems about bytes assume `RemainderOfOne`, one key more than divides evenly among the nodes:
100,000 keys on three nodes leave one, and without it the property is false (section 3).
Then the range a server loads is exactly its node's keys (`RangeIsNode`, `NodeLoads`), so
that one server writes a node, in ascending order, and a later block covers of an earlier value
only what its own value fills with the same character (`LaterBlockSpares`).
An answer is right because the token of an operation says that its read is done
just while its buffer holds that read (`TokensTrue`) and gets are sent after the preload.
`AllButLastServed` says what is then left of the "if loaded" in `RightBytes`: the one last key.
Theorems: `TypeCorrect`, `OneAnswerOwed`, `NeverNullOp`, `PreloadedStays`, `AnswersAreRight`,
`AllButLastServed`.

*ClientSync_proofs*, for any machines, threads, keys and distributions. Its first part is about
the operators and the generator of `Workload`: chunks are disjoint and cover the sequence
(`ChunksDisjoint`, `ChunksCover`), the named server preloads the key exactly if the key is not
displaced (`HomePreloads`), loading undoes
dumping (`DumpThenLoad`), and the generator's invariant, on which the rest builds. The barrier part counts:
`ready` and `done` are the numbers of threads past their points (`Counted`), and what a
machine took off its channel from another was sent (`Acknowledged`): a leader that has
left a round without panic has taken one sync request from everybody, after the second
round two, in whichever round or get it took them. Since nobody sends the second one
before all threads of its machine are done, that is enough. The get part ties
`sent` to the chunk and to `next`. `HomePreloads` holds for every number of keys and
servers, remainders included; it is about the exact bounds s * NUM / N, which the code computes as
floating-point numbers. For the shipped 100,000 and 10,000,000 keys on three servers the two give the
same ranges. Theorems about the clients: `TypeCorrect`, `StartsTogether`, `FinishesTogether`,
`OnlyDisplacedGoAstray`, `FileHolds`, `OpsAreDivided`, `GetsReachHome`.

*Connections_proofs*, the set-up part, for any number of servers, with and without logs.
That connections leave the set-up alone is `SetupUndisturbed`, so what holds of `RdmaSetup`
holds here. What a server has done of a round is said by `Called`: the servers it has connected to. A port's count is the
number of servers that have called it in its owner's round (`Counted`), a server has been called
by everybody in the rounds it has left and by nobody in those it has not entered
(`RoundsInStep`), and whoever is not refused waits at a port that is bound
(`Placed`). Nothing is assumed of the sleeps: a refused call leaves its caller where it is. `LeavesAllConnected` and
`QpsWhereLooked` add what `qps` records (`Recorded`, `Grown`) and some arithmetic of division
(`DivOfSum`). Theorems: `TypeCorrect`, `LeavesAllConnected`, `QpsWhereLooked`.

*Connections_proofs*, the connections, for any number of servers, client machines, threads and clients per
thread. An object that is built knows every server but its own, and a leader that syncs every other
leader (`BuiltKnows`), so gets, singletons and sync requests find their flows. For responses the
invariant needs that at most one message concerns a waiting client that is no leader, its get or the answer (`OneAtATime`), that it names the
server waited for (`Addressed`), and that source ports tell a machine's channels apart
(`PortsDiffer`). Theorems: `NobodyAstray`, `ResponsesAwaited`, `ConnectionsTypes`.

*AccessClimb_proofs*, for any number of keys, any access counts and latencies, and a cache a third
of which holds less than all keys (`SizesAreSane`, `StepsAreSane`). All theorems are
about `ClimbSpec`, in which either search may run, so they cover `AccessRate` as well.
Rankings come first: in a finite strict order, counting what comes before an element
gives every place to one element (`Ranks`), so that the index of a key is the number of keys
before it (`RankingIsOK`) and a cutoff at an index is a cutoff at a number of keys; this
is `CutoffMatchesWaterMark`. The searches compare what each split performs, `Speed`, which
does not change while a search runs, because ranking and latencies do not. `BestSoFar` says of
the search over all splits that the best is at least as good as all it has tried, and `Around` of the
climb what it knows at each of its places: after a round without improvement the three greater
shares are not better, after the downward loop the next smaller one is not. `StopsAtPeak` and
`SearchedIsBest` follow when the search ends. The climb compares performances rounded to floats, and the proof
uses nothing of the rounding. Theorems: `TypeCorrect`, `SplitsFillCache`, `CutoffIsExact`, `SearchFindsBest`,
`ClimbStopsAtPeak`, and `SumsNeverWrap`, which no run lists: the unsigned difference of two
running sums does not wrap.

Every invariant that a passing run checks is stated by a theorem, and so are the two refinements.
Only model-checked is liveness (`EveryReadAnswered`, `EveryAppendReturns`, `EveryEntryApplied`,
`EveryGetReturns`, `EveryThreadStarts`): the prover handles neither `ENABLED` nor fairness.
The properties of the violation runs are false. Not proved, and not needed, is what a
performance or a running sum computes: sums over sets are stated by cardinalities of
pairs (`Accesses`, `InFlight`) instead of folds, since what a fold computes for every input
needs induction over data, for which the library's theorems take operators that the
installed provers cannot instantiate. The type invariants that no run lists
(`RequestPools`, `GetPath`, `CacheIndexes`, `OffsetReads`, `ClientSync`) are proved.
No module uses `RECURSIVE`, whose operators the prover cannot handle.

## 6. Mutants

The definitions under "Mutants" in a module (or marked "Mutant") are not part of its
specification. Each is a step as a plausible slip would have written it: a callback that
frees the slot first, a loop that stops one short, a key check left out. Put in
the place of the definition named in `PROJECT.json`, it makes TLC find the property
violated in the same configuration.

## 7. Plan

The order is by what the program's answers depend on. Everything the plan named
to be modelled is done: pools, both indexes, get path, client synchronisation with its
workload, placement and reads at fixed offsets, access rate with its climb, set-up,
connections, start and end.

What could be added:

1. Configurations that are off by default as further instances: reads without
   `RDMA_ASYNC`, logs with two publishers on each server.
2. Proofs. All invariants of the runs are done. Worth adding: the safety
   halves of the liveness properties where no invariant says them yet (`CacheIndexLogs`, `ClientSync`,
   the set-up): whoever waits is waiting for something that is on its way.

## 8. Not modelled

* *Put handler.* Nothing in the program sends a put: `load_database` and
  `executeOperations`, the callers of `Client::put`, are not called by `main`. The handler has
  no reachable input, and its answer to the configured base port
  (`connection.cpp:354`) no receiver.
* *Reads without `RDMA_ASYNC`.* Two workers of a server read into one shared
  `node.buffer` (`rdma_reads.cpp:108`) and copy from it without a lock; no property about
  the bytes would hold, no doc or test promises one, and the shipped
  configuration has the switch on.
* *`AsyncRdmaCircularBuffer`*, compiled only with `USE_ORIGINAL_ASYNC_RDMA_DATA`.
* *Snapshot, statistics, monitoring*: plain and relaxed counters, which threads
  increment and the reset after the warm-up clears in no particular order, by design without exact totals.
  No decision reads them but the detector of a stuck system, which goes by real time.
* *The interrupt, and the rest of process start and stop*. The SIGINT handler sets `g_stop`, after which
  `main` is to join every thread. Not every loop looks at it: `append_entry` (`ldc.h:713`) waits
  for a worker of its own process, which leaves on `g_stop` (`ldc.h:664`); clients wait at their barriers
  (`ldc.cpp:111`, `194`); a leader retries its connections (`connection.cpp:67`); and a
  sync that is cut short panics (`connection.cpp:312`). That an interrupted process ends is
  false, no doc or test promises it, and a model of the threads that do end would say little. Also left
  out: flags, pinning threads to cores, killing an old machnet, final dumps. `machnet_connect` retries
  a million times with pauses, which counts as for ever.
* *Disk reads without `DISK_ASYNC`* are in `GetPath` and its proofs, but no run sets the switch: an RDMA
  worker then answers by itself (`ldc.cpp:441`), beside the server's thread on a plain hash map. `DiskSwitchesAgree`
  assumes that `DISK_ASYNC` and `db.block_db.async` agree, as `setup.py` writes both from one flag; where
  they differ, responses stay in the queue (`connection.cpp:508`).
* *Rest of the workload*: `divideOperationSetPerThread`, `issueOps` and the per-thread YCSB files, which
  `main` does not reach or other programs write.
* *Wire format*: generated from `packet.capnp`. Messages are records here.
* *Stand-alone experiments* (`test_cdf.cpp`, `testing_optimization.cpp`, `workload/`) and
  deployment scripts (`setup/`), outside the store.
* *Submodules* (blkcache, infinity, machnet, moodycamel, capnp): external. Assumed:
  a queue loses and duplicates nothing, a queue pair carries out writes in order, a
  posted operation completes, the transport delivers every message of a channel
  once, a cache stores a value in a slot no other key uses.
* *Machine failure*: the program has no handling of a lost peer. A machine that
  stops makes its peers wait, and nothing is persisted to recover from.
