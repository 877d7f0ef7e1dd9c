------------------------------ MODULE GetPath ------------------------------
(***************************************************************************)
(* The life of one get, from Client::get through server_worker's handler   *)
(* and back.  A client waits for one response at a time, but requests and  *)
(* responses carry no request id: Client::get returns on the first message *)
(* that arrives, whatever it is.  On the channel of a leader, thread 0 of  *)
(* the first client of a machine, that may be a sync request of another    *)
(* leader: the get then returns nothing and its response is still to come. *)
(*                                                                         *)
(* A name in Gets stands for a get whose response is outstanding.  The     *)
(* names, and owed, which says what each asked, are no state of the code:  *)
(* they tell apart what its messages do not.                               *)
(*                                                                         *)
(* Everything that still owes get g a response is a task: the request      *)
(* on the wire, a posted RDMA read, a posted disk read, an entry of one of *)
(* the server's two response queues, the response on the wire.  A handler  *)
(* or a callback moves a task on.  Handlers share nothing but the cache of *)
(* their machine, so a server stands for all its worker threads.           *)
(*                                                                         *)
(* A value is named by the key it belongs to.  Which pointers the cache    *)
(* index holds is left open: CacheIndexLogs and CacheIndexes say how they  *)
(* age, and here a read may land on a slot of any key.  Nor does anything  *)
(* lock the slot: the NIC may read its key_index before, and its data      *)
(* after, the owner gives it to another key.  torn records what such reads *)
(* brought home.  One-sided reads without a cache index are the subject of *)
(* OffsetReads.                                                            *)
(***************************************************************************)
EXTENDS Integers, FiniteSets

CONSTANTS
    Clients, Keys,
    Nothing,          \* no key, no value; bytes that are no key's value
    Leaders,          \* the clients other leaders send sync requests to
    Gets,             \* names of gets whose response is outstanding: numbers
    ClientOf,         \* ClientOf[g]: the client that names a get g
    NumServers,
    OneSided,         \* one_sided_rdma_enabled, with use_cache_indexing
    RdmaAsync,        \* RDMA_ASYNC
    DiskAsync,        \* DISK_ASYNC
    DbAsync,          \* db.block_db.async
    Pollute,          \* operations_pollute_cache
    Policy,           \* policy_type
    Operations,       \* Operations[c]: the keys c gets, each with a server
    MayTear,          \* bound: the keys a read of which may be torn
    Preloaded,        \* Preloaded[s]: the keys in [key_min, key_max) of s
    MaxForwards,      \* bound: singletons on their way
    MaxSyncs,         \* bound: sync requests to a leader during its gets
    MaxTasks          \* bound: gets under way at once

Servers == 0 .. NumServers - 1

ASSUME ConfigIsSane ==
    /\ NumServers \in Nat \ {0}
    /\ {OneSided, RdmaAsync, DiskAsync, DbAsync, Pollute} \subseteq BOOLEAN
    /\ Preloaded \in [Servers -> SUBSET Keys]
    /\ Operations \in [Clients -> SUBSET (Keys \X Servers)]
    /\ Leaders \subseteq Clients
    /\ ClientOf \in [Gets -> Clients]
    /\ Gets \subseteq Nat /\ IsFiniteSet(Gets)
    /\ MaxSyncs \in Nat
    /\ Nothing \notin Keys

\* setup.py writes one value into both switches.
ASSUME DiskSwitchesAgree == DiskAsync = DbAsync

VARIABLES
    want,       \* want[c]: the key c's get is waiting for
    owed,       \* owed[g]: the key get g asked for, until it is answered
    taken,      \* taken[c]: gets of c that returned on a sync request
    tasks,      \* what owes a client a response, and how far it is
    cache,      \* cache[s][k]: the value machine s caches under k
    torn,       \* torn[k]: the other keys' bytes that reads brought for k
    forwards    \* singletons queued for or sent to another server

clientVars == <<want, owed, taken>>
vars == <<clientVars, tasks, cache, torn, forwards>>

Stages == {"request", "rdma", "disk", "rdmaQueue", "diskQueue", "response"}

\* add: fetch_from_disk's add_to_cache.
Tasks == [get : Gets, key : Keys, server : Servers, at : Stages,
          got : Keys \union {Nothing}, add : BOOLEAN]

Forwards == [to : Servers, key : Keys, got : Keys \union {Nothing},
             at : {"queue", "wire"}]

Init ==
    /\ want = [c \in Clients |-> Nothing]
    /\ owed = [g \in Gets |-> Nothing]
    /\ taken = [c \in Clients |-> 0]
    /\ torn = [k \in Keys |-> {}]
    /\ tasks = {}
    /\ cache = [s \in Servers |->
                   [k \in Keys |-> IF Policy = "thread_safe_lru" /\ k \in Preloaded[s]
                                   THEN k ELSE Nothing]]
    /\ forwards = {}

-----------------------------------------------------------------------------
(* Steps shared by the handlers                                            *)

\* Task i becomes task j.
Move(i, j) == tasks' = (tasks \ {i}) \union {j}

\* get_response: the response is on the wire.
Sent(i, v) == [i EXCEPT !.at = "response", !.got = v, !.add = FALSE]

Put(s, k, v) == cache' = [cache EXCEPT ![s][k] = v]

\* The bytes a read of k may bring.
MayRead(k, v) == v = k \/ k \in MayTear

\* What a read for k brought, if the bytes are those of another key.
TornBy(k, v) == [torn EXCEPT ![k] = @ \union ({v} \ {k})]

(***************************************************************************)
(* fetch_from_disk(add).  The asynchronous branch posts a read; the        *)
(* synchronous one fetches the value, through the cache when it may keep   *)
(* it there, and responds at once.  `also` is what the caller has sent     *)
(* before.                                                                 *)
(***************************************************************************)
FetchFromDisk(i, add, also) ==
    /\ tasks' = (tasks \ {i}) \union also \union
          {IF DiskAsync THEN [i EXCEPT !.at = "disk", !.add = add]
                        ELSE Sent(i, i.key)}
    /\ IF ~DiskAsync /\ Pollute /\ add
       THEN Put(i.server, i.key, i.key) ELSE UNCHANGED cache

-----------------------------------------------------------------------------
(* Mutants: steps as a plausible bug would have them, each broken by one   *)
(* of the properties below.                                                *)

\* The callback does not compare the slot's key with the one expected.
CallbackMatchAnyKey(i, v) ==
    /\ i.at = "rdma"
    /\ Move(i, [i EXCEPT !.at = "rdmaQueue", !.got = v])
    /\ Put(i.server, i.key, v)
    /\ UNCHANGED <<clientVars, torn, forwards>>

\* read_callback posts the read but reports that it found nothing.
MissRemoteNotReported(i) ==
    /\ i.at = "request" /\ cache[i.server][i.key] = Nothing
    /\ OneSided
    /\ tasks' = (tasks \ {i}) \union {[i EXCEPT !.at = "rdma"],
                                      [i EXCEPT !.at = "disk", !.add = TRUE]}
    /\ UNCHANGED <<clientVars, cache, torn, forwards>>

\* The disk callback looks the key up again, though it may not be cached.
DiskDoneLooksUp(i) ==
    /\ i.at = "disk"
    /\ Move(i, [i EXCEPT !.at = "request", !.add = FALSE])
    /\ UNCHANGED <<clientVars, cache, torn, forwards>>

\* put_nchance's eviction is forwarded under the key just read.
ForwardWrongKey(i, e, v) ==
    /\ i.at = "rdma" /\ Policy = "nchance"
    /\ e # i.key /\ cache[i.server][e] # Nothing
    /\ Cardinality(forwards) < MaxForwards
    /\ cache' = [cache EXCEPT ![i.server][i.key] = v, ![i.server][e] = Nothing]
    /\ forwards' = forwards \union
           {[to |-> (i.server + 1) % NumServers, key |-> i.key,
             got |-> cache[i.server][e], at |-> "queue"]}
    /\ Move(i, [i EXCEPT !.at = "rdmaQueue", !.got = v])
    /\ torn' = TornBy(i.key, v)
    /\ UNCHANGED clientVars

-----------------------------------------------------------------------------
(* A client: Client::get, called in a loop by execute_operations           *)

\* The names c can give its next get.
Free(c) == {g \in Gets : ClientOf[g] = c /\ owed[g] = Nothing}

Ask(c, k, s, g) ==
    /\ want[c] = Nothing
    /\ g \in Free(c) /\ \A h \in Free(c) : g <= h
    /\ <<k, s>> \in Operations[c] /\ Cardinality(tasks) < MaxTasks
    /\ want' = [want EXCEPT ![c] = k]
    /\ owed' = [owed EXCEPT ![g] = k]
    /\ tasks' = tasks \union {[get |-> g, key |-> k, server |-> s, at |-> "request",
                               got |-> Nothing, add |-> FALSE]}
    /\ UNCHANGED <<taken, cache, torn, forwards>>

\* The get returns.
Return(c) == want[c] # Nothing /\ want' = [want EXCEPT ![c] = Nothing]

\* poll_receive handles whatever comes first: nothing ties it to the request.
\* The get returns i.got.
Receive(c, i) ==
    /\ i.at = "response" /\ ClientOf[i.get] = c
    /\ Return(c)
    /\ owed' = [owed EXCEPT ![i.get] = Nothing]
    /\ tasks' = tasks \ {i}
    /\ UNCHANGED <<taken, cache, torn, forwards>>

\* "Unexpected response": a leader's get takes the sync request of another
\* leader, which may be done with its operations any time, and returns empty.
ReceiveSync(c) ==
    /\ c \in Leaders /\ taken[c] < MaxSyncs
    /\ Return(c)
    /\ taken' = [taken EXCEPT ![c] = @ + 1]
    /\ UNCHANGED <<owed, tasks, cache, torn, forwards>>

-----------------------------------------------------------------------------
(* The server's handler for a get request                                  *)

Missing(i) == i.at = "request" /\ cache[i.server][i.key] = Nothing

Hit(i) ==
    /\ i.at = "request" /\ cache[i.server][i.key] # Nothing
    /\ Move(i, Sent(i, cache[i.server][i.key]))
    /\ UNCHANGED <<clientVars, cache, torn, forwards>>

\* Without RDMA_ASYNC the handler also responds with read_buffer, which the
\* index's read, asynchronous in any case, never fills.
StrayResponses(i) == IF RdmaAsync THEN {} ELSE {Sent(i, Nothing)}

\* read_callback found a pointer in some other server's index and posted a read.
MissRemote(i) ==
    /\ Missing(i)
    /\ OneSided /\ NumServers > 1
    /\ tasks' = (tasks \ {i}) \union {[i EXCEPT !.at = "rdma"]} \union StrayResponses(i)
    /\ UNCHANGED <<clientVars, cache, torn, forwards>>

\* No pointer, or no one-sided reads at all: the disk.
MissLocal(i) ==
    /\ Missing(i)
    /\ FetchFromDisk(i, TRUE, IF OneSided THEN StrayResponses(i) ELSE {})
    /\ UNCHANGED <<clientVars, torn, forwards>>

-----------------------------------------------------------------------------
(* Completions, on other threads than the handler's                        *)

\* The slot read held the expected key, and with it the bytes of v: another
\* key's if it was rewritten meanwhile.  The cache policy may keep the value.
CallbackMatch(i, v) ==
    /\ i.at = "rdma" /\ MayRead(i.key, v)
    /\ Move(i, [i EXCEPT !.at = "rdmaQueue", !.got = v])
    /\ torn' = TornBy(i.key, v)
    /\ \/ UNCHANGED cache
       \/ /\ Policy \in {"nchance", "access_rate", "access_rate_dynamic"}
          /\ Put(i.server, i.key, v)
    /\ UNCHANGED <<clientVars, forwards>>

\* put_nchance evicted the singleton e: it goes on to the next server.
CallbackForward(i, e, v) ==
    /\ i.at = "rdma" /\ Policy = "nchance" /\ MayRead(i.key, v)
    /\ e # i.key /\ cache[i.server][e] # Nothing
    /\ Cardinality(forwards) < MaxForwards
    /\ cache' = [cache EXCEPT ![i.server][i.key] = v, ![i.server][e] = Nothing]
    /\ forwards' = forwards \union
           {[to |-> (i.server + 1) % NumServers, key |-> e,
             got |-> cache[i.server][e], at |-> "queue"]}
    /\ Move(i, [i EXCEPT !.at = "rdmaQueue", !.got = v])
    /\ torn' = TornBy(i.key, v)
    /\ UNCHANGED clientVars

\* The slot held another key, or none: back to the disk, without caching.
CallbackMismatch(i) ==
    /\ i.at = "rdma"
    /\ FetchFromDisk(i, FALSE, {})
    /\ UNCHANGED <<clientVars, torn, forwards>>

\* The callback of get_async.
DiskDone(i) ==
    /\ i.at = "disk"
    /\ IF i.add /\ (Pollute \/ i.key \in Preloaded[i.server])
       THEN Put(i.server, i.key, i.key) ELSE UNCHANGED cache
    /\ Move(i, [i EXCEPT !.at = "diskQueue", !.got = i.key, !.add = FALSE])
    /\ UNCHANGED <<clientVars, torn, forwards>>

\* execute_pending_operations sends what the queues hold.
Drain(i) ==
    /\ i.at = "rdmaQueue" \/ (i.at = "diskQueue" /\ DbAsync)
    /\ Move(i, Sent(i, i.got))
    /\ UNCHANGED <<clientVars, cache, torn, forwards>>

DrainForward(f) ==
    /\ f.at = "queue"
    /\ forwards' = (forwards \ {f}) \union {[f EXCEPT !.at = "wire"]}
    /\ UNCHANGED <<clientVars, tasks, cache, torn>>

\* The handler's SingletonPutRequest branch.
SingletonPut(f) ==
    /\ f.at = "wire"
    /\ Put(f.to, f.key, f.got)
    /\ forwards' = forwards \ {f}
    /\ UNCHANGED <<clientVars, tasks, torn>>

\* The cache policy makes room.
Evict(s, k) ==
    /\ cache[s][k] # Nothing
    /\ Put(s, k, Nothing)
    /\ UNCHANGED <<clientVars, tasks, torn, forwards>>

-----------------------------------------------------------------------------
ClientStep(c) ==
    \/ \E k \in Keys, s \in Servers, g \in Gets : Ask(c, k, s, g)
    \/ \E i \in tasks : Receive(c, i)
    \/ ReceiveSync(c)

Handle(i) == Hit(i) \/ MissRemote(i) \/ MissLocal(i)

Complete(i) ==
    \/ \E v \in Keys : CallbackMatch(i, v) \/ \E e \in Keys : CallbackForward(i, e, v)
    \/ CallbackMismatch(i) \/ DiskDone(i)

ForwardStep(f) == DrainForward(f) \/ SingletonPut(f)

Next ==
    \/ \E c \in Clients : ClientStep(c)
    \/ \E i \in tasks : Handle(i) \/ Complete(i) \/ Drain(i)
    \/ \E f \in forwards : ForwardStep(f)
    \/ \E s \in Servers, k \in Keys : Evict(s, k)

\* Of client c: its worker's, the NIC's, the disk's and the drains' steps.
ServeStep(c) == \E i \in tasks :
    ClientOf[i.get] = c /\ (Handle(i) \/ Complete(i) \/ Drain(i) \/ Receive(c, i))

Spec == Init /\ [][Next]_vars

\* Server loops, completion threads and a waiting client poll without a pause.
FairSpec == Spec /\ \A c \in Clients : WF_vars(ServeStep(c))

-----------------------------------------------------------------------------
TypeOK ==
    /\ want \in [Clients -> Keys \union {Nothing}]
    /\ owed \in [Gets -> Keys \union {Nothing}]
    /\ taken \in [Clients -> Nat]
    /\ tasks \subseteq Tasks
    /\ cache \in [Servers -> [Keys -> Keys \union {Nothing}]]
    /\ torn \in [Keys -> SUBSET Keys]
    /\ forwards \subseteq Forwards

TasksOf(g) == {i \in tasks : i.get = g}

\* The gets of c whose response is outstanding.
Outstanding(c) == {g \in Gets : ClientOf[g] = c /\ owed[g] # Nothing}

\* Exactly one task answers an outstanding get, with its key, none any other.
OneTaskEach == \A g \in Gets :
    IF owed[g] = Nothing THEN TasksOf(g) = {}
    ELSE \E i \in TasksOf(g) : TasksOf(g) = {i} /\ i.key = owed[g]

\* A client is owed the response of the get it waits for and one more for every
\* get of its that returned on a sync request; one that never took a sync
\* request is owed the very key it waits for.  So only a sync request can put
\* the responses of Connection::get out of step with its calls.
OwedOnce ==
    /\ OneTaskEach
    /\ \A c \in Clients :
          /\ Cardinality(Outstanding(c)) = taken[c] + (IF want[c] = Nothing THEN 0 ELSE 1)
          /\ taken[c] = 0 => \A g \in Outstanding(c) : owed[g] = want[c]
          /\ c \notin Leaders => taken[c] = 0

\* The stages at which a task carries a value.
Carrying == {"rdmaQueue", "diskQueue", "response"}

\* A torn read spoils its own key and no other: what a cache, a response or a
\* forwarded singleton holds under k is k's value or bytes that a torn read of
\* k brought, through all the caching, forwarding and hitting that follows the
\* key check of the RDMA callback.
OwnValues ==
    /\ \A s \in Servers, k \in Keys : cache[s][k] \in {k, Nothing} \union torn[k]
    /\ \A f \in forwards : f.got \in {f.key} \union torn[f.key]
    /\ \A i \in tasks : i.at \in Carrying => i.got \in {i.key} \union torn[i.key]

\* The get path implements the service: every get is answered at most once, with
\* its own key's value if no read of that key was torn, whatever the caches, the
\* index and the disk do; and only a leader's get is ever given another's answer.
Answers == [g \in Gets |-> {i.got : i \in {t \in TasksOf(g) : t.at = "response"}}]
Service == INSTANCE KVService WITH answers <- Answers
ImplementsKVService == Service!KSpec

\* Every get returns (Client::get polls until a message comes).
EveryGetReturns == \A c \in Clients : want[c] # Nothing ~> want[c] = Nothing

=============================================================================
