----------------------------- MODULE ClientSync -----------------------------
(***************************************************************************)
(* How the client machines start and stop the workload together            *)
(* (execute_operations, Client::sync_with_other_clients).  The threads of  *)
(* a machine meet at a counter; then thread 0, the leader, sends one sync  *)
(* request to every other machine, takes one message for each of them off  *)
(* its channel, and panics unless each of them was a sync request of       *)
(* another machine.  The same is done after the workload, with the same    *)
(* message: nothing says which of the two rounds it belongs to.            *)
(*                                                                         *)
(* Between the rounds each thread performs its chunk of the operations that*)
(* Workload generated, over and over until the time is up, each operation  *)
(* a get.  The leader's gets use the channel of the sync requests.         *)
(***************************************************************************)
EXTENDS Workload

CONSTANTS Machines,     \* the client machines
          NumThreads,   \* client threads per machine
          Roles,        \* "client" or "server" for each remote_machine_configs[i]
          Executed,     \* bound: the distributions whose operations are executed
          MaxPasses     \* bound: how often a thread goes through its chunk

Threads == 0 .. NumThreads - 1
Leader == 0

ASSUME SizesAreSane ==
    /\ IsFiniteSet(Machines)
    /\ NumThreads \in Nat \ {0}
    /\ Roles \in Seq({"client", "server"})
    /\ Executed \subseteq Distributions
    /\ MaxPasses \in Nat \ {0}

\* start_client_index: how many clients the configuration lists before its
\* first server.
StartClientIndex ==
    Cardinality({i \in DOMAIN Roles : \A j \in 1 .. i : Roles[j] = "client"})

\* As in config.json, the servers are listed one after the other.
ASSUME ServersListedTogether ==
    \A n \in Nodes : StartClientIndex + n \in DOMAIN Roles /\ Roles[StartClientIndex + n] = "server"

VARIABLES
    at,         \* at[m][t]: where thread t of machine m is
    ready,      \* ready[m]: total_clients_ready
    done,       \* done[m]: total_clients_done
    workload,   \* workload[m]: "idle", workload_ready or workload_done set
    round,      \* round[m]: how often the leader entered sync_with_other_clients
    syncs,      \* syncs[m][n]: sync requests on their way from m to n
    received,   \* received[m]: messages taken in this round
    acks,       \* acks[m]: request_acks
    next,       \* next[m][t]: operations of its chunk done in this pass
    passes,     \* passes[m][t]: how often it went through its whole chunk
    sent,       \* sent[m][t]: the gets sent: position in the file, key, machine
    asked,      \* asked[m][t]: requests at the servers
    responses   \* responses[m][t]: get responses on their way to the thread

barrierVars == <<ready, done, workload>>
syncVars == <<round, syncs, received, acks>>
getVars == <<next, passes, sent, asked, responses>>
vars == <<workloadVars, at, barrierVars, syncVars, getVars>>

Others(m) == Machines \ {m}
NumOthers == Cardinality(Machines) - 1

Init ==
    /\ WorkloadInit
    /\ at = [m \in Machines |-> [t \in Threads |-> "new"]]
    /\ ready = [m \in Machines |-> 0]
    /\ done = [m \in Machines |-> 0]
    /\ workload = [m \in Machines |-> "idle"]
    /\ round = [m \in Machines |-> 0]
    /\ syncs = [m \in Machines |-> [n \in Machines |-> 0]]
    /\ received = [m \in Machines |-> 0]
    /\ acks = [m \in Machines |-> {}]
    /\ next = [m \in Machines |-> [t \in Threads |-> 0]]
    /\ passes = [m \in Machines |-> [t \in Threads |-> 0]]
    /\ sent = [m \in Machines |-> [t \in Threads |-> {}]]
    /\ asked = [m \in Machines |-> [t \in Threads |-> 0]]
    /\ responses = [m \in Machines |-> [t \in Threads |-> 0]]

Go(m, t, place) == at' = [at EXCEPT ![m][t] = place]

\* The leader leaves a round and sets workload_ready or workload_done.
Leave(m) ==
    /\ Go(m, Leader, "synced")
    /\ workload' = [workload EXCEPT ![m] = IF round[m] = 1 THEN "ready" ELSE "done"]

Running(m) == \A t \in Threads : at[m][t] # "panic"

-----------------------------------------------------------------------------
(* Mutants: steps as a plausible bug would have them.                      *)

\* The leader does not wait for the machine's other threads.
ListenEarly(m) ==
    /\ at[m][Leader] = "ready"
    /\ Go(m, Leader, "listening")
    /\ UNCHANGED <<barrierVars, syncVars, getVars>>

\* The second round starts without waiting for the machine's other threads.
StartSyncEarly(m) ==
    /\ \/ at[m][Leader] = "listening"
          /\ \A n \in Others(m) : at[n][Leader] \notin {"new", "ready"}
       \/ at[m][Leader] = "done"
    /\ round' = [round EXCEPT ![m] = @ + 1]
    /\ syncs' = [syncs EXCEPT ![m] = [n \in Machines |-> IF n = m THEN 0 ELSE @[n] + 1]]
    /\ received' = [received EXCEPT ![m] = 0]
    /\ acks' = [acks EXCEPT ![m] = {}]
    /\ Go(m, Leader, "sync")
    /\ UNCHANGED <<barrierVars, getVars>>

-----------------------------------------------------------------------------
(* The barriers of one machine (execute_operations)                        *)

ThreadReady(m, t) ==
    /\ at[m][t] = "new"
    /\ ready' = [ready EXCEPT ![m] = @ + 1]
    /\ Go(m, t, "ready")
    /\ UNCHANGED <<done, workload, syncVars, getVars>>

\* connect_to_other_clients: listen first, then connect to the others.
Listen(m) ==
    /\ at[m][Leader] = "ready" /\ ready[m] = NumThreads
    /\ Go(m, Leader, "listening")
    /\ UNCHANGED <<barrierVars, syncVars, getVars>>

\* The leader comes from the round, the others have waited for the flag.
StartWork(m, t) ==
    /\ at[m][t] = (IF t = Leader THEN "synced" ELSE "ready")
    /\ workload[m] = "ready"
    /\ Go(m, t, "work")
    /\ UNCHANGED <<barrierVars, syncVars, getVars>>

ThreadDone(m, t) ==
    /\ at[m][t] = "work"
    /\ next[m][t] > 0 \/ passes[m][t] > 0
    /\ done' = [done EXCEPT ![m] = @ + 1]
    /\ Go(m, t, "done")
    /\ UNCHANGED <<ready, workload, syncVars, getVars>>

Return(m, t) ==
    /\ at[m][t] = (IF t = Leader THEN "synced" ELSE "done")
    /\ workload[m] = "done"
    /\ Go(m, t, "end")
    /\ UNCHANGED <<barrierVars, syncVars, getVars>>

-----------------------------------------------------------------------------
(* A round of sync_with_other_clients                                      *)

\* Connected to the others, who must have listened: one request to each.
Connected(m) == \A n \in Others(m) : at[n][Leader] \notin {"new", "ready"}

StartSync(m) ==
    /\ \/ at[m][Leader] = "listening" /\ Connected(m)
       \/ at[m][Leader] = "done" /\ done[m] = NumThreads
    /\ round' = [round EXCEPT ![m] = @ + 1]
    /\ syncs' = [syncs EXCEPT ![m] = [n \in Machines |-> IF n = m THEN 0 ELSE @[n] + 1]]
    /\ received' = [received EXCEPT ![m] = 0]
    /\ acks' = [acks EXCEPT ![m] = {}]
    /\ Go(m, Leader, "sync")
    /\ UNCHANGED <<barrierVars, getVars>>

ReceiveSync(m, n) ==
    /\ at[m][Leader] = "sync" /\ received[m] < NumOthers
    /\ syncs[n][m] > 0
    /\ syncs' = [syncs EXCEPT ![n][m] = @ - 1]
    /\ acks' = [acks EXCEPT ![m] = @ \union {n}]
    /\ received' = [received EXCEPT ![m] = @ + 1]
    /\ UNCHANGED <<at, barrierVars, round, getVars>>

\* Any other message counts as received too, and acknowledges nobody.
ReceiveOther(m) ==
    /\ at[m][Leader] = "sync" /\ received[m] < NumOthers
    /\ responses[m][Leader] > 0
    /\ responses' = [responses EXCEPT ![m][Leader] = @ - 1]
    /\ received' = [received EXCEPT ![m] = @ + 1]
    /\ UNCHANGED <<at, barrierVars, round, syncs, acks, next, passes, sent, asked>>

EndSync(m) ==
    /\ at[m][Leader] = "sync" /\ received[m] = NumOthers
    /\ IF Cardinality(acks[m]) # NumOthers
       THEN Go(m, Leader, "panic") /\ UNCHANGED workload
       ELSE Leave(m)
    /\ UNCHANGED <<ready, done, syncVars, getVars>>

-----------------------------------------------------------------------------
(* The workload of a thread: Client::get, one operation after the other    *)

RemoteIndexFromOne(node) == node + StartClientIndex                 \* mutant
RemoteIndex(node) == node + StartClientIndex - 1

Loaded == LoadOf(file)

Chunk(t) == ChunkBegin(Len(Loaded), NumThreads, t) + 1 .. ChunkEnd(Len(Loaded), NumThreads, t)
ChunkSize(t) == ChunkEnd(Len(Loaded), NumThreads, t) - ChunkBegin(Len(Loaded), NumThreads, t)

Get(m, t) ==
    LET i == ChunkBegin(Len(Loaded), NumThreads, t) + next[m][t] + 1
        o == Loaded[i]
    IN  /\ at[m][t] = "work" /\ next[m][t] < ChunkSize(t) /\ passes[m][t] < MaxPasses
        /\ IF o.node > NumNodes
           THEN Go(m, t, "panic") /\ UNCHANGED getVars
           ELSE /\ sent' = [sent EXCEPT ![m][t] =
                        @ \union {[op |-> i, key |-> o.key, to |-> RemoteIndex(o.node)]}]
                /\ next' = [next EXCEPT ![m][t] = @ + 1]
                /\ asked' = [asked EXCEPT ![m][t] = @ + 1]
                /\ Go(m, t, "get")
                /\ UNCHANGED <<passes, responses>>
        /\ UNCHANGED <<barrierVars, syncVars>>

\* The thread has done its chunk, at once if the chunk is empty, and looks at
\* the time: it goes through the chunk again or is done.
EndPass(m, t) ==
    /\ at[m][t] = "work" /\ next[m][t] = ChunkSize(t) /\ passes[m][t] < MaxPasses
    /\ next' = [next EXCEPT ![m][t] = 0]
    /\ passes' = [passes EXCEPT ![m][t] = @ + 1]
    /\ UNCHANGED <<at, barrierVars, syncVars, sent, asked, responses>>

ServerResponds(m, t) ==
    /\ asked[m][t] > 0
    /\ asked' = [asked EXCEPT ![m][t] = @ - 1]
    /\ responses' = [responses EXCEPT ![m][t] = @ + 1]
    /\ UNCHANGED <<at, barrierVars, syncVars, next, passes, sent>>

GetResponse(m, t) ==
    /\ at[m][t] = "get" /\ responses[m][t] > 0
    /\ responses' = [responses EXCEPT ![m][t] = @ - 1]
    /\ Go(m, t, "work")
    /\ UNCHANGED <<barrierVars, syncVars, next, passes, sent, asked>>

\* "Unexpected response": the leader's get takes a sync request and returns
\* without its own response, which stays on the channel.
GetUnexpected(m, n) ==
    /\ at[m][Leader] = "get" /\ syncs[n][m] > 0
    /\ syncs' = [syncs EXCEPT ![n][m] = @ - 1]
    /\ Go(m, Leader, "work")
    /\ UNCHANGED <<barrierVars, round, received, acks, getVars>>

-----------------------------------------------------------------------------
\* A panic ends the process with all its threads.
MachineStep(m) ==
    /\ generator = "dumped" /\ dist \in Executed /\ Running(m)
    /\ UNCHANGED workloadVars
    /\ \/ \E t \in Threads : \/ ThreadReady(m, t) \/ StartWork(m, t)
                             \/ Get(m, t) \/ GetResponse(m, t) \/ EndPass(m, t)
                             \/ ThreadDone(m, t) \/ Return(m, t)
       \/ Listen(m) \/ StartSync(m) \/ EndSync(m)
       \/ \E n \in Others(m) : ReceiveSync(m, n) \/ GetUnexpected(m, n)
       \/ ReceiveOther(m)

ServerStep == \E m \in Machines, t \in Threads : ServerResponds(m, t) /\ UNCHANGED workloadVars

GeneratorStep == Generate /\ UNCHANGED <<at, barrierVars, syncVars, getVars>>

Next == GeneratorStep \/ ServerStep \/ \E m \in Machines : MachineStep(m)

Spec == Init /\ [][Next]_vars

-----------------------------------------------------------------------------
Places == {"new", "ready", "listening", "sync", "synced", "work", "get", "done", "end", "panic"}

TypeOK ==
    /\ WorkloadTypeOK
    /\ at \in [Machines -> [Threads -> Places]]
    /\ ready \in [Machines -> 0 .. NumThreads]
    /\ done \in [Machines -> 0 .. NumThreads]
    /\ workload \in [Machines -> {"idle", "ready", "done"}]
    /\ round \in [Machines -> 0 .. 2]
    /\ syncs \in [Machines -> [Machines -> 0 .. 2]]
    /\ received \in [Machines -> 0 .. NumOthers]
    /\ acks \in [Machines -> SUBSET Machines]
    /\ next \in [Machines -> [Threads -> 0 .. TotalOps]]
    /\ passes \in [Machines -> [Threads -> 0 .. MaxPasses]]
    /\ sent \in [Machines -> [Threads -> SUBSET [op : 1 .. TotalOps, key : Keys, to : Nat]]]
    /\ asked \in [Machines -> [Threads -> Nat]]
    /\ responses \in [Machines -> [Threads -> Nat]]

\* No thread of any machine starts working before every thread of every
\* machine is ready, although the leaders only count messages.
StartTogether == \A m, n \in Machines : \A t, u \in Threads :
    at[m][t] \in {"work", "get", "done", "end"} => at[n][u] # "new"

\* No thread returns before every thread of every machine is done, whatever
\* messages its leader has taken off the channel meanwhile.
FinishTogether == \A m, n \in Machines : \A t, u \in Threads :
    at[m][t] = "end" => at[n][u] \notin {"new", "ready", "work", "get"}

\* Neither round ends in the panic of sync_with_other_clients: "Check if the
\* number of acks is equal to the number of other clients".
SyncSucceeds == \A m \in Machines : at[m][Leader] # "panic"

\* An operation of the file is performed by one thread of a machine only,
\* however the number of operations divides by that of the threads.
OneThreadPerOp == \A m \in Machines : \A t, u \in Threads :
    t # u => \A g \in sent[m][t], h \in sent[m][u] : g.op # h.op

\* A machine whose threads have all been through their chunks has performed
\* every operation of the file.
EveryOpSent == \A m \in Machines :
    (\A t \in Threads : passes[m][t] > 0) =>
        \A i \in DOMAIN ops : \E t \in Threads : \E g \in sent[m][t] : g.op = i

\* get_chunk divides the file: no operation is performed by two threads of a
\* machine, and none is left out.
OpsDivided == OneThreadPerOp /\ EveryOpSent

\* Every get goes to a server, and in a partitioned distribution to the one that
\* preloads the key if the key is not displaced, and only then.
RequestsReachHome == \A m \in Machines, t \in Threads : \A g \in sent[m][t] :
    /\ g.to + 1 \in DOMAIN Roles /\ Roles[g.to + 1] = "server"
    /\ dist \in Partitioned =>
           (Preloads(g.to - StartClientIndex, g.key) <=> ~Displaced(g.key))

=============================================================================
