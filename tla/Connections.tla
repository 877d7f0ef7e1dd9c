----------------------------- MODULE Connections -----------------------------
(***************************************************************************)
(* From the end of RDMA set-up to the end of the clients' work.  main      *)
(* starts machnet, builds its Connection objects, each with a channel of   *)
(* its own, then starts a thread on each; a server builds them one after   *)
(* the other, a client all at once.  A server's object with thread index t *)
(* listens at base port + t, then connects to the other servers at that    *)
(* port; a client's only connects to every server.  The first client of a  *)
(* machine, its leader, then listens too, connects to the other leaders    *)
(* and syncs with them, before the work and after it.  Connecting to a     *)
(* port where nobody listens is retried a million times with pauses of up  *)
(* to 100 ms, which counts as for ever here.                               *)
(*                                                                         *)
(* Every message is sent by looking up a flow under machine and port in    *)
(* machine_index_to_connection.  The object's own connections are there,   *)
(* and receive adds the flow of each message under its source port, so a   *)
(* response finds the channel that asked.  A lookup that fails creates an  *)
(* empty flow and the message goes nowhere.                                *)
(*                                                                         *)
(* The counters by which a machine's clients wait for one another are part *)
(* of ClientSync.  Interrupts are left out.                                *)
(***************************************************************************)
EXTENDS RdmaSetup, FiniteSets

CONSTANTS
    NumClients,         \* client machines, listed before the servers
    ServerThreads,      \* FLAGS_threads of a server
    ClientThreads,      \* FLAGS_threads of a client
    ClientsPerThread,   \* FLAGS_clients_per_threads
    NoMachine,          \* no machine
    MaxOnWire,          \* bound: on their way when a get or singleton is sent
    MaxAlike            \* bound: messages on their way that do not differ

ASSUME ConnectionsAreSane ==
    /\ {NumClients, MaxOnWire, MaxAlike} \subseteq Nat
    /\ {ServerThreads, ClientThreads, ClientsPerThread} \subseteq Nat \ {0}
    /\ NoMachine \notin 0 .. NumClients + NumServers - 1

\* setup.py starts all machines with the same flag.  A client thread without
\* its server thread would try to connect for ever.
ASSUME EveryClientHasServer == ClientThreads <= ServerThreads

Machines == 0 .. NumClients + NumServers - 1
IsServer(m) == m >= NumClients
ServerMachines == {m \in Machines : IsServer(m)}
ClientMachines == Machines \ ServerMachines
OtherClients(m) == ClientMachines \ {m}

\* A channel, named by the thread index of its object and the object's number.
Channels(m) ==
    IF IsServer(m) THEN (0 .. ServerThreads - 1) \X {0}
    ELSE (0 .. ClientThreads - 1) \X (0 .. ClientsPerThread - 1)

\* The channel of a machine's first client.
Leader == <<0, 0>>

\* The port machnet picks for the channel's outgoing flows; the ports listened
\* at are the thread indexes, as config.json gives all machines one base port.
SourcePort(c) == ServerThreads + c[1] * ClientsPerThread + c[2]

Ports == 0 .. ServerThreads * (ClientsPerThread + 1) - 1

\* MachineIndexAndPort, what a flow is looked up under.
FlowKeys == Machines \X Ports

VARIABLES
    phase,      \* phase[m][c]: how far channel c of machine m is
    flows,      \* flows[m][c]: the keys its object put into the map itself
    asked,      \* asked[m][c]: the server its get waits for
    sync,       \* sync[m]: how far a client machine's leader is; the leaders it
                \* has yet to send to, how often it polled, request_acks
    wire,       \* messages on their way
    astray      \* keys that were looked up in vain

connectionVars == <<phase, flows, asked, sync, wire, astray>>

Phases == {"off", "listen", "connect", "built", "work", "done"}

Stages == {"start", "meet", "before", "work", "after", "over"}

Kinds == {"get", "response", "singleton", "sync"}

\* chan: the channel it arrives at; port: the source port it comes from; no:
\* what tells apart two messages that are alike.
Messages == [kind : Kinds, from : Machines, to : Machines,
             chan : (0 .. ServerThreads - 1) \X (0 .. ClientsPerThread - 1),
             port : Ports, no : 1 .. MaxAlike]

ConnectionsInit ==
    /\ Init
    /\ phase = [m \in Machines |-> [c \in Channels(m) |-> "off"]]
    /\ flows = [m \in Machines |-> [c \in Channels(m) |-> {}]]
    /\ asked = [m \in Machines |-> [c \in Channels(m) |-> NoMachine]]
    /\ sync = [m \in ClientMachines |->
                  [stage |-> "start", unsent |-> {}, polled |-> 0, acks |-> {}]]
    /\ wire = {}
    /\ astray = {}

-----------------------------------------------------------------------------
(* Building the objects                                                    *)

Enter(m, c, p) == phase' = [phase EXCEPT ![m][c] = p]

\* The servers that the constructor has yet to connect to.
Missing(m, c, known) == {r \in ServerMachines \ {m} : <<r, c[1]>> \notin known}

\* The constructor puts a key into the map.  After the last it returns, and a
\* server's main builds the next object.
Learn(m, c, key) ==
    LET known == flows[m][c] \union {key}
        following == <<c[1] + 1, 0>>
    IN /\ flows' = [flows EXCEPT ![m][c] = known]
       /\ IF Missing(m, c, known) # {} THEN Enter(m, c, "connect")
          ELSE IF IsServer(m) /\ following \in Channels(m)
          THEN phase' = [phase EXCEPT ![m][c] = "built", ![m][following] = "listen"]
          ELSE Enter(m, c, "built")

\* Once machnet reports its status: a server begins with thread 0, a client
\* with every thread.
MachnetStarts(m) ==
    /\ \A c \in Channels(m) : phase[m][c] = "off"
    /\ IsServer(m) => round[m - NumClients] = Finished
    /\ phase' = [phase EXCEPT ![m] = [c \in Channels(m) |->
                    IF ~IsServer(m) THEN "connect"
                    ELSE IF c[1] = 0 THEN "listen" ELSE "off"]]
    /\ UNCHANGED <<flows, asked, sync, wire, astray>>

\* Mutant: the Server constructor connects before it listens.
ListenLast(m, c) ==
    /\ phase[m][c] = "listen" /\ Missing(m, c, flows[m][c]) = {}
    /\ Learn(m, c, <<m, c[1]>>)
    /\ UNCHANGED <<asked, sync, wire, astray>>

Listen(m, c) ==
    /\ phase[m][c] = "listen"
    /\ Learn(m, c, <<m, c[1]>>)
    /\ UNCHANGED <<asked, sync, wire, astray>>

\* Machine r, a server, listens at the port of thread index t.
Listening(r, t) == phase[r][<<t, 0>>] \in {"connect", "built", "work"}

\* machnet_connect succeeds with the next server in configuration order.
Connect(m, c) ==
    /\ phase[m][c] = "connect"
    /\ \E r \in Missing(m, c, flows[m][c]) :
          /\ \A q \in Missing(m, c, flows[m][c]) : r <= q
          /\ Listening(r, c[1])
          /\ Learn(m, c, <<r, c[1]>>)
    /\ UNCHANGED <<asked, sync, wire, astray>>

\* The threads are started once every object is built.
StartThreads(m) ==
    /\ \A c \in Channels(m) : phase[m][c] = "built"
    /\ phase' = [phase EXCEPT ![m] = [c \in Channels(m) |-> "work"]]
    /\ UNCHANGED <<flows, asked, sync, wire, astray>>

-----------------------------------------------------------------------------
(* Sending and receiving                                                   *)

\* A client works once its machine's leader has set workload_ready.
Working(m, c) == phase[m][c] = "work" /\ (~IsServer(m) => sync[m].stage = "work")

\* Connection::send of q under key by a channel that knows `known`, in place
\* of the messages it has taken.
Send(key, known, q, taken) ==
    IF key \in known
    THEN /\ \E n \in 1 .. MaxAlike :
               /\ \A k \in 1 .. n : [q EXCEPT !.no = k] \in wire <=> k # n
               /\ wire' = (wire \ taken) \union {[q EXCEPT !.no = n]}
         /\ UNCHANGED astray
    ELSE wire' = wire \ taken /\ astray' = astray \union {key}

\* Connection::get of a client thread sends the request and waits.
SendGet(m, c, s) ==
    /\ Working(m, c) /\ asked[m][c] = NoMachine /\ Cardinality(wire) < MaxOnWire
    /\ asked' = [asked EXCEPT ![m][c] = s]
    /\ Send(<<s, c[1]>>, flows[m][c],
            [kind |-> "get", from |-> m, to |-> s, chan |-> <<c[1], 0>>,
             port |-> SourcePort(c), no |-> 1], {})
    /\ UNCHANGED <<phase, flows, sync>>

\* Mutant: the flow is kept per machine; that of the last channel replaces it.
ChannelOfAnyPort(m, port) ==
    CHOOSE c \in Channels(m) : \A d \in Channels(m) : SourcePort(d) <= SourcePort(c)

\* The channel a flow learned under a source port leads back to.
ChannelOf(m, port) == CHOOSE c \in Channels(m) : SourcePort(c) = port

\* Mutant: the response goes to the configured port, as in put_response.
ReplyKeyBase(q) == <<q.from, q.chan[1]>>

\* get_response(remote_index, remote_port, ...)
ReplyKey(q) == <<q.from, q.port>>

\* The handler of a get request, whose response may wait in a queue first.
\* machine_index_to_connection has the flow of the request by then.
ServeGet(m, c, q) ==
    /\ Working(m, c)
    /\ q \in wire /\ q.kind = "get" /\ q.to = m /\ q.chan = c
    /\ Send(ReplyKey(q), flows[m][c] \union {<<q.from, q.port>>},
            [kind |-> "response", from |-> m, to |-> q.from,
             chan |-> ChannelOf(q.from, q.port), port |-> c[1], no |-> 1], {q})
    /\ UNCHANGED <<phase, flows, asked, sync>>

\* Mutant: the last server's neighbour is the server after it.
SendSingletonBeyond(m, c) ==
    /\ Working(m, c) /\ Cardinality(wire) < MaxOnWire
    /\ Send(<<m + 1, c[1]>>, flows[m][c],
            [kind |-> "singleton", from |-> m, to |-> m + 1, chan |-> c,
             port |-> SourcePort(c), no |-> 1], {})
    /\ UNCHANGED <<phase, flows, asked, sync>>

\* The singleton that put_nchance evicted goes to the next server, at the
\* sender's own base port + thread_index.
SendSingleton(m, c) ==
    /\ Working(m, c) /\ NumServers > 1 /\ Cardinality(wire) < MaxOnWire
    /\ LET neighbour == ((m - NumClients + 1) % NumServers) + NumClients
       IN Send(<<neighbour, c[1]>>, flows[m][c],
               [kind |-> "singleton", from |-> m, to |-> neighbour, chan |-> c,
                port |-> SourcePort(c), no |-> 1], {})
    /\ UNCHANGED <<phase, flows, asked, sync>>

ReceiveSingleton(m, c, q) ==
    /\ Working(m, c)
    /\ q \in wire /\ q.kind = "singleton" /\ q.to = m /\ q.chan = c
    /\ wire' = wire \ {q}
    /\ UNCHANGED <<phase, flows, asked, sync, astray>>

\* The get returns with the first message that arrives at its channel: a
\* leader's also with a sync request, "Unexpected response".
ReceiveResponse(m, c, q) ==
    /\ Working(m, c) /\ asked[m][c] # NoMachine
    /\ q \in wire /\ q.to = m /\ q.chan = c
    /\ asked' = [asked EXCEPT ![m][c] = NoMachine]
    /\ wire' = wire \ {q}
    /\ UNCHANGED <<phase, flows, sync, astray>>

-----------------------------------------------------------------------------
(* The leaders                                                             *)

Stage(m, st) == sync' = [sync EXCEPT ![m].stage = st]

\* Every client of the machine is in execute_operations, and its leader listens.
StartMeeting(m) ==
    /\ sync[m].stage = "start" /\ \A c \in Channels(m) : phase[m][c] = "work"
    /\ flows' = [flows EXCEPT ![m][Leader] = @ \union {<<m, 0>>}]
    /\ Stage(m, "meet")
    /\ UNCHANGED <<phase, asked, wire, astray>>

Unmet(m) == {r \in OtherClients(m) : <<r, 0>> \notin flows[m][Leader]}

\* connect_to_other_clients: the next leader, once it listens.
Meet(m) ==
    /\ sync[m].stage = "meet"
    /\ \E r \in Unmet(m) :
          /\ \A q \in Unmet(m) : r <= q
          /\ sync[r].stage \notin {"start", "over"}
          /\ flows' = [flows EXCEPT ![m][Leader] = @ \union {<<r, 0>>}]
    /\ UNCHANGED <<phase, asked, sync, wire, astray>>

StartSync(m, stage) ==
    /\ sync' = [sync EXCEPT ![m] = [stage |-> stage, unsent |-> OtherClients(m),
                                    polled |-> 0, acks |-> {}]]
    /\ UNCHANGED <<phase, flows, asked, wire, astray>>

StartFirstSync(m) == sync[m].stage = "meet" /\ Unmet(m) = {} /\ StartSync(m, "before")

\* total_clients_done has reached the number of clients.
StartSecondSync(m) ==
    /\ sync[m].stage = "work" /\ \A c \in Channels(m) : phase[m][c] = "done"
    /\ StartSync(m, "after")

Syncing(m) == sync[m].stage \in {"before", "after"}

\* The loop of sync_with_other_clients that sends the requests.
SendSync(m) ==
    /\ Syncing(m)
    /\ \E r \in sync[m].unsent :
          /\ \A q \in sync[m].unsent : r <= q
          /\ Send(<<r, 0>>, flows[m][Leader],
                  [kind |-> "sync", from |-> m, to |-> r, chan |-> Leader,
                   port |-> SourcePort(Leader), no |-> 1], {})
          /\ sync' = [sync EXCEPT ![m].unsent = @ \ {r}]
    /\ UNCHANGED <<phase, flows, asked>>

\* The loop that polls, as often as there are other leaders: whatever comes
\* counts, but only a request is an ack.
PollSync(m, q) ==
    /\ Syncing(m) /\ sync[m].unsent = {}
    /\ sync[m].polled < Cardinality(OtherClients(m))
    /\ q \in wire /\ q.to = m /\ q.chan = Leader
    /\ wire' = wire \ {q}
    /\ sync' = [sync EXCEPT ![m].polled = @ + 1,
                            ![m].acks = @ \union (IF q.kind = "sync" THEN {q.from} ELSE {})]
    /\ UNCHANGED <<phase, flows, asked, astray>>

\* The first sync sets workload_ready, after the second the process ends; a
\* panic ends it at once.
EndSync(m) ==
    /\ Syncing(m) /\ sync[m].unsent = {}
    /\ sync[m].polled = Cardinality(OtherClients(m))
    /\ Stage(m, IF sync[m].stage = "before" /\ sync[m].acks = OtherClients(m)
                THEN "work" ELSE "over")
    /\ UNCHANGED <<phase, flows, asked, wire, astray>>

\* Between two gets a client finds that its time is up.
FinishWork(m, c) ==
    /\ ~IsServer(m) /\ Working(m, c) /\ asked[m][c] = NoMachine
    /\ Enter(m, c, "done")
    /\ UNCHANGED <<flows, asked, sync, wire, astray>>

-----------------------------------------------------------------------------
Build(m) ==
    \/ MachnetStarts(m) \/ StartThreads(m)
    \/ \E c \in Channels(m) : Listen(m, c) \/ Connect(m, c)

Gather(m) ==
    \/ StartMeeting(m) \/ Meet(m)
    \/ StartFirstSync(m) \/ StartSecondSync(m)
    \/ SendSync(m) \/ EndSync(m)
    \/ \E q \in wire : PollSync(m, q)

Exchange(m, c) ==
    \/ \E s \in ServerMachines : ~IsServer(m) /\ SendGet(m, c, s)
    \/ IsServer(m) /\ SendSingleton(m, c)
    \/ \E q \in wire : ServeGet(m, c, q) \/ ReceiveSingleton(m, c, q) \/ ReceiveResponse(m, c, q)
    \/ FinishWork(m, c)

ProcessStep(m) ==
    \/ Build(m)
    \/ ~IsServer(m) /\ Gather(m)
    \/ \E c \in Channels(m) : Exchange(m, c)

ConnectionsNext ==
    \/ Next /\ UNCHANGED connectionVars
    \/ \E m \in Machines : ProcessStep(m) /\ UNCHANGED vars

ConnectionsSpec == ConnectionsInit /\ [][ConnectionsNext]_<<vars, connectionVars>>

\* Set-up goes on, objects get built and leaders gather, as long as some thread
\* can go on; each takes a finite number of steps, so this is fairness to every
\* thread.  Nothing makes anybody send or finish.
ConnectionsFairSpec ==
    /\ ConnectionsSpec
    /\ WF_vars(Next)
    /\ WF_connectionVars(\E m \in Machines : Build(m) \/ (~IsServer(m) /\ Gather(m)))

-----------------------------------------------------------------------------
\* Phases, flows, waits, syncs and messages have their types, as has the set-up.
ConnectionsOK ==
    /\ TypeOK
    /\ \A m \in Machines :
          /\ phase[m] \in [Channels(m) -> Phases]
          /\ flows[m] \in [Channels(m) -> SUBSET FlowKeys]
          /\ asked[m] \in [Channels(m) -> ServerMachines \union {NoMachine}]
    /\ sync \in [ClientMachines -> [stage : Stages, unsent : SUBSET ClientMachines,
                                    polled : Nat, acks : SUBSET ClientMachines]]
    /\ wire \subseteq Messages
    /\ astray \subseteq FlowKeys

\* Every get, response, singleton and sync request finds a flow: whichever thread
\* of whichever machine sends, the other side's key is in the map by then.
NothingAstray == astray = {}

\* Several clients share a server's port, and yet a message on its way to any of
\* them but a leader is the response of the very server the client waits for.
\* A leader's channel carries sync requests as well, and the responses to gets
\* that took one of those for an answer.
ResponseIsAwaited == \A q \in wire :
    ~IsServer(q.to) /\ q.chan # Leader =>
        q.kind = "response" /\ asked[q.to][q.chan] = q.from

\* Unless a call is refused during set-up, every object gets built, every server
\* thread runs and every client starts its work: servers that wait for one
\* another's ports never wait in a circle, nor do leaders.
EveryThreadStarts ==
    loop # "hoisted" /\ [](\A s \in Servers : at[s] # "refused") =>
        <>(/\ \A m \in ServerMachines : \A c \in Channels(m) : phase[m][c] = "work"
           /\ \A m \in ClientMachines : sync[m].stage \in {"work", "after", "over"})

=============================================================================
