------------------------------ MODULE RdmaSetup ------------------------------
(***************************************************************************)
(* How the servers connect to one another before they serve.  Set-up goes  *)
(* in rounds: in each, a server listens on the round's port until every    *)
(* server has connected, while another of its threads connects to every    *)
(* server, itself included, in index order.  Round 0 is RDMA_Server_Init   *)
(* with connect_to_servers; then come one round per server for             *)
(* CacheIndexes and, with use_cache_logs, for CacheIndexLogs, and one for  *)
(* KeyValueStorage.                                                        *)
(*                                                                         *)
(* The connecting thread of a storage object spins on the object's plain   *)
(* bool start_accepting_connections, never reset, then sleeps one second;  *)
(* round 0 begins with a sleep of ten.  Neither says anything of the other *)
(* servers: a sleep may end at any time here.  A call to a port that is    *)
(* not bound yet is refused.  There the RDMA library asserts; setup.py     *)
(* patches it to `while (returnValue) { connect(...); }`, which calls      *)
(* again without ever assigning returnValue: the thread never goes on.     *)
(***************************************************************************)
EXTENDS Integers, Sequences, Functions

CONSTANTS
    NumServers,     \* server_configs.size(), and NUM_NODES
    UseLogs         \* use_cache_logs

ASSUME SetupIsSane == NumServers \in Nat \ {0} /\ UseLogs \in BOOLEAN

Servers == 0 .. NumServers - 1

VARIABLES
    loop,       \* what the compiler made of the loops over the plain bool
    round,      \* round[s]: the round server s is in
    bound,      \* bound[s]: the rounds whose port s has bound
    accepted,   \* accepted[s]: connections accepted in this round
    flag,       \* flag[s]: `ready`, then start_accepting_connections
    at,         \* at[s]: the point the connecting thread has reached
    to,         \* to[s]: the server it connects to next
    qps         \* qps[s][o]: connect_qps of object o (rdma_nodes for "nodes"):
                \* the round and the server each leads to

vars == <<loop, round, bound, accepted, flag, at, to, qps>>

-----------------------------------------------------------------------------
(* Rounds and ports                                                        *)

Objects == {"nodes", "indexes", "logs", "values"}

FirstRound(o) ==
    CASE o = "nodes"   -> 0
      [] o = "indexes" -> 1
      [] o = "logs"    -> NumServers + 1
      [] o = "values"  -> (IF UseLogs THEN 2 ELSE 1) * NumServers + 1

Finished == FirstRound("values") + 1

Rounds == 0 .. Finished - 1

Object(r) ==
    CASE r = 0                        -> "nodes"
      [] r \in 1 .. NumServers        -> "indexes"
      [] r = FirstRound("values")     -> "values"
      [] OTHER                        -> "logs"

\* Main's thread sleeps before it looks at `ready`, a storage object's after.
Start(r) == IF r = 0 THEN "sleep" ELSE "spin"

Init ==
    /\ loop \in {"rereads", "hoisted", "removed"}
    /\ round = [s \in Servers |-> 0]
    /\ bound = [s \in Servers |-> {}]
    /\ accepted = [s \in Servers |-> 0]
    /\ flag = [s \in Servers |-> FALSE]
    /\ at = [s \in Servers |-> Start(0)]
    /\ to = [s \in Servers |-> 0]
    /\ qps = [s \in Servers |-> [o \in Objects |-> <<>>]]

Running(s) == round[s] \in Rounds

-----------------------------------------------------------------------------
(* Leaving a round                                                         *)

\* Mutant: the listen loop leaves out the server itself.
CanLeaveOneShort(s) == Running(s) /\ at[s] = "done" /\ accepted[s] >= NumServers - 1

CanLeave(s) == Running(s) /\ at[s] = "done" /\ accepted[s] = NumServers

\* Mutant: the connect loop starts with the server's own index.
LeaveFromOwnIndex(s) ==
    /\ CanLeave(s)
    /\ round' = [round EXCEPT ![s] = @ + 1]
    /\ accepted' = [accepted EXCEPT ![s] = 0]
    /\ flag' = [flag EXCEPT ![s] = @ /\ Object(round[s] + 1) = Object(round[s])]
    /\ at' = [at EXCEPT ![s] = Start(round[s] + 1)]
    /\ to' = [to EXCEPT ![s] = s]
    /\ UNCHANGED <<loop, bound, qps>>

\* Both threads of the round are done.  A new object has a bool of its own.
Leave(s) ==
    /\ CanLeave(s)
    /\ round' = [round EXCEPT ![s] = @ + 1]
    /\ accepted' = [accepted EXCEPT ![s] = 0]
    /\ flag' = [flag EXCEPT ![s] = @ /\ Object(round[s] + 1) = Object(round[s])]
    /\ at' = [at EXCEPT ![s] = Start(round[s] + 1)]
    /\ to' = [to EXCEPT ![s] = 0]
    /\ UNCHANGED <<loop, bound, qps>>

-----------------------------------------------------------------------------
(* The listening thread                                                    *)

\* RDMA_Server_Init sets `ready` before it binds its port; the bool of a storage
\* object is set after.
ReadyFirst(r) == r = 0

Signal(s) ==
    /\ Running(s) /\ ~flag[s] /\ (ReadyFirst(round[s]) \/ round[s] \in bound[s])
    /\ flag' = [flag EXCEPT ![s] = TRUE]
    /\ UNCHANGED <<loop, round, bound, accepted, at, to, qps>>

Bind(s) ==
    /\ Running(s) /\ round[s] \notin bound[s] /\ (ReadyFirst(round[s]) => flag[s])
    /\ bound' = [bound EXCEPT ![s] = @ \union {round[s]}]
    /\ UNCHANGED <<loop, round, accepted, flag, at, to, qps>>

\* s's call waits at t's port of the round both are in.
Calls(s, t) == Running(s) /\ at[s] = "wait" /\ to[s] = t /\ Running(t) /\ round[t] = round[s]

\* The next server of the connecting thread's loop, or its end.
Advance(s) ==
    IF to[s] = NumServers - 1
    THEN at' = [at EXCEPT ![s] = "done"] /\ UNCHANGED to
    ELSE at' = [at EXCEPT ![s] = "connect"] /\ to' = [to EXCEPT ![s] = @ + 1]

\* acceptIncomingConnection answers s, whose connectToRemoteHost returns.
Accept(t, s) ==
    /\ Calls(s, t)
    /\ flag[t] /\ accepted[t] < NumServers
    /\ accepted' = [accepted EXCEPT ![t] = @ + 1]
    /\ qps' = [qps EXCEPT ![s][Object(round[s])] = Append(@, <<round[s], t>>)]
    /\ Advance(s)
    /\ UNCHANGED <<loop, round, bound, flag>>

-----------------------------------------------------------------------------
(* The connecting thread                                                   *)

\* Round 0 waits on a condition variable; the loops of the others may have been
\* compiled to read the bool once, or to nothing.
Look(s) ==
    /\ Running(s) /\ at[s] = "spin"
    /\ flag[s] \/ (round[s] # 0 /\ loop # "rereads")
    /\ at' = [at EXCEPT ![s] =
                 IF round[s] = 0 THEN "connect"
                 ELSE IF flag[s] \/ loop = "removed" THEN "sleep" ELSE "stuck"]
    /\ UNCHANGED <<loop, round, bound, accepted, flag, to, qps>>

SleepEnds(s) ==
    /\ Running(s) /\ at[s] = "sleep"
    /\ at' = [at EXCEPT ![s] = IF round[s] = 0 THEN "spin" ELSE "connect"]
    /\ UNCHANGED <<loop, round, bound, accepted, flag, to, qps>>

\* connectToRemoteHost
Call(s) ==
    /\ Running(s) /\ at[s] = "connect"
    /\ at' = [at EXCEPT ![s] = IF round[s] \in bound[to[s]] THEN "wait" ELSE "refused"]
    /\ UNCHANGED <<loop, round, bound, accepted, flag, to, qps>>

-----------------------------------------------------------------------------
ServerStep(s) ==
    \/ Signal(s) \/ Bind(s) \/ Look(s) \/ SleepEnds(s) \/ Call(s) \/ Leave(s)
    \/ \E t \in Servers : Accept(t, s)

Next == \E s \in Servers : ServerStep(s)

Spec == Init /\ [][Next]_vars

-----------------------------------------------------------------------------
TypeOK ==
    /\ loop \in {"rereads", "hoisted", "removed"}
    /\ round \in [Servers -> 0 .. Finished]
    /\ bound \in [Servers -> SUBSET Rounds]
    /\ accepted \in [Servers -> 0 .. NumServers]
    /\ flag \in [Servers -> BOOLEAN]
    /\ at \in [Servers -> {"spin", "sleep", "connect", "wait", "done", "stuck", "refused"}]
    /\ to \in [Servers -> Servers]
    /\ qps \in [Servers -> [Objects -> Seq(Rounds \X Servers)]]

\* A server leaves a round with connections to and from every server: whatever
\* it does next, no peer's connecting thread of that round still needs it.
LeavesConnected == \A s \in Servers :
    LET leadsTo == UNION {Range(qps[s][o]) : o \in Objects}
    IN \A t \in Servers : \A r \in Rounds :
           r < round[s] \/ r < round[t] => <<r, t>> \in leadsTo

\* connect_qps[i * N + j] of an object leads to server j's memory of the
\* object's round i: write_remote, append_entry and read compute this index.
QpsInOrder == \A o \in Objects :
    LET first == FirstRound(o)
    IN \A s \in Servers : \A p \in 1 .. Len(qps[s][o]) :
           qps[s][o][p] = <<first + (p - 1) \div NumServers, (p - 1) % NumServers>>

=============================================================================
