----------------------------- MODULE OffsetReads -----------------------------
(***************************************************************************)
(* One-sided reads without a cache index: a miss reads the block at the    *)
(* key's fixed offset and answers with its bytes.  BlockPlacement preloads *)
(* the blocks; this module follows the gets that server Self handles       *)
(* afterwards, with RDMA_ASYNC.                                            *)
(*                                                                         *)
(* Self keeps one ring of RDMA operations for each node.  A worker takes a *)
(* free operation, posts the read and puts the operation on the ring's     *)
(* pending queue.  The ring's background thread polls the pending          *)
(* operations; it queues the answer of a completed one, resets its token   *)
(* and frees it, in this order.  With no operation left the worker would   *)
(* be handed null pointers.                                                *)
(*                                                                         *)
(* A worker's operation is its own until it is pending, so posting is one  *)
(* step.  The queues keep no order across threads, so each is a set.       *)
(*                                                                         *)
(* A get returns on the first message that arrives at its client's channel,*)
(* for a leader also on another leader's sync request: its answer is then  *)
(* still to come.  As in GetPath, a name in Gets stands for a get that is  *)
(* owed an answer, and owed says which key it asked for.                   *)
(***************************************************************************)
EXTENDS BlockPlacement, FiniteSets

CONSTANTS
    Clients,
    Leaders,        \* the clients other leaders send sync requests to
    Gets,           \* names of gets that are owed an answer: numbers
    ClientOf,       \* ClientOf[g]: the client that names a get g
    MaxSyncs,       \* bound: sync requests to a leader during its gets
    KeysAsked,      \* bound: KeysAsked[c]: the keys client c asks for
    Ops,            \* the RDMA_ASYNC_BUFFER_SIZE operations of a ring
    Self,           \* the server
    None,           \* no operation
    CachePreloads   \* policy_type = "thread_safe_lru": own keys are cached

NoKey == 0          \* no key; bytes that are not the key's value

ASSUME SelfIsServer == Self \in Servers
ASSUME NoneIsNoOp == None \notin Ops

ASSUME GetsAreSane ==
    /\ Leaders \subseteq Clients /\ MaxSyncs \in Nat
    /\ KeysAsked \in [Clients -> SUBSET DatasetKeys]
    /\ Gets \subseteq Nat /\ ClientOf \in [Gets -> Clients]

\* 512 operations.  One more than the gets under way at once: see FreeOp.
ASSUME EnoughOps ==
    IsFiniteSet(Ops) /\ IsFiniteSet(Gets) /\ Cardinality(Gets) < Cardinality(Ops)

VARIABLES
    want,       \* want[c]: the key c's get is waiting for
    owed,       \* owed[g]: the key get g asked for, until it is answered
    taken,      \* taken[c]: gets of c that returned on a sync request
    requests,   \* gets whose request no worker has handled
    free,       \* free[n]: free_queue of node n's ring
    pending,    \* pending[n]: its pending_queue
    completed,  \* completed[n]: operations whose token says so
    fresh,      \* fresh[n]: operations in use whose buffer holds what they read
    freeing,    \* freeing[n]: the operation answered but not freed yet
    answers     \* in rdma_get_response_queue and on the wire

ringVars == <<free, pending, completed, fresh, freeing>>
clientVars == <<want, owed, taken>>
vars == <<placementVars, clientVars, requests, ringVars, answers>>

PendingOps == [op : Ops, get : Gets, key : DatasetKeys]
Answers == [get : Gets, got : DatasetKeys \union {NoKey}, at : {"queue", "wire"}]

Init ==
    /\ PlacementInit
    /\ want = [c \in Clients |-> NoKey]
    /\ owed = [g \in Gets |-> NoKey]
    /\ taken = [c \in Clients |-> 0]
    /\ requests = {}
    /\ free = [n \in Servers |-> Ops]
    /\ pending = [n \in Servers |-> {}]
    /\ completed = [n \in Servers |-> {}]
    /\ fresh = [n \in Servers |-> {}]
    /\ freeing = [n \in Servers |-> None]
    /\ answers = {}

-----------------------------------------------------------------------------
(* Helpers                                                                 *)

Add(f, n, x) == [f EXCEPT ![n] = @ \union {x}]
Drop(f, n, x) == [f EXCEPT ![n] = @ \ {x}]

\* What the bytes in operation r's buffer are to its client.
Bytes(n, r) == IF r.op \in fresh[n] /\ Readable(r.key) THEN r.key ELSE NoKey

Answered(g, v, at) == [get |-> g, got |-> v, at |-> at]

-----------------------------------------------------------------------------
(* Mutants: steps as a plausible bug would have them, each broken by one   *)
(* of the properties below.                                                *)

\* request_token->reset() forgotten.
FreeOpNoReset(n) ==
    /\ freeing[n] # None
    /\ free' = Add(free, n, freeing[n])
    /\ fresh' = Drop(fresh, n, freeing[n])
    /\ freeing' = [freeing EXCEPT ![n] = None]
    /\ UNCHANGED <<placementVars, clientVars, requests, pending, completed, answers>>

\* free_queue.enqueue forgotten.
FreeOpLost(n) ==
    /\ freeing[n] # None
    /\ completed' = Drop(completed, n, freeing[n])
    /\ fresh' = Drop(fresh, n, freeing[n])
    /\ freeing' = [freeing EXCEPT ![n] = None]
    /\ UNCHANGED <<placementVars, clientVars, requests, free, pending, answers>>

\* The completed operation goes back to the pending queue, too.
AnswerRequeues(n, r) ==
    /\ freeing[n] = None
    /\ r \in pending[n] /\ r.op \in completed[n]
    /\ answers' = answers \union {Answered(r.get, Bytes(n, r), "queue")}
    /\ UNCHANGED <<placementVars, clientVars, requests, free, pending, completed, fresh, freeing>>

\* The operation is dropped if its read has not completed.
AnswerDropsIncomplete(n, r) ==
    /\ freeing[n] = None
    /\ r \in pending[n]
    /\ pending' = Drop(pending, n, r)
    /\ freeing' = [freeing EXCEPT ![n] = r.op]
    /\ answers' = IF r.op \in completed[n]
                  THEN answers \union {Answered(r.get, Bytes(n, r), "queue")} ELSE answers
    /\ UNCHANGED <<placementVars, clientVars, requests, free, completed, fresh>>

-----------------------------------------------------------------------------
(* A client                                                                *)

\* The names c can give its next get.
Unused(c) == {g \in Gets : ClientOf[g] = c /\ owed[g] = NoKey}

\* A client has connected to all servers before its first get, and a server
\* takes connections once it has preloaded.
Ask(c, k, g) ==
    /\ Preloaded
    /\ want[c] = NoKey
    /\ g \in Unused(c) /\ \A h \in Unused(c) : g <= h
    /\ want' = [want EXCEPT ![c] = k]
    /\ owed' = [owed EXCEPT ![g] = k]
    /\ requests' = requests \union {g}
    /\ UNCHANGED <<placementVars, taken, ringVars, answers>>

\* The get returns.
Return(c) == want[c] # NoKey /\ want' = [want EXCEPT ![c] = NoKey]

\* poll_receive handles whatever comes first: nothing ties it to the request.
Receive(c, a) ==
    /\ ClientOf[a.get] = c /\ a.at = "wire"
    /\ Return(c)
    /\ owed' = [owed EXCEPT ![a.get] = NoKey]
    /\ answers' = answers \ {a}
    /\ UNCHANGED <<placementVars, taken, requests, ringVars>>

\* "Unexpected response": the get of a leader returns on a sync request.
ReceiveSync(c) ==
    /\ c \in Leaders /\ taken[c] < MaxSyncs
    /\ Return(c)
    /\ taken' = [taken EXCEPT ![c] = @ + 1]
    /\ UNCHANGED <<placementVars, owed, requests, ringVars, answers>>

-----------------------------------------------------------------------------
(* A worker of Self                                                        *)

\* main has put Self's own keys into its cache; the policy may evict them.
MayBeCached(k) == CachePreloads /\ InRange(Self, k)

Hit(g) ==
    /\ g \in requests /\ MayBeCached(owed[g])
    /\ requests' = requests \ {g}
    /\ answers' = answers \union {Answered(g, owed[g], "wire")}
    /\ UNCHANGED <<placementVars, clientVars, ringVars>>

\* get_next_available_async_rdma_op on the ring of node n.
TakeOp(n, o) == o \in free[n] /\ free' = Drop(free, n, o)

PostRead(g, o) ==
    LET n == Node(owed[g]) IN
    /\ g \in requests
    /\ requests' = requests \ {g}
    /\ TakeOp(n, o)
    /\ pending' = Add(pending, n, [op |-> o, get |-> g, key |-> owed[g]])
    /\ UNCHANGED <<placementVars, clientVars, completed, fresh, freeing, answers>>

\* execute_pending_operations sends a queued answer.
Drain(a) ==
    /\ a.at = "queue"
    /\ answers' = (answers \ {a}) \union {[a EXCEPT !.at = "wire"]}
    /\ UNCHANGED <<placementVars, clientVars, requests, ringVars>>

-----------------------------------------------------------------------------
(* The NIC and node n's background thread                                  *)

NicReads(n, r) ==
    /\ r \in pending[n] /\ r.op \notin fresh[n]
    /\ fresh' = Add(fresh, n, r.op)
    /\ completed' = Add(completed, n, r.op)
    /\ UNCHANGED <<placementVars, clientVars, requests, free, pending, freeing, answers>>

\* A polled operation that has not completed goes back to the queue.
Answer(n, r) ==
    /\ freeing[n] = None
    /\ r \in pending[n] /\ r.op \in completed[n]
    /\ pending' = Drop(pending, n, r)
    /\ answers' = answers \union {Answered(r.get, Bytes(n, r), "queue")}
    /\ freeing' = [freeing EXCEPT ![n] = r.op]
    /\ UNCHANGED <<placementVars, clientVars, requests, free, completed, fresh>>

\* The client may have its answer, and ask again, before the operation is free.
FreeOp(n) ==
    /\ freeing[n] # None
    /\ completed' = Drop(completed, n, freeing[n])
    /\ free' = Add(free, n, freeing[n])
    /\ fresh' = Drop(fresh, n, freeing[n])
    /\ freeing' = [freeing EXCEPT ![n] = None]
    /\ UNCHANGED <<placementVars, clientVars, requests, pending, answers>>

-----------------------------------------------------------------------------
Work(g) == Hit(g) \/ \E o \in Ops : PostRead(g, o)

Deliver(g) == \E a \in answers : a.get = g /\ (Drain(a) \/ Receive(ClientOf[g], a))

AnswerFor(g) == \E n \in Servers : \E r \in pending[n] : r.get = g /\ Answer(n, r)

Nic(g) == \E n \in Servers : \E r \in pending[n] : r.get = g /\ NicReads(n, r)

Next ==
    \/ \E s \in Servers : Preload(s) /\ UNCHANGED <<clientVars, requests, ringVars, answers>>
    \/ \E c \in Clients :
          ReceiveSync(c) \/ \E k \in KeysAsked[c], g \in Gets : Ask(c, k, g)
    \/ \E g \in Gets : Work(g) \/ Deliver(g) \/ AnswerFor(g) \/ Nic(g)
    \/ \E n \in Servers : FreeOp(n)

Spec == Init /\ [][Next]_vars

\* Workers, waiting clients, the NIC and the rings' threads do not pause.  An
\* incomplete operation is queued again behind the others, so each is polled
\* again and again.
FairSpec ==
    /\ Spec
    /\ \A g \in Gets :
          WF_vars(Work(g)) /\ WF_vars(Deliver(g)) /\ WF_vars(Nic(g)) /\ SF_vars(AnswerFor(g))
    /\ \A n \in Servers : WF_vars(FreeOp(n))

-----------------------------------------------------------------------------
TypeOK ==
    /\ PlacementTypeOK
    /\ want \in [Clients -> DatasetKeys \union {NoKey}]
    /\ owed \in [Gets -> DatasetKeys \union {NoKey}]
    /\ taken \in [Clients -> Nat]
    /\ requests \subseteq Gets
    /\ free \in [Servers -> SUBSET Ops]
    /\ pending \in [Servers -> SUBSET PendingOps]
    /\ completed \in [Servers -> SUBSET Ops]
    /\ fresh \in [Servers -> SUBSET Ops]
    /\ freeing \in [Servers -> Ops \union {None}]
    /\ answers \subseteq Answers

PendingOf(g) == {r \in UNION {pending[n] : n \in Servers} : r.get = g}
AnswersOf(g) == {a \in answers : a.get = g}

\* Get g is not under way, or is asked, being read, or answered.
OneAnswerFor(g) ==
    \/ owed[g] = NoKey /\ g \notin requests /\ PendingOf(g) = {} /\ AnswersOf(g) = {}
    \/ owed[g] # NoKey /\ g \in requests /\ PendingOf(g) = {} /\ AnswersOf(g) = {}
    \/ /\ owed[g] # NoKey /\ g \notin requests /\ AnswersOf(g) = {}
       /\ \E r \in PendingOf(g) : PendingOf(g) = {r}
    \/ /\ owed[g] # NoKey /\ g \notin requests /\ PendingOf(g) = {}
       /\ \E a \in AnswersOf(g) : AnswersOf(g) = {a}

\* The gets of c that are owed an answer.
Outstanding(c) == {g \in Gets : ClientOf[g] = c /\ owed[g] # NoKey}

\* A get that is owed an answer has exactly one request, pending read or answer
\* under way, any other none; and a client is owed the answer of the get it waits
\* for and one more for every get that returned on a sync request.  Requests and
\* answers carry no id, so one answer too many would be taken for the next get's
\* (Connection::get): only a sync request can put the two out of step.
OneAnswer ==
    /\ \A g \in Gets : OneAnswerFor(g)
    /\ \A c \in Clients :
          /\ Cardinality(Outstanding(c)) = taken[c] + (IF want[c] = NoKey THEN 0 ELSE 1)
          /\ taken[c] = 0 => \A g \in Outstanding(c) : owed[g] = want[c]
          /\ c \notin Leaders => taken[c] = 0

\* A worker never gets the null operation from get_next_available_async_rdma_op.
NoNullOp == \A g \in requests : free[Node(owed[g])] # {}

\* An answer holds the value of the key its get asked for if the preload wrote
\* that key at all: neither stale bytes of a reused operation nor a neighbour's.
RightBytes == \A a \in answers : Loaded(owed[a.get]) => a.got = owed[a.get]

\* Every get returns (Client::get polls until a response comes).
EveryGetReturns == \A c \in Clients : want[c] # NoKey ~> want[c] = NoKey

=============================================================================
