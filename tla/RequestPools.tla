---------------------------- MODULE RequestPools ----------------------------
(***************************************************************************)
(* The flow control of one-sided RDMA reads (RDMADataWithQueue over        *)
(* RDMAData).  A caller takes a data slot from free_queue, waiting for one *)
(* if none is free, then a request token from free_request_token_queue,    *)
(* and here an empty pool is a panic.  It posts the read to the NIC and    *)
(* enqueues slot and token on pending_read_queue.  Worker threads dequeue, *)
(* wait for the token, run the callback on the slot's bytes, and give back *)
(* the token, then the slot.                                               *)
(*                                                                         *)
(* The MPMC queues carry no order across threads, so each is a set.  Each  *)
(* call of read is a request r; its stage is the point its thread reached. *)
(***************************************************************************)
EXTENDS Integers, FiniteSets

CONSTANTS Requests,     \* the calls of read(); each is made once
          Slots,        \* the queue_size data slots of free_queue
          Tokens,       \* the FreeRequestTokenQueueSize request tokens
          Workers,      \* threads that run execute_pending
          None          \* neither a request, a slot nor a token

ASSUME PoolsAreFinite == IsFiniteSet(Slots) /\ IsFiniteSet(Tokens)

\* CacheIndexValueQueueSize and FreeRequestTokenQueueSize are both 50000.
ASSUME EnoughTokens == Cardinality(Slots) <= Cardinality(Tokens)

ASSUME NoneIsNothing == None \notin Requests \union Slots \union Tokens

VARIABLES
    stage,        \* stage[r]: how far the call r is
    freeSlots,    \* free_queue
    freeTokens,   \* free_request_token_queue
    pending,      \* pending_read_queue: slots whose read was posted
    owner,        \* owner[s]: the callback stored in slot s, named by its call
    token,        \* token[s]: the token stored in slot s
    data,         \* data[s]: the read whose bytes are in s (None: blank)
    inflight,     \* reads the NIC has not finished
    completed,    \* tokens the NIC has marked completed
    held,         \* held[w]: the slot worker w has dequeued
    at,           \* at[w]: the point worker w reached in execute_pending
    answer        \* answer[r]: the bytes r's callback was given

vars == <<stage, freeSlots, freeTokens, pending, owner, token, data, inflight,
          completed, held, at, answer>>

Op == [slot : Slots, token : Tokens, for : Requests]

Init ==
    /\ stage = [r \in Requests |-> "new"]
    /\ freeSlots = Slots
    /\ freeTokens = Tokens
    /\ pending = {}
    /\ owner = [s \in Slots |-> None]
    /\ token = [s \in Slots |-> None]
    /\ data = [s \in Slots |-> None]
    /\ inflight = {}
    /\ completed = {}
    /\ held = [w \in Workers |-> None]
    /\ at = [w \in Workers |-> "poll"]
    /\ answer = [r \in Requests |-> None]

-----------------------------------------------------------------------------
(* Mutants: steps as a plausible bug would have them, each broken by one   *)
(* of the properties below.                                                *)

\* request_token->reset() forgotten.
PostReadNoReset(r, s, t) ==
    /\ stage[r] = "slot" /\ owner[s] = r
    /\ t \in freeTokens
    /\ freeTokens' = freeTokens \ {t}
    /\ token' = [token EXCEPT ![s] = t]
    /\ inflight' = inflight \union {[slot |-> s, token |-> t, for |-> r]}
    /\ stage' = [stage EXCEPT ![r] = "posted"]
    /\ UNCHANGED <<freeSlots, pending, owner, data, completed, held, at, answer>>

\* waitUntilCompleted() forgotten.
RunCallbackNoWait(w) ==
    /\ at[w] = "wait"
    /\ answer' = [answer EXCEPT ![owner[held[w]]] = data[held[w]]]
    /\ at' = [at EXCEPT ![w] = "freeToken"]
    /\ UNCHANGED <<stage, freeSlots, freeTokens, pending, owner, token, data,
                   inflight, completed, held>>

\* The slot is given back before its token.
RunCallbackSlotFirst(w) ==
    /\ at[w] = "wait"
    /\ token[held[w]] \in completed
    /\ answer' = [answer EXCEPT ![owner[held[w]]] = data[held[w]]]
    /\ freeSlots' = freeSlots \union {held[w]}
    /\ at' = [at EXCEPT ![w] = "freeToken"]
    /\ UNCHANGED <<stage, freeTokens, pending, owner, token, data,
                   inflight, completed, held>>

\* free_queue.enqueue forgotten.
FreeSlotLeak(w) ==
    /\ at[w] = "freeSlot"
    /\ owner' = [owner EXCEPT ![held[w]] = None]
    /\ held' = [held EXCEPT ![w] = None]
    /\ at' = [at EXCEPT ![w] = "poll"]
    /\ UNCHANGED <<stage, freeSlots, freeTokens, pending, token, data, inflight,
                   completed, answer>>

-----------------------------------------------------------------------------
(* A caller, in RDMADataWithQueue::read                                    *)

\* The try_dequeue loop got slot s: blank its data and store the callback.
TakeSlot(r, s) ==
    /\ stage[r] = "new"
    /\ s \in freeSlots
    /\ freeSlots' = freeSlots \ {s}
    /\ data' = [data EXCEPT ![s] = None]
    /\ owner' = [owner EXCEPT ![s] = r]
    /\ stage' = [stage EXCEPT ![r] = "slot"]
    /\ UNCHANGED <<freeTokens, pending, token, inflight, completed, held, at, answer>>

\* RDMAData::read: take token t, reset it, and post the read.  The call that
\* finds freeTokens empty panics: NoTokenPanic says that none does.
PostRead(r, s, t) ==
    /\ stage[r] = "slot" /\ owner[s] = r
    /\ t \in freeTokens
    /\ freeTokens' = freeTokens \ {t}
    /\ completed' = completed \ {t}
    /\ token' = [token EXCEPT ![s] = t]
    /\ inflight' = inflight \union {[slot |-> s, token |-> t, for |-> r]}
    /\ stage' = [stage EXCEPT ![r] = "posted"]
    /\ UNCHANGED <<freeSlots, pending, owner, data, held, at, answer>>

\* pending_read_queue.enqueue, after which the call returns.
EnqueuePending(r, s) ==
    /\ stage[r] = "posted" /\ owner[s] = r
    /\ pending' = pending \union {s}
    /\ stage' = [stage EXCEPT ![r] = "returned"]
    /\ UNCHANGED <<freeSlots, freeTokens, owner, token, data, inflight,
                   completed, held, at, answer>>

-----------------------------------------------------------------------------
(* The NIC                                                                 *)

\* A posted read finishes: the bytes land in its slot, its token completes.
NicComplete(op) ==
    /\ op \in inflight
    /\ inflight' = inflight \ {op}
    /\ data' = [data EXCEPT ![op.slot] = op.for]
    /\ completed' = completed \union {op.token}
    /\ UNCHANGED <<stage, freeSlots, freeTokens, pending, owner, token, held, at, answer>>

-----------------------------------------------------------------------------
(* A worker, in RDMADataWithQueue::execute_pending                         *)

DequeuePending(w, s) ==
    /\ at[w] = "poll"
    /\ s \in pending
    /\ pending' = pending \ {s}
    /\ held' = [held EXCEPT ![w] = s]
    /\ at' = [at EXCEPT ![w] = "wait"]
    /\ UNCHANGED <<stage, freeSlots, freeTokens, owner, token, data, inflight,
                   completed, answer>>

\* waitUntilCompleted returned; the callback reads the slot's bytes.
RunCallback(w) ==
    /\ at[w] = "wait"
    /\ token[held[w]] \in completed
    /\ answer' = [answer EXCEPT ![owner[held[w]]] = data[held[w]]]
    /\ at' = [at EXCEPT ![w] = "freeToken"]
    /\ UNCHANGED <<stage, freeSlots, freeTokens, pending, owner, token, data,
                   inflight, completed, held>>

\* free_request_token(std::move(token))
FreeToken(w) ==
    /\ at[w] = "freeToken"
    /\ freeTokens' = freeTokens \union {token[held[w]]}
    /\ token' = [token EXCEPT ![held[w]] = None]
    /\ at' = [at EXCEPT ![w] = "freeSlot"]
    /\ UNCHANGED <<stage, freeSlots, pending, owner, data, inflight, completed,
                   held, answer>>

\* free_queue.enqueue
FreeSlot(w) ==
    /\ at[w] = "freeSlot"
    /\ freeSlots' = freeSlots \union {held[w]}
    /\ owner' = [owner EXCEPT ![held[w]] = None]
    /\ held' = [held EXCEPT ![w] = None]
    /\ at' = [at EXCEPT ![w] = "poll"]
    /\ UNCHANGED <<stage, freeTokens, pending, token, data, inflight, completed, answer>>

-----------------------------------------------------------------------------
Caller(r) ==
    \E s \in Slots :
        \/ TakeSlot(r, s)
        \/ \E t \in Tokens : PostRead(r, s, t)
        \/ EnqueuePending(r, s)

Nic == \E op \in inflight : NicComplete(op)

Worker(w) ==
    \/ \E s \in Slots : DequeuePending(w, s)
    \/ RunCallback(w)
    \/ FreeToken(w)
    \/ FreeSlot(w)

Next ==
    \/ \E r \in Requests : Caller(r)
    \/ Nic
    \/ \E w \in Workers : Worker(w)

Spec == Init /\ [][Next]_vars

\* Every thread keeps running and the NIC finishes what was posted.
Fairness ==
    /\ \A r \in Requests : WF_vars(Caller(r))
    /\ \A w \in Workers : WF_vars(Worker(w))
    /\ WF_vars(Nic)

FairSpec == Spec /\ Fairness

-----------------------------------------------------------------------------
TypeOK ==
    /\ stage \in [Requests -> {"new", "slot", "posted", "returned"}]
    /\ freeSlots \subseteq Slots
    /\ freeTokens \subseteq Tokens
    /\ pending \subseteq Slots
    /\ owner \in [Slots -> Requests \union {None}]
    /\ token \in [Slots -> Tokens \union {None}]
    /\ data \in [Slots -> Requests \union {None}]
    /\ inflight \subseteq Op
    /\ completed \subseteq Tokens
    /\ held \in [Workers -> Slots \union {None}]
    /\ at \in [Workers -> {"poll", "wait", "freeToken", "freeSlot"}]
    /\ answer \in [Requests -> Requests \union {None}]

\* A call that holds a slot always finds a token, so the panic of
\* get_request_token ("Free request token queue out of tokens!") is
\* unreachable from KeyValueStorage: a token is taken after a slot and given
\* back before it.
NoTokenPanic == \A r \in Requests : stage[r] = "slot" => freeTokens # {}

\* No two reads ever share a slot or a token: a slot the NIC may still write,
\* or whose callback has not run, is not free and is with one worker at most.
ExclusiveUse ==
    /\ \A op1, op2 \in inflight :
          op1.slot = op2.slot \/ op1.token = op2.token => op1 = op2
    /\ \A op \in inflight : op.slot \notin freeSlots /\ op.token \notin freeTokens
    /\ \A v, w \in Workers : held[v] = held[w] /\ held[v] # None => v = w
    /\ \A w \in Workers : held[w] \notin freeSlots \union pending

\* A callback runs on the bytes fetched for its own call, and never again
\* once it has been answered (AsyncReads is the promise in full).
submitted == {r \in Requests : stage[r] # "new"}
Promise == INSTANCE AsyncReads WITH NoRequest <- None
ImplementsAsyncReads == Promise!ASpec

\* Every read is answered, even with more callers than slots: callers that
\* wait for a slot are served as the workers give slots back.
EveryReadAnswered == \A r \in Requests : <>(answer[r] # None)

-----------------------------------------------------------------------------
(* The inductive invariant behind the properties above, in named parts     *)

\* A slot is free exactly when no call owns it; a free slot carries no token,
\* and no call owns two slots.
SlotsOwned ==
    /\ \A s \in Slots : s \in freeSlots <=> owner[s] = None
    /\ \A s \in freeSlots : token[s] = None
    /\ \A s1, s2 \in Slots : owner[s1] = owner[s2] /\ owner[s1] # None => s1 = s2

\* The tokens outside the pool are those stored in slots, one in each.
TokensOwned ==
    /\ \A s \in Slots : token[s] # None => token[s] \notin freeTokens
    /\ \A t \in Tokens \ freeTokens : \E s \in Slots : token[s] = t
    /\ \A s1, s2 \in Slots : token[s1] = token[s2] /\ token[s1] # None => s1 = s2

\* What each stage of a call says of the slot the call owns.
StageOwns ==
    /\ \A r \in Requests : stage[r] \in {"slot", "posted"} => \E s \in Slots : owner[s] = r
    /\ \A s \in Slots \ freeSlots :
          /\ stage[owner[s]] # "new"
          /\ stage[owner[s]] = "slot" => token[s] = None
          /\ stage[owner[s]] = "posted" => token[s] # None
          /\ stage[owner[s]] # "returned" =>
                s \notin pending /\ \A w \in Workers : held[w] # s
    /\ \A s \in pending : owner[s] # None /\ token[s] # None

\* A worker past the dequeue holds a slot nobody else works on.
WorkersOwn ==
    /\ \A w \in Workers :
          /\ at[w] = "poll" <=> held[w] = None
          /\ held[w] \notin freeSlots \union pending
          /\ at[w] \in {"wait", "freeToken"} => token[held[w]] # None
          /\ at[w] = "freeToken" => token[held[w]] \in completed
          /\ at[w] = "freeSlot" => token[held[w]] = None
    /\ \A v, w \in Workers : held[v] = held[w] /\ held[v] # None => v = w

\* The NIC writes only slots that still carry the token and the call of the
\* read, and a completed token means that the slot has its own bytes.
NicOwns ==
    /\ \A op \in inflight :
          /\ token[op.slot] = op.token
          /\ owner[op.slot] = op.for
          /\ op.token \notin completed
    /\ \A s \in Slots : token[s] # None /\ token[s] \in completed => data[s] = owner[s]

\* A call that was answered owns at most a slot that is being given back.
AnsweredOnce ==
    \A r \in Requests : answer[r] # None =>
        /\ stage[r] = "returned"
        /\ \A s \in Slots : owner[s] = r =>
              \E w \in Workers : held[w] = s /\ at[w] \in {"freeToken", "freeSlot"}

IInv == TypeOK /\ SlotsOwned /\ TokensOwned /\ StageOwns /\ WorkersOwn
               /\ NicOwns /\ AnsweredOnce

=============================================================================
