------------------------ MODULE RequestPools_proofs ------------------------
(***************************************************************************)
(* Proofs about RequestPools, for every number of calls and workers and    *)
(* all pool sizes with at least as many tokens as slots.                   *)
(***************************************************************************)
EXTENDS RequestPools, FiniteSetTheorems, TLAPS

LEMMA InitIInv == Init => IInv
BY NoneIsNothing DEF Init, IInv, TypeOK, SlotsOwned, TokensOwned, StageOwns,
   WorkersOwn, NicOwns, AnsweredOnce

LEMMA NextIInv == IInv /\ [Next]_vars => IInv'
<1> SUFFICES ASSUME IInv, [Next]_vars PROVE IInv'
  OBVIOUS
<1> USE NoneIsNothing DEF IInv, Op
<1>1. ASSUME NEW r \in Requests, NEW s \in Slots, TakeSlot(r, s)
      PROVE  IInv'
  <2>1. TypeOK'
    BY <1>1 DEF TakeSlot, TypeOK
  <2>2. SlotsOwned'
    BY <1>1 DEF TakeSlot, TypeOK, SlotsOwned, StageOwns
  <2>3. TokensOwned'
    BY <1>1 DEF TakeSlot, TypeOK, TokensOwned
  <2>4. StageOwns'
    BY <1>1 DEF TakeSlot, TypeOK, SlotsOwned, StageOwns, WorkersOwn
  <2>5. WorkersOwn'
    BY <1>1 DEF TakeSlot, TypeOK, WorkersOwn
  <2>6. NicOwns'
    BY <1>1 DEF TakeSlot, TypeOK, SlotsOwned, NicOwns
  <2>7. AnsweredOnce'
    BY <1>1 DEF TakeSlot, TypeOK, AnsweredOnce
  <2> QED BY <2>1, <2>2, <2>3, <2>4, <2>5, <2>6, <2>7
<1>2. ASSUME NEW r \in Requests, NEW s \in Slots, NEW t \in Tokens, PostRead(r, s, t)
      PROVE  IInv'
  <2>1. TypeOK'
    BY <1>2 DEF PostRead, TypeOK
  <2>2. SlotsOwned'
    BY <1>2 DEF PostRead, TypeOK, SlotsOwned
  <2>3. TokensOwned'
    BY <1>2 DEF PostRead, TypeOK, SlotsOwned, TokensOwned, StageOwns
  <2>4. StageOwns'
    BY <1>2 DEF PostRead, TypeOK, SlotsOwned, StageOwns
  <2>5. WorkersOwn'
    BY <1>2 DEF PostRead, TypeOK, TokensOwned, StageOwns, WorkersOwn
  <2>6. NicOwns'
    BY <1>2 DEF PostRead, TypeOK, SlotsOwned, StageOwns, NicOwns
  <2>7. AnsweredOnce'
    BY <1>2 DEF PostRead, TypeOK, AnsweredOnce
  <2> QED BY <2>1, <2>2, <2>3, <2>4, <2>5, <2>6, <2>7
<1>3. ASSUME NEW r \in Requests, NEW s \in Slots, EnqueuePending(r, s)
      PROVE  IInv'
  <2>1. TypeOK'
    BY <1>3 DEF EnqueuePending, TypeOK
  <2>2. SlotsOwned'
    BY <1>3 DEF EnqueuePending, TypeOK, SlotsOwned
  <2>3. TokensOwned'
    BY <1>3 DEF EnqueuePending, TypeOK, TokensOwned
  <2>4. StageOwns'
    BY <1>3 DEF EnqueuePending, TypeOK, SlotsOwned, StageOwns
  <2>5. WorkersOwn'
    BY <1>3 DEF EnqueuePending, TypeOK, StageOwns, WorkersOwn
  <2>6. NicOwns'
    BY <1>3 DEF EnqueuePending, TypeOK, NicOwns
  <2>7. AnsweredOnce'
    BY <1>3 DEF EnqueuePending, TypeOK, AnsweredOnce
  <2> QED BY <2>1, <2>2, <2>3, <2>4, <2>5, <2>6, <2>7
<1>4. ASSUME NEW op \in inflight, NicComplete(op)
      PROVE  IInv'
  <2>1. TypeOK'
    BY <1>4 DEF NicComplete, TypeOK
  <2>2. SlotsOwned'
    BY <1>4 DEF NicComplete, TypeOK, SlotsOwned
  <2>3. TokensOwned'
    BY <1>4 DEF NicComplete, TypeOK, TokensOwned
  <2>4. StageOwns'
    BY <1>4 DEF NicComplete, TypeOK, StageOwns
  <2>5. WorkersOwn'
    BY <1>4 DEF NicComplete, TypeOK, WorkersOwn
  <2>6. NicOwns'
    BY <1>4 DEF NicComplete, TypeOK, TokensOwned, NicOwns
  <2>7. AnsweredOnce'
    BY <1>4 DEF NicComplete, TypeOK, AnsweredOnce
  <2> QED BY <2>1, <2>2, <2>3, <2>4, <2>5, <2>6, <2>7
<1>5. ASSUME NEW w \in Workers, NEW s \in Slots, DequeuePending(w, s)
      PROVE  IInv'
  <2>1. TypeOK'
    BY <1>5 DEF DequeuePending, TypeOK
  <2>2. SlotsOwned'
    BY <1>5 DEF DequeuePending, TypeOK, SlotsOwned
  <2>3. TokensOwned'
    BY <1>5 DEF DequeuePending, TypeOK, TokensOwned
  <2>4. StageOwns'
    BY <1>5 DEF DequeuePending, TypeOK, StageOwns
  <2>5. WorkersOwn'
    BY <1>5 DEF DequeuePending, TypeOK, SlotsOwned, StageOwns, WorkersOwn
  <2>6. NicOwns'
    BY <1>5 DEF DequeuePending, TypeOK, NicOwns
  <2>7. AnsweredOnce'
    BY <1>5 DEF DequeuePending, TypeOK, AnsweredOnce
  <2> QED BY <2>1, <2>2, <2>3, <2>4, <2>5, <2>6, <2>7
<1>6. ASSUME NEW w \in Workers, RunCallback(w)
      PROVE  IInv'
  <2>1. TypeOK'
    BY <1>6 DEF RunCallback, TypeOK, WorkersOwn
  <2>2. SlotsOwned'
    BY <1>6 DEF RunCallback, TypeOK, SlotsOwned
  <2>3. TokensOwned'
    BY <1>6 DEF RunCallback, TypeOK, TokensOwned
  <2>4. StageOwns'
    BY <1>6 DEF RunCallback, TypeOK, StageOwns
  <2>5. WorkersOwn'
    BY <1>6 DEF RunCallback, TypeOK, WorkersOwn
  <2>6. NicOwns'
    BY <1>6 DEF RunCallback, TypeOK, NicOwns
  <2>7. AnsweredOnce'
    BY <1>6 DEF RunCallback, TypeOK, SlotsOwned, StageOwns, WorkersOwn, AnsweredOnce
  <2> QED BY <2>1, <2>2, <2>3, <2>4, <2>5, <2>6, <2>7
<1>7. ASSUME NEW w \in Workers, FreeToken(w)
      PROVE  IInv'
  <2>1. TypeOK'
    BY <1>7 DEF FreeToken, TypeOK, WorkersOwn
  <2>2. SlotsOwned'
    BY <1>7 DEF FreeToken, TypeOK, SlotsOwned
  <2>3. TokensOwned'
    BY <1>7 DEF FreeToken, TypeOK, TokensOwned, WorkersOwn
  <2>4. StageOwns'
    BY <1>7 DEF FreeToken, TypeOK, StageOwns, WorkersOwn
  <2>5. WorkersOwn'
    BY <1>7 DEF FreeToken, TypeOK, WorkersOwn
  <2>6. NicOwns'
    BY <1>7 DEF FreeToken, TypeOK, WorkersOwn, NicOwns
  <2>7. AnsweredOnce'
    BY <1>7 DEF FreeToken, TypeOK, AnsweredOnce
  <2> QED BY <2>1, <2>2, <2>3, <2>4, <2>5, <2>6, <2>7
<1>8. ASSUME NEW w \in Workers, FreeSlot(w)
      PROVE  IInv'
  <2>1. TypeOK'
    BY <1>8 DEF FreeSlot, TypeOK, WorkersOwn
  <2>2. SlotsOwned'
    BY <1>8 DEF FreeSlot, TypeOK, SlotsOwned, WorkersOwn
  <2>3. TokensOwned'
    BY <1>8 DEF FreeSlot, TypeOK, TokensOwned
  <2>4. StageOwns'
    BY <1>8 DEF FreeSlot, TypeOK, StageOwns, WorkersOwn
  <2>5. WorkersOwn'
    BY <1>8 DEF FreeSlot, TypeOK, WorkersOwn
  <2>6. NicOwns'
    BY <1>8 DEF FreeSlot, TypeOK, WorkersOwn, NicOwns
  <2>7. AnsweredOnce'
    BY <1>8 DEF FreeSlot, TypeOK, AnsweredOnce
  <2> QED BY <2>1, <2>2, <2>3, <2>4, <2>5, <2>6, <2>7
<1>9. CASE UNCHANGED vars
  BY <1>9 DEF vars, TypeOK, SlotsOwned, TokensOwned, StageOwns, WorkersOwn, NicOwns, AnsweredOnce
<1> QED
  BY <1>1, <1>2, <1>3, <1>4, <1>5, <1>6, <1>7, <1>8, <1>9 DEF Next, Caller, Nic, Worker

\* IInv holds in every reachable state of RequestPools.
THEOREM Invariance == Spec => []IInv
BY InitIInv, NextIInv, PTL DEF Spec

\* RequestPools: the variables keep their types.
THEOREM TypeCorrect == Spec => []TypeOK
BY Invariance, PTL DEF IInv

-----------------------------------------------------------------------------
\* The tokens outside the pool sit in slots that differ from the slot of a
\* call that has none yet, so they are fewer than the slots.
LEMMA TokenLeft == IInv => NoTokenPanic
<1> SUFFICES ASSUME IInv, NEW r \in Requests, stage[r] = "slot", freeTokens = {}
             PROVE  FALSE
  BY DEF NoTokenPanic
<1>1. PICK s \in Slots : owner[s] = r /\ token[s] = None
  BY NoneIsNothing DEF IInv, StageOwns, SlotsOwned
<1> DEFINE Used == {x \in Slots : token[x] # None}
           stored == [x \in Used |-> token[x]]
<1>2. stored \in Surjection(Used, Tokens)
  <2>1. stored \in [Used -> Tokens]
    BY DEF IInv, TypeOK
  <2>2. ASSUME NEW t \in Tokens PROVE \E x \in Used : stored[x] = t
    BY NoneIsNothing DEF IInv, TokensOwned
  <2> QED BY <2>1, <2>2 DEF Surjection
<1>3. IsFiniteSet(Slots \ {s}) /\ Cardinality(Slots \ {s}) = Cardinality(Slots) - 1
  BY PoolsAreFinite, FS_RemoveElement
<1>4. IsFiniteSet(Used) /\ Cardinality(Used) <= Cardinality(Slots \ {s})
  <2>1. Used \subseteq Slots \ {s}
    BY <1>1
  <2> QED BY <2>1, <1>3, FS_Subset
<1>5. Cardinality(Tokens) <= Cardinality(Used)
  BY <1>2, <1>4, FS_Surjection
<1> QED
  BY <1>3, <1>4, <1>5, EnoughTokens, PoolsAreFinite, FS_CardinalityType

\* A call of RDMADataWithQueue::read that got a slot gets a token: the panic
\* of RDMAData::get_request_token is unreachable on this path.
THEOREM TokenSafety == Spec => []NoTokenPanic
BY Invariance, TokenLeft, PTL

\* The NIC, the callers and the workers never share a slot or a token.
THEOREM Exclusion == Spec => []ExclusiveUse
<1>1. IInv => ExclusiveUse
  <2> SUFFICES ASSUME IInv PROVE ExclusiveUse
    OBVIOUS
  <2>1. \A op \in inflight : op.slot \notin freeSlots /\ op.token \notin freeTokens
    BY NoneIsNothing DEF IInv, TypeOK, Op, NicOwns, SlotsOwned, TokensOwned
  <2>2. ASSUME NEW op1 \in inflight, NEW op2 \in inflight,
               op1.slot = op2.slot \/ op1.token = op2.token
        PROVE  op1 = op2
    BY <2>2, NoneIsNothing DEF IInv, TypeOK, Op, NicOwns, TokensOwned
  <2> QED BY <2>1, <2>2 DEF IInv, ExclusiveUse, WorkersOwn
<1> QED BY <1>1, Invariance, PTL

\* Every step of RequestPools is a step of AsyncReads or changes nothing it
\* can see: each read is answered at most once, with its own bytes.
THEOREM Refinement == Spec => ImplementsAsyncReads
<1>1. Init => Promise!AInit
  BY DEF Init, Promise!AInit, submitted
<1>2. IInv /\ [Next]_vars => [Promise!ANext]_Promise!avars
  <2> SUFFICES ASSUME IInv, [Next]_vars PROVE [Promise!ANext]_Promise!avars
    OBVIOUS
  <2> USE NoneIsNothing DEF Promise!avars, submitted
  <2>1. ASSUME NEW r \in Requests, NEW s \in Slots, TakeSlot(r, s)
        PROVE  Promise!Submit(r)
    BY <2>1 DEF TakeSlot, Promise!Submit, IInv, TypeOK
  <2>2. ASSUME NEW r \in Requests, NEW s \in Slots,
               EnqueuePending(r, s) \/ \E t \in Tokens : PostRead(r, s, t)
        PROVE  UNCHANGED Promise!avars
    BY <2>2 DEF EnqueuePending, PostRead, IInv, TypeOK
  <2>3. ASSUME NEW w \in Workers, RunCallback(w)
        PROVE  \E r \in Requests : Promise!Answer(r)
    <3>1. /\ held[w] \in Slots \ freeSlots
          /\ owner[held[w]] \in Requests
          /\ data[held[w]] = owner[held[w]]
      BY <2>3 DEF RunCallback, IInv, TypeOK, WorkersOwn, SlotsOwned, NicOwns
    <3>2. answer[owner[held[w]]] = None
      BY <2>3, <3>1 DEF RunCallback, IInv, AnsweredOnce, WorkersOwn
    <3>3. stage[owner[held[w]]] = "returned"
      BY <3>1 DEF IInv, StageOwns
    <3> QED BY <2>3, <3>1, <3>2, <3>3 DEF RunCallback, Promise!Answer
  <2>4. CASE Nic
    BY <2>4 DEF Nic, NicComplete
  <2>5. ASSUME NEW w \in Workers,
               FreeToken(w) \/ FreeSlot(w) \/ \E s \in Slots : DequeuePending(w, s)
        PROVE  UNCHANGED Promise!avars
    BY <2>5 DEF FreeToken, FreeSlot, DequeuePending
  <2>6. CASE UNCHANGED vars
    BY <2>6 DEF vars
  <2> QED
    BY <2>1, <2>2, <2>3, <2>4, <2>5, <2>6 DEF Next, Caller, Worker, Promise!ANext
<1> QED
  BY <1>1, <1>2, Invariance, PTL DEF Spec, ImplementsAsyncReads, Promise!ASpec

=============================================================================
