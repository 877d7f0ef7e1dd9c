------------------------- MODULE OffsetReads_proofs -------------------------
(***************************************************************************)
(* Proofs about OffsetReads, for any clients, operations, nodes and keys.  *)
(*                                                                         *)
(* NoNullOp is a counting argument: were every operation of a ring in use  *)
(* while a request waits, each would stand for a get owed its answer, the  *)
(* one being freed for the get whose request waits.  There are more        *)
(* operations than such gets, so two of them would stand for the same one, *)
(* which OneAnswer excludes.                                               *)
(*                                                                         *)
(* RightBytes rests on two facts.  The token of an operation says that its *)
(* read is done just while its buffer holds that read (TokensTrue).  And   *)
(* with one key left over (RemainderOfOne) the keys a server preloads are  *)
(* those of its own node, in ascending order, so that no block takes bytes *)
(* from a value written before it (LaterBlockSpares).                      *)
(***************************************************************************)
EXTENDS OffsetReads, FiniteSetTheorems, TLAPS

\* No operation of a ring is lost.
OpsPlaced == \A n \in Servers, o \in Ops :
    o \in free[n] \/ o = freeing[n] \/ \E r \in pending[n] : r.op = o

\* The two halves of OneAnswer.
OneEach == \A g \in Gets : OneAnswerFor(g)

CountOf(c) ==
    /\ Cardinality(Outstanding(c)) = taken[c] + (IF want[c] = NoKey THEN 0 ELSE 1)
    /\ taken[c] = 0 => \A g \in Outstanding(c) : owed[g] = want[c]
    /\ c \notin Leaders => taken[c] = 0

\* A pending read goes to the node of the key its get asked for.
ReadsPlaced == \A n \in Servers : \A r \in pending[n] :
    r.key = owed[r.get] /\ n = Node(r.key)

IInv == TypeOK /\ OneEach /\ OpsPlaced /\ ReadsPlaced

-----------------------------------------------------------------------------
(* Placement                                                               *)

LEMMA DivBound ==
    ASSUME NEW a \in Nat, NEW d \in Nat \ {0}, NEW n \in Nat, a < d * n
    PROVE  a \div d \in 0 .. n - 1
<1> DEFINE q == a \div d
<1>1. q \in Nat /\ d * q <= a
  OBVIOUS
<1>2. CASE q >= n
  <2>1. d * q = d * n + d * (q - n) /\ d * (q - n) >= 0
    BY <1>1, <1>2
  <2> QED BY <1>1, <2>1
<1> QED BY <1>1, <1>2

LEMMA KeysPerNodeType == KeysPerNode \in Nat \ {0}
BY SizesAreSane DEF KeysPerNode

LEMMA NodeIsServer == ASSUME NEW k \in DatasetKeys PROVE Node(k) \in Servers
<1>1. CASE k > KeysPerNode * NumNodes
  BY <1>1, SizesAreSane DEF Node, Servers
<1>2. CASE ~(k > KeysPerNode * NumNodes)
  <2>1. k - 1 \in Nat /\ k - 1 < KeysPerNode * NumNodes
    BY <1>2, KeysPerNodeType, SizesAreSane DEF DatasetKeys
  <2>2. (k - 1) \div KeysPerNode \in 0 .. NumNodes - 1
    BY <2>1, DivBound, KeysPerNodeType, SizesAreSane
  <2> QED BY <1>2, <2>2 DEF Node, Servers
<1> QED BY <1>1, <1>2

LEMMA ValueIsNat == ASSUME NEW k \in DatasetKeys PROVE ValueOf(k) \subseteq Nat
<1>1. Offset(k) \in Nat
  BY KeysPerNodeType, SizesAreSane DEF Offset, DatasetKeys
<1> QED BY <1>1, SizesAreSane DEF ValueOf

LEMMA PreloadKeepsType ==
    ASSUME PlacementTypeOK, NEW s \in Servers, Preload(s)
    PROVE  PlacementTypeOK'
<1> DEFINE k == next[s]
<1>1. k \in DatasetKeys /\ next' \in [Servers -> 1 .. NumKeys + 1]
  BY SizesAreSane DEF Preload, PlacementTypeOK, DatasetKeys
<1>2. CASE WriteCorrectNode(k)
  <2>1. filled' \in [Servers -> SUBSET Nat]
    BY <1>1, <1>2, ValueIsNat DEF WriteCorrectNode, PlacementTypeOK
  <2>2. ASSUME NEW n \in Servers, NEW a \in filled'[n]
        PROVE  \E h \in DatasetKeys : Node(h) = n /\ a \in ValueOf(h)
    <3>1. a \in filled[n] \/ (n = Node(k) /\ a \in ValueOf(k))
      BY <1>2 DEF WriteCorrectNode, PlacementTypeOK
    <3> QED BY <1>1, <3>1 DEF PlacementTypeOK
  <2> QED BY <1>1, <2>1, <2>2 DEF PlacementTypeOK
<1>3. CASE UNCHANGED filled
  BY <1>1, <1>3 DEF PlacementTypeOK
<1> QED BY <1>2, <1>3 DEF Preload

-----------------------------------------------------------------------------
(* The counting argument                                                   *)

LEMMA CountOps == ASSUME IInv PROVE NoNullOp
<1> SUFFICES ASSUME NEW g \in requests, free[Node(owed[g])] = {}
             PROVE  FALSE
  BY DEF NoNullOp
<1> DEFINE n == Node(owed[g])
<1>1. g \in Gets /\ n \in Servers /\ PendingOf(g) = {}
  BY NodeIsServer DEF IInv, TypeOK, OneEach, OneAnswerFor
<1>2. \A o \in Ops : o = freeing[n] \/ \E r \in pending[n] : r.op = o
  BY <1>1 DEF IInv, OpsPlaced
<1>3. \A r \in pending[n] : r \in PendingOf(r.get) /\ r.get \in Gets
  BY <1>1 DEF IInv, TypeOK, PendingOps, PendingOf
<1> DEFINE Stands == [o \in Ops |-> IF o = freeing[n] THEN g
                                   ELSE (CHOOSE r \in pending[n] : r.op = o).get]
<1>4. Stands \in [Ops -> Gets]
  BY <1>1, <1>2, <1>3
<1>5. PICK o \in Ops, p \in Ops : o # p /\ Stands[o] = Stands[p]
  <2> HIDE DEF Stands
  <2> QED BY <1>4, FS_PigeonHole, EnoughOps
<1>6. ASSUME NEW q \in Ops, q # freeing[n]
      PROVE  \E r \in PendingOf(Stands[q]) : r.op = q
  <2>1. \E r \in pending[n] : r.op = q /\ r.get = Stands[q]
    BY <1>2, <1>6
  <2> QED BY <1>3, <2>1
<1>7. CASE o # freeing[n] /\ p # freeing[n]
  BY <1>4, <1>5, <1>6, <1>7 DEF IInv, OneEach, OneAnswerFor
<1>8. CASE o = freeing[n] \/ p = freeing[n]
  <2>1. Stands[o] = g /\ Stands[p] = g
    BY <1>5, <1>8
  <2> QED BY <1>1, <1>5, <1>6, <1>8, <2>1
<1> QED BY <1>7, <1>8

-----------------------------------------------------------------------------
(* IInv is inductive                                                       *)

LEMMA InitIInv == Init => IInv
<1> SUFFICES ASSUME Init PROVE IInv
  OBVIOUS
<1>1. PlacementTypeOK
  BY SizesAreSane DEF Init, PlacementInit, PlacementTypeOK
<1>2. TypeOK
  BY <1>1 DEF Init, TypeOK
<1>3. OneEach
  BY DEF Init, OneEach, OneAnswerFor, PendingOf, AnswersOf
<1>4. OpsPlaced /\ ReadsPlaced
  BY DEF Init, OpsPlaced, ReadsPlaced
<1> QED BY <1>2, <1>3, <1>4 DEF IInv

\* A step that leaves a get alone.
LEMMA Untouched ==
    ASSUME NEW g \in Gets, OneAnswerFor(g), owed'[g] = owed[g],
           g \in requests' <=> g \in requests,
           PendingOf(g)' = PendingOf(g), AnswersOf(g)' = AnswersOf(g)
    PROVE  OneAnswerFor(g)'
BY DEF OneAnswerFor

\* What is pending for a get, without the union over the nodes.
LEMMA PendingOfMember ==
    ASSUME NEW g
    PROVE  /\ \A x : x \in PendingOf(g) <=> x.get = g /\ \E m \in Servers : x \in pending[m]
           /\ \A x : x \in PendingOf(g)' <=> x.get = g /\ \E m \in Servers : x \in pending'[m]
<1>1. \A x : x \in PendingOf(g) <=> x.get = g /\ \E m \in Servers : x \in pending[m]
  BY Zenon DEF PendingOf
<1>2. \A x : x \in PendingOf(g)' <=> x.get = g /\ \E m \in Servers : x \in pending'[m]
  BY Zenon DEF PendingOf
<1> QED BY <1>1, <1>2

LEMMA AskKeeps ==
    ASSUME IInv, NEW c \in Clients, NEW k \in DatasetKeys, NEW g \in Gets, Ask(c, k, g)
    PROVE  IInv'
<1> USE DEF Ask, Unused, ringVars, placementVars
<1>1. owed' = [owed EXCEPT ![g] = k] /\ owed[g] = NoKey /\ owed'[g] = k /\ k # NoKey
  BY DEF IInv, TypeOK, DatasetKeys, NoKey
<1>2. TypeOK'
  BY <1>1 DEF IInv, TypeOK, PlacementTypeOK
<1>3. \A h \in Gets : PendingOf(h)' = PendingOf(h) /\ AnswersOf(h)' = AnswersOf(h)
  BY DEF PendingOf, AnswersOf
<1>4. PendingOf(g) = {} /\ AnswersOf(g) = {}
  BY DEF IInv, OneEach, OneAnswerFor
<1>5. OneAnswerFor(g)'
  BY <1>1, <1>3, <1>4 DEF OneAnswerFor
<1>6. ASSUME NEW h \in Gets \ {g} PROVE OneAnswerFor(h)'
  <2>1. owed'[h] = owed[h]
    BY <1>6 DEF IInv, TypeOK
  <2> QED BY <1>3, <1>6, <2>1, Untouched DEF IInv, OneEach
<1>7. ReadsPlaced'
  <2>1. \A n \in Servers : \A r \in pending[n] : r.get \in Gets \ {g}
    BY <1>4 DEF PendingOf, IInv, TypeOK, PendingOps
  <2> QED BY <2>1 DEF ReadsPlaced, IInv, TypeOK
<1> QED BY <1>2, <1>5, <1>6, <1>7 DEF IInv, OneEach, OpsPlaced

LEMMA ReceiveKeeps ==
    ASSUME IInv, NEW c \in Clients, NEW a \in answers, Receive(c, a) PROVE IInv'
<1> USE DEF Receive, Return, ringVars, placementVars
<1> DEFINE g == a.get
<1>0. g \in Gets
  BY DEF IInv, TypeOK, Answers
<1>1. owed' = [owed EXCEPT ![g] = NoKey] /\ owed'[g] = NoKey
  BY <1>0 DEF IInv, TypeOK
<1>2. TypeOK'
  BY <1>1 DEF IInv, TypeOK, PlacementTypeOK
<1>3. PendingOf(g) = {} /\ g \notin requests /\ AnswersOf(g) = {a}
  <2>1. a \in AnswersOf(g)
    BY DEF AnswersOf
  <2> QED BY <1>0, <2>1 DEF IInv, OneEach, OneAnswerFor
<1>4. \A h \in Gets : PendingOf(h)' = PendingOf(h)
  BY DEF PendingOf
<1>5. OneAnswerFor(g)'
  <2>1. AnswersOf(g)' = {}
    BY <1>3 DEF AnswersOf
  <2> QED BY <1>0, <1>1, <1>3, <1>4, <2>1 DEF OneAnswerFor
<1>6. ASSUME NEW h \in Gets \ {g} PROVE OneAnswerFor(h)'
  <2>1. owed'[h] = owed[h] /\ AnswersOf(h)' = AnswersOf(h)
    BY <1>6 DEF IInv, TypeOK, AnswersOf
  <2> QED BY <1>4, <1>6, <2>1, Untouched DEF IInv, OneEach
<1>7. ReadsPlaced'
  <2>1. \A n \in Servers : \A r \in pending[n] : r.get \in Gets \ {g}
    BY <1>3 DEF PendingOf, IInv, TypeOK, PendingOps
  <2> QED BY <2>1 DEF ReadsPlaced, IInv, TypeOK
<1> QED BY <1>2, <1>5, <1>6, <1>7 DEF IInv, OneEach, OpsPlaced

LEMMA HitKeeps == ASSUME IInv, NEW g \in Gets, Hit(g) PROVE IInv'
<1> USE DEF Hit, ringVars, clientVars, placementVars
<1> DEFINE a == Answered(g, owed[g], "wire")
<1>1. a \in Answers /\ a.get = g
  BY DEF Answered, Answers, IInv, TypeOK
<1>2. answers' = answers \union {a}
  OBVIOUS
<1> HIDE DEF a
<1>3. TypeOK'
  BY <1>1, <1>2 DEF IInv, TypeOK, PlacementTypeOK
<1>4. \A h \in Gets : PendingOf(h)' = PendingOf(h)
  BY DEF PendingOf
<1>5. OneAnswerFor(g)'
  <2>1. owed[g] # NoKey /\ PendingOf(g) = {} /\ AnswersOf(g) = {}
    BY DEF IInv, OneEach, OneAnswerFor
  <2>2. AnswersOf(g)' = {a}
    BY <1>1, <1>2, <2>1 DEF AnswersOf
  <2> QED BY <1>4, <2>1, <2>2 DEF OneAnswerFor
<1>6. ASSUME NEW h \in Gets \ {g} PROVE OneAnswerFor(h)'
  <2>1. AnswersOf(h)' = AnswersOf(h)
    BY <1>1, <1>2, <1>6 DEF AnswersOf
  <2> QED BY <1>4, <1>6, <2>1, Untouched DEF IInv, OneEach
<1> QED BY <1>3, <1>5, <1>6 DEF IInv, OneEach, OpsPlaced, ReadsPlaced

LEMMA PostReadKeeps ==
    ASSUME IInv, NEW g \in Gets, NEW o \in Ops, PostRead(g, o) PROVE IInv'
<1> USE DEF PostRead, TakeOp, clientVars, placementVars
<1> DEFINE n == Node(owed[g])
           r == [op |-> o, get |-> g, key |-> owed[g]]
<1>1. /\ owed[g] \in DatasetKeys /\ owed[g] # NoKey
      /\ PendingOf(g) = {} /\ AnswersOf(g) = {}
  BY DEF IInv, OneEach, OneAnswerFor, TypeOK
<1>2. n \in Servers
  BY <1>1, NodeIsServer
<1>3. r \in PendingOps /\ r.op = o /\ r.get = g /\ r.key = owed[g]
  BY <1>1 DEF PendingOps
<1>4. pending' = [pending EXCEPT ![n] = @ \union {r}]
  BY DEF Add
<1>5. free' = [free EXCEPT ![n] = @ \ {o}]
  BY DEF Drop
<1> HIDE DEF n, r
<1>6. TypeOK'
  <2>1. pending' \in [Servers -> SUBSET PendingOps] /\ free' \in [Servers -> SUBSET Ops]
    <3>1. pending \in [Servers -> SUBSET PendingOps] /\ free \in [Servers -> SUBSET Ops]
      BY DEF IInv, TypeOK
    <3> HIDE DEF PostRead
    <3> QED BY <1>2, <1>3, <1>4, <1>5, <3>1
  <2> QED BY <2>1 DEF IInv, TypeOK, PlacementTypeOK
<1>7. \A x : (\E m \in Servers : x \in pending'[m]) <=> x = r \/ \E m \in Servers : x \in pending[m]
  BY <1>2, <1>4 DEF IInv, TypeOK
<1>8. \A h \in Gets : AnswersOf(h)' = AnswersOf(h)
  BY DEF AnswersOf
<1>9. OneAnswerFor(g)'
  <2>1. PendingOf(g)' = {r}
    BY <1>1, <1>3, <1>7, PendingOfMember
  <2> QED BY <1>1, <1>8, <2>1 DEF OneAnswerFor
<1>10. ASSUME NEW h \in Gets \ {g} PROVE OneAnswerFor(h)'
  <2>1. PendingOf(h)' = PendingOf(h)
    <3>1. \A x : x \in PendingOf(h)' <=> x \in PendingOf(h)
      <4>1. h # g /\ r.get = g
        BY <1>3, <1>10
      <4>2. ASSUME NEW x PROVE x \in PendingOf(h)' <=> x \in PendingOf(h)
        <5>1. x \in PendingOf(h) <=> x.get = h /\ \E m \in Servers : x \in pending[m]
          BY PendingOfMember
        <5>2. x \in PendingOf(h)' <=> x.get = h /\ \E m \in Servers : x \in pending'[m]
          BY PendingOfMember
        <5>3. CASE x = r
          BY <4>1, <5>1, <5>2, <5>3
        <5>4. CASE x # r
          BY <1>7, <5>1, <5>2, <5>4
        <5> QED BY <5>3, <5>4
      <4> QED BY <4>2
    <3> QED BY <3>1, Zenon DEF PendingOf
  <2> QED BY <1>8, <1>10, <2>1, Untouched DEF IInv, OneEach
<1>11. OpsPlaced'
  BY <1>2, <1>3, <1>4, <1>5 DEF OpsPlaced, IInv, TypeOK
<1>12. ReadsPlaced'
  BY <1>2, <1>3, <1>4 DEF ReadsPlaced, IInv, TypeOK, n
<1> QED BY <1>6, <1>9, <1>10, <1>11, <1>12 DEF IInv, OneEach

LEMMA DrainKeeps == ASSUME IInv, NEW a \in answers, Drain(a) PROVE IInv'
<1> USE DEF Drain, ringVars, clientVars, placementVars
<1> DEFINE b == [a EXCEPT !.at = "wire"]
<1>1. b \in Answers /\ b.get = a.get
  BY DEF Answers, IInv, TypeOK
<1>2. answers' = (answers \ {a}) \union {b}
  OBVIOUS
<1> HIDE DEF b
<1>3. TypeOK'
  BY <1>1, <1>2 DEF IInv, TypeOK, PlacementTypeOK
<1>4. \A h \in Gets : PendingOf(h)' = PendingOf(h)
  BY DEF PendingOf
<1>5. ASSUME NEW h \in Gets PROVE OneAnswerFor(h)'
  <2>1. CASE h = a.get
    <3>1. AnswersOf(h) = {a} /\ owed[h] # NoKey /\ h \notin requests /\ PendingOf(h) = {}
      BY <2>1 DEF IInv, OneEach, OneAnswerFor, AnswersOf
    <3>2. AnswersOf(h)' = {b}
      BY <1>1, <1>2, <2>1, <3>1 DEF AnswersOf
    <3> QED BY <1>4, <3>1, <3>2 DEF OneAnswerFor
  <2>2. CASE h # a.get
    <3>1. AnswersOf(h)' = AnswersOf(h)
      BY <1>1, <1>2, <2>2 DEF AnswersOf
    <3> QED BY <1>4, <3>1, Untouched DEF IInv, OneEach
  <2> QED BY <2>1, <2>2
<1> QED BY <1>3, <1>5 DEF IInv, OneEach, OpsPlaced, ReadsPlaced

LEMMA AnswerKeeps ==
    ASSUME IInv, NEW n \in Servers, NEW r \in pending[n], Answer(n, r) PROVE IInv'
<1> USE DEF Answer, clientVars, placementVars
<1> DEFINE a == Answered(r.get, Bytes(n, r), "queue")
           g == r.get
<1>1. r \in PendingOps /\ g \in Gets
  BY DEF IInv, TypeOK, PendingOps
<1>2. a \in Answers /\ a.get = g
  BY <1>1 DEF Answered, Answers, Bytes, PendingOps
<1>3. answers' = answers \union {a} /\ pending' = [pending EXCEPT ![n] = @ \ {r}]
  BY DEF Drop
<1> HIDE DEF a
<1>4. TypeOK'
  BY <1>1, <1>2, <1>3 DEF IInv, TypeOK, PlacementTypeOK, PendingOps
<1>5. PendingOf(g) = {r} /\ owed[g] # NoKey /\ g \notin requests /\ AnswersOf(g) = {}
  <2>1. r \in PendingOf(g)
    BY DEF PendingOf
  <2> QED BY <1>1, <2>1 DEF IInv, OneEach, OneAnswerFor
\* r is in no other node's queue.
<1>6. \A x : (\E m \in Servers : x \in pending'[m]) <=> x # r /\ \E m \in Servers : x \in pending[m]
  <2>1. \A m \in Servers : r \in pending[m] => m = n
    BY DEF IInv, ReadsPlaced
  <2> QED BY <1>3, <2>1 DEF IInv, TypeOK
<1>7. OneAnswerFor(g)'
  <2>1. PendingOf(g)' = {} /\ AnswersOf(g)' = {a}
    <3>1. PendingOf(g)' = {}
      BY <1>5, <1>6, PendingOfMember
    <3>2. AnswersOf(g)' = {a}
      BY <1>2, <1>3, <1>5 DEF AnswersOf
    <3> QED BY <3>1, <3>2
  <2> QED BY <1>5, <2>1 DEF OneAnswerFor
<1>8. ASSUME NEW h \in Gets \ {g} PROVE OneAnswerFor(h)'
  <2>1. PendingOf(h)' = PendingOf(h) /\ AnswersOf(h)' = AnswersOf(h)
    <3>1. PendingOf(h)' = PendingOf(h)
      <4>1. \A x : x \in PendingOf(h)' <=> x \in PendingOf(h)
        BY <1>6, <1>8, PendingOfMember
      <4> QED BY <4>1, Zenon DEF PendingOf
    <3>2. AnswersOf(h)' = AnswersOf(h)
      BY <1>2, <1>3, <1>8 DEF AnswersOf
    <3> QED BY <3>1, <3>2
  <2> QED BY <1>8, <2>1, Untouched DEF IInv, OneEach
<1>9. OpsPlaced'
  <2>1. freeing' = [freeing EXCEPT ![n] = r.op] /\ freeing[n] = None /\ free' = free
    OBVIOUS
  <2>2. ASSUME NEW m \in Servers, NEW o \in Ops
        PROVE  o \in free'[m] \/ o = freeing'[m] \/ \E q \in pending'[m] : q.op = o
    <3>1. CASE m = n
      <4>1. o \in free[n] \/ \E q \in pending[n] : q.op = o
        BY <2>1, NoneIsNoOp DEF OpsPlaced, IInv
      <4>2. freeing'[n] = r.op /\ pending'[n] = pending[n] \ {r}
        BY <1>3, <2>1 DEF IInv, TypeOK
      <4> QED BY <2>1, <3>1, <4>1, <4>2
    <3>2. CASE m # n
      <4>1. freeing'[m] = freeing[m] /\ pending'[m] = pending[m]
        BY <1>3, <2>1, <3>2 DEF IInv, TypeOK
      <4> QED BY <2>1, <4>1 DEF OpsPlaced, IInv
    <3> QED BY <3>1, <3>2
  <2> QED BY <2>2 DEF OpsPlaced
<1>10. ReadsPlaced'
  BY <1>3 DEF ReadsPlaced, IInv, TypeOK
<1> QED BY <1>4, <1>7, <1>8, <1>9, <1>10 DEF IInv, OneEach

\* The steps that touch no get's debt: a preload, a sync request taken for a
\* response, the NIC, an operation being freed.
LEMMA OthersKeep ==
    ASSUME IInv,
           \/ \E s \in Servers :
                 Preload(s) /\ UNCHANGED <<clientVars, requests, ringVars, answers>>
           \/ \E c \in Clients : ReceiveSync(c)
           \/ \E n \in Servers : \E r \in pending[n] : NicReads(n, r)
           \/ \E n \in Servers : FreeOp(n)
           \/ UNCHANGED vars
    PROVE  IInv'
<1> USE DEF ringVars, placementVars
<1> DEFINE TypesKept ==
      /\ free' \in [Servers -> SUBSET Ops] /\ completed' \in [Servers -> SUBSET Ops]
      /\ fresh' \in [Servers -> SUBSET Ops] /\ freeing' \in [Servers -> Ops \union {None}]
<1>1. /\ UNCHANGED <<owed, requests, pending, answers>>
      /\ want' \in [Clients -> DatasetKeys \union {NoKey}] /\ taken' \in [Clients -> Nat]
  BY DEF NicReads, FreeOp, ReceiveSync, Return, IInv, TypeOK, clientVars, vars
<1>2. PlacementTypeOK'
  <2>1. CASE \E s \in Servers : Preload(s)
    BY <2>1, PreloadKeepsType DEF IInv, TypeOK
  <2>2. CASE UNCHANGED placementVars
    BY <2>2 DEF IInv, TypeOK, PlacementTypeOK
  <2> QED BY <2>1, <2>2 DEF NicReads, FreeOp, ReceiveSync, vars
<1>3. TypesKept
  <2>1. ASSUME NEW n \in Servers, NEW r \in pending[n], NicReads(n, r) PROVE TypesKept
    BY <2>1 DEF NicReads, Add, IInv, TypeOK, PendingOps
  <2>2. ASSUME NEW n \in Servers, FreeOp(n) PROVE TypesKept
    BY <2>2 DEF FreeOp, Add, Drop, IInv, TypeOK
  <2> QED BY <2>1, <2>2 DEF ReceiveSync, IInv, TypeOK, vars
<1>4. TypeOK'
  BY <1>1, <1>2, <1>3 DEF IInv, TypeOK
<1>5. OneEach' /\ ReadsPlaced'
  BY <1>1 DEF IInv, OneEach, OneAnswerFor, ReadsPlaced, PendingOf, AnswersOf
<1>6. OpsPlaced'
  <2>1. ASSUME NEW n \in Servers, FreeOp(n) PROVE OpsPlaced'
    BY <1>1, <2>1 DEF FreeOp, Add, IInv, TypeOK, OpsPlaced
  <2>2. CASE UNCHANGED <<free, freeing, pending>>
    BY <2>2 DEF IInv, OpsPlaced
  <2> QED BY <2>1, <2>2 DEF NicReads, ReceiveSync, vars
<1> QED BY <1>4, <1>5, <1>6 DEF IInv

LEMMA NextIInv == IInv /\ [Next]_vars => IInv'
<1> SUFFICES ASSUME IInv, [Next]_vars PROVE IInv'
  OBVIOUS
<1>1. ASSUME NEW g \in Gets, Work(g) PROVE IInv'
  BY <1>1, HitKeeps, PostReadKeeps DEF Work
<1>2. ASSUME NEW g \in Gets, Deliver(g) PROVE IInv'
  BY <1>2, DrainKeeps, ReceiveKeeps, GetsAreSane DEF Deliver
<1>3. ASSUME NEW g \in Gets, AnswerFor(g) PROVE IInv'
  BY <1>3, AnswerKeeps DEF AnswerFor
<1>4. ASSUME NEW g \in Gets, Nic(g) PROVE IInv'
  BY <1>4, OthersKeep DEF Nic
<1>5. ASSUME NEW c \in Clients, NEW k \in KeysAsked[c], NEW g \in Gets, Ask(c, k, g) PROVE IInv'
  BY <1>5, AskKeeps, GetsAreSane
<1> QED BY <1>1, <1>2, <1>3, <1>4, <1>5, OthersKeep DEF Next

LEMMA Invariance == Spec => []IInv
BY InitIInv, NextIInv, PTL DEF Spec

\* Types are kept by the preload, the ring and the gets.
THEOREM TypeCorrect == Spec => []TypeOK
<1>1. IInv => TypeOK
  BY DEF IInv
<1> QED BY <1>1, Invariance, PTL

\* What a client is owed in all changes with its own gets only.
LEMMA OutstandingFinite == \A c \in Clients : IsFiniteSet(Outstanding(c))
<1>1. \A c \in Clients : Outstanding(c) \subseteq Gets
  BY DEF Outstanding
<1> QED BY <1>1, EnoughOps, FS_Subset

LEMMA CountsKept ==
    ASSUME NEW c \in Clients, CountOf(c), Outstanding(c)' = Outstanding(c),
           \A g \in Outstanding(c) : owed'[g] = owed[g],
           want'[c] = want[c], taken'[c] = taken[c]
    PROVE  CountOf(c)'
BY DEF CountOf

LEMMA OtherCounts ==
    ASSUME TypeOK, NEW g \in Gets, NEW v, owed' = [owed EXCEPT ![g] = v],
           NEW w, want' = [want EXCEPT ![ClientOf[g]] = w], taken' = taken,
           NEW d \in Clients \ {ClientOf[g]}, CountOf(d)
    PROVE  CountOf(d)'
<1>1. Outstanding(d)' = Outstanding(d)
  BY DEF TypeOK, Outstanding
<1>2. \A h \in Outstanding(d) : owed'[h] = owed[h]
  BY DEF TypeOK, Outstanding
<1>3. want'[d] = want[d] /\ taken'[d] = taken[d]
  BY DEF TypeOK
<1> QED BY <1>1, <1>2, <1>3, CountsKept

LEMMA AskCounts ==
    ASSUME TypeOK, \A d \in Clients : CountOf(d),
           NEW c \in Clients, NEW k \in DatasetKeys, NEW g \in Gets, Ask(c, k, g)
    PROVE  \A d \in Clients : CountOf(d)'
<1>1. /\ ClientOf[g] = c /\ owed[g] = NoKey /\ want[c] = NoKey /\ k # NoKey
      /\ want' = [want EXCEPT ![c] = k] /\ owed' = [owed EXCEPT ![g] = k] /\ taken' = taken
  BY DEF Ask, Unused, DatasetKeys, NoKey
<1>2. Outstanding(c)' = Outstanding(c) \union {g} /\ g \notin Outstanding(c)
  BY <1>1 DEF TypeOK, Outstanding
<1>3. Cardinality(Outstanding(c)') = Cardinality(Outstanding(c)) + 1
  BY <1>2, OutstandingFinite, FS_AddElement
<1>4. want'[c] = k /\ taken'[c] = taken[c] /\ taken[c] \in Nat
  BY <1>1 DEF TypeOK
<1>5. Cardinality(Outstanding(c)) = taken[c]
  BY <1>1, <1>4 DEF CountOf
<1>6. taken[c] = 0 => Outstanding(c) = {}
  BY <1>5, OutstandingFinite, FS_EmptySet
<1>7. taken'[c] = 0 => \A h \in Outstanding(c)' : owed'[h] = want'[c]
  BY <1>1, <1>2, <1>4, <1>6 DEF TypeOK
<1>8. CountOf(c)'
  <2>1. Cardinality(Outstanding(c)') = taken'[c] + 1
    BY <1>3, <1>4, <1>5
  <2> QED BY <1>1, <1>4, <1>7, <2>1 DEF CountOf
<1> QED BY <1>1, <1>8, OtherCounts

LEMMA ReceiveCounts ==
    ASSUME IInv, \A d \in Clients : CountOf(d),
           NEW c \in Clients, NEW a \in answers, Receive(c, a)
    PROVE  \A d \in Clients : CountOf(d)'
<1> USE DEF IInv
<1> DEFINE g == a.get
<1>1. /\ g \in Gets /\ ClientOf[g] = c /\ want[c] # NoKey /\ taken' = taken
      /\ want' = [want EXCEPT ![c] = NoKey] /\ owed' = [owed EXCEPT ![g] = NoKey]
  BY DEF Receive, Return, TypeOK, Answers
<1>2. owed[g] # NoKey
  <2>1. a \in AnswersOf(g)
    BY DEF AnswersOf
  <2> QED BY <1>1, <2>1 DEF OneEach, OneAnswerFor
<1> HIDE DEF g
<1>3. Outstanding(c)' = Outstanding(c) \ {g} /\ g \in Outstanding(c)
  BY <1>1, <1>2 DEF TypeOK, Outstanding
<1>4. /\ Cardinality(Outstanding(c)') = Cardinality(Outstanding(c)) - 1
      /\ IsFiniteSet(Outstanding(c)')
  BY <1>3, OutstandingFinite, FS_RemoveElement
<1>5. want'[c] = NoKey /\ taken'[c] = taken[c] /\ taken[c] \in Nat
  BY <1>1 DEF TypeOK
<1>6. Cardinality(Outstanding(c)) = taken[c] + 1
  BY <1>1 DEF CountOf
<1>7. Cardinality(Outstanding(c)') = taken'[c]
  BY <1>4, <1>5, <1>6
<1>8. taken'[c] = 0 => Outstanding(c)' = {}
  BY <1>4, <1>7, FS_EmptySet
<1>9. CountOf(c)'
  BY <1>5, <1>7, <1>8 DEF CountOf
<1> QED BY <1>1, <1>9, OtherCounts

\* The call ends and nothing is paid: one answer more than before is left.
LEMMA ReceiveSyncCounts ==
    ASSUME TypeOK, \A d \in Clients : CountOf(d), NEW c \in Clients, ReceiveSync(c)
    PROVE  \A d \in Clients : CountOf(d)'
<1> USE DEF TypeOK
<1>1. /\ c \in Leaders /\ want[c] # NoKey /\ owed' = owed
      /\ want' = [want EXCEPT ![c] = NoKey] /\ taken' = [taken EXCEPT ![c] = @ + 1]
  BY DEF ReceiveSync, Return
<1>2. \A d \in Clients : Outstanding(d)' = Outstanding(d)
  BY <1>1 DEF Outstanding
<1>3. ASSUME NEW d \in Clients \ {c} PROVE CountOf(d)'
  BY <1>1, <1>2, CountsKept
<1>4. CountOf(c)'
  <2>1. Cardinality(Outstanding(c)) = taken[c] + 1
    BY <1>1 DEF CountOf
  <2>2. taken'[c] = taken[c] + 1 /\ want'[c] = NoKey /\ taken[c] \in Nat
    BY <1>1
  <2>3. Cardinality(Outstanding(c)') = taken'[c]
    BY <1>2, <2>1, <2>2
  <2> QED BY <1>1, <2>2, <2>3 DEF CountOf
<1> QED BY <1>3, <1>4

LEMMA Counts == Spec => [](\A c \in Clients : CountOf(c))
<1> DEFINE Counted == \A c \in Clients : CountOf(c)
<1>1. ASSUME Init PROVE Counted
  <2>1. \A c \in Clients : Outstanding(c) = {}
    BY <1>1 DEF Init, Outstanding
  <2>2. ASSUME NEW c \in Clients PROVE CountOf(c)
    <3>1. Cardinality(Outstanding(c)) = 0
      BY <2>1, FS_EmptySet
    <3>2. taken[c] = 0 /\ want[c] = NoKey
      BY <1>1 DEF Init
    <3> QED BY <2>1, <3>1, <3>2 DEF CountOf
  <2> QED BY <2>2
<1>2. ASSUME IInv, Counted, [Next]_vars PROVE Counted'
  <2>1. CASE UNCHANGED clientVars
    BY <1>2, <2>1 DEF clientVars, CountOf, Outstanding
  <2>2. ASSUME NEW c \in Clients, NEW k \in DatasetKeys, NEW g \in Gets, Ask(c, k, g)
        PROVE  Counted'
    BY <1>2, <2>2, AskCounts DEF IInv
  <2>3. ASSUME NEW c \in Clients, NEW a \in answers, Receive(c, a) PROVE Counted'
    BY <1>2, <2>3, ReceiveCounts
  <2>4. ASSUME NEW c \in Clients, ReceiveSync(c) PROVE Counted'
    BY <1>2, <2>4, ReceiveSyncCounts DEF IInv
  <2>5. \/ UNCHANGED clientVars
        \/ \E c \in Clients, k \in DatasetKeys, g \in Gets : Ask(c, k, g)
        \/ \E c \in Clients, a \in answers : Receive(c, a)
        \/ \E c \in Clients : ReceiveSync(c)
    BY <1>2, GetsAreSane
       DEF Next, Work, Hit, PostRead, Deliver, Drain, AnswerFor, Answer, Nic, NicReads, FreeOp, vars
  <2> QED BY <2>1, <2>2, <2>3, <2>4, <2>5
<1> HIDE DEF Counted
<1>3. Spec => []Counted
  BY <1>1, <1>2, Invariance, PTL DEF Spec
<1> QED BY <1>3 DEF Counted

\* A get owed an answer has exactly one request, pending read or answer under
\* way, and a client is owed one answer more than its gets returned on sync
\* requests (Connection::get, read_correct_node, background_work).
THEOREM OneAnswerOwed == Spec => []OneAnswer
<1> DEFINE Counted == \A c \in Clients : CountOf(c)
<1>1. IInv /\ Counted => OneAnswer
  BY DEF IInv, OneEach, CountOf, OneAnswer
<1> HIDE DEF Counted
<1>2. Spec => []Counted
  BY Counts DEF Counted
<1> QED BY <1>1, <1>2, Invariance, PTL

\* get_next_available_async_rdma_op always finds an operation, if a ring has at
\* least one more than there are gets under way.
THEOREM NeverNullOp == Spec => []NoNullOp
<1>1. IInv => NoNullOp
  BY CountOps
<1> QED BY <1>1, Invariance, PTL

-----------------------------------------------------------------------------
(* The preload                                                             *)

\* The shipped configuration has 100000 keys on 3 nodes: one key is left over.
RemainderOfOne == NumKeys = NumNodes * KeysPerNode + 1

LEMMA LessByFactor ==
    ASSUME NEW a \in Int, NEW b \in Int, NEW d \in Nat \ {0}, d * a < d * b
    PROVE  a < b
<1>1. CASE a >= b
  <2>1. d * a = d * b + d * (a - b) /\ d * (a - b) >= 0
    BY <1>1
  <2> QED BY <2>1
<1> QED BY <1>1

LEMMA Quotient ==
    ASSUME NEW a \in Nat, NEW d \in Nat \ {0}, NEW s \in Nat, d * s <= a, a < d * s + d
    PROVE  a \div d = s
<1> DEFINE q == a \div d
<1>1. q \in Nat /\ d * q <= a /\ a < d * q + d
  OBVIOUS
<1> HIDE DEF q
<1>2. d * q < d * (s + 1) /\ d * s < d * (q + 1)
  <2>1. d * (s + 1) = d * s + d /\ d * (q + 1) = d * q + d
    BY <1>1
  <2>2. d * q \in Int /\ d * s \in Int /\ d * (s + 1) \in Int /\ d * (q + 1) \in Int
    BY <1>1
  <2> QED BY <1>1, <2>1, <2>2
<1>3. q < s + 1 /\ s < q + 1
  BY <1>1, <1>2, LessByFactor
<1> QED BY <1>1, <1>3 DEF q

\* With one key left over the keys of a server's range are those of its own
\* node, and the last key is in nobody's range.
LEMMA RangeIsNode ==
    ASSUME RemainderOfOne, NEW s \in Servers, NEW k \in DatasetKeys, InRange(s, k)
    PROVE  k <= KeysPerNode * NumNodes /\ Node(k) = s /\ Offset(k) = k - 1 - KeysPerNode * s
<1> DEFINE q == KeysPerNode
           n == NumNodes
<1>1. /\ q \in Nat \ {0} /\ n \in Nat \ {0} /\ s \in Nat /\ s < n /\ k \in Nat /\ k > 0
      /\ NumKeys = n * q + 1
  BY KeysPerNodeType, SizesAreSane DEF Servers, DatasetKeys, RemainderOfOne
<1>2. s * (n * q + 1) <= k * n /\ k * n < (s + 1) * (n * q + 1)
  BY <1>1 DEF InRange
<1> HIDE DEF q, n
<1>3. /\ s * (n * q + 1) = n * (q * s) + s
      /\ (s + 1) * (n * q + 1) = n * (q * s + q) + (s + 1)
      /\ k * n = n * k /\ n * (q * s + q + 1) = n * (q * s + q) + n
  BY <1>1
<1>4. q * s \in Nat /\ n * (q * s) \in Nat /\ n * (q * s + q) \in Nat /\ n * k \in Nat
  BY <1>1
<1>5. k <= q * s + q
  <2>1. n * k < n * (q * s + q + 1)
    BY <1>1, <1>2, <1>3, <1>4
  <2>2. k < q * s + q + 1
    BY <1>1, <1>4, <2>1, LessByFactor
  <2> QED BY <1>1, <1>4, <2>2
<1>6. q * s <= k - 1
  <2>1. CASE s = 0
    BY <1>1, <2>1
  <2>2. CASE s # 0
    <3>1. n * (q * s) < n * k
      BY <1>1, <1>2, <1>3, <1>4, <2>2
    <3>2. q * s < k
      BY <1>1, <1>4, <3>1, LessByFactor
    <3> QED BY <1>1, <1>4, <3>2
  <2> QED BY <2>1, <2>2
<1>7. (k - 1) \div q = s
  BY <1>1, <1>4, <1>5, <1>6, Quotient
<1>8. k <= q * n
  <2>1. q * n = q * s + q + q * (n - s - 1) /\ q * (n - s - 1) >= 0
    BY <1>1
  <2> QED BY <1>1, <1>4, <1>5, <2>1
<1>9. (k - 1) % q = k - 1 - q * s
  <2>1. k - 1 = (q * ((k - 1) \div q)) + ((k - 1) % q) /\ (k - 1) % q \in 0 .. q - 1
    <3>1. ASSUME NEW a \in Nat, NEW d \in Nat \ {0}
          PROVE  a = (d * (a \div d)) + (a % d) /\ a % d \in 0 .. d - 1
      BY <3>1
    <3> QED BY <1>1, <3>1
  <2> QED BY <1>1, <1>4, <1>7, <2>1
<1> QED BY <1>1, <1>7, <1>8, <1>9 DEF Node, Offset, q, n

\* A server writes the keys of its node in ascending order: a later block
\* starts behind the start of an earlier value and its own value covers what it
\* shares with it.
LEMMA LaterBlockSpares ==
    ASSUME RemainderOfOne, NEW s \in Servers, NEW k \in DatasetKeys, NEW h \in DatasetKeys,
           InRange(s, k), InRange(s, h), k < h
    PROVE  ValueOf(k) \cap BlockOf(h) \subseteq ValueOf(h)
<1>1. Offset(k) = k - 1 - KeysPerNode * s /\ Offset(h) = h - 1 - KeysPerNode * s
  BY RangeIsNode
<1>2. Offset(k) \in Int /\ Offset(h) \in Int /\ Offset(k) < Offset(h)
  <2>1. KeysPerNode * s \in Int
    BY KeysPerNodeType DEF Servers
  <2> QED BY <1>1, <2>1 DEF DatasetKeys
<1> QED BY <1>2, SizesAreSane DEF ValueOf, BlockOf

LEMMA PreloadKeepsLoaded ==
    ASSUME RemainderOfOne, PlacementTypeOK, LoadedKeysStay, NEW s \in Servers, Preload(s)
    PROVE  LoadedKeysStay'
<1> DEFINE j == next[s]
<1>1. j \in DatasetKeys /\ next' = [next EXCEPT ![s] = j + 1] /\ \A u \in Servers : next[u] \in Nat
  BY DEF Preload, PlacementTypeOK
<1>2. ASSUME NEW k \in DatasetKeys, Loaded(k)'
      PROVE  Loaded(k) \/ (k = j /\ InRange(s, j))
  <2>1. PICK u \in Servers : InRange(u, k) /\ next'[u] > k
    BY <1>2 DEF Loaded, InRange
  <2> QED BY <1>1, <2>1 DEF Loaded, PlacementTypeOK, DatasetKeys
<1>3. CASE ~InRange(s, j)
  <2>1. filled' = filled
    BY <1>3 DEF Preload
  <2> QED BY <1>2, <1>3, <2>1 DEF LoadedKeysStay, Readable
<1>4. CASE InRange(s, j)
  <2>1. Node(j) \in Servers /\ Node(j) = s
    BY <1>1, <1>4, RangeIsNode
  <2>2. filled'[s] = (filled[s] \ BlockOf(j)) \union ValueOf(j)
        /\ \A u \in Servers : u # s => filled'[u] = filled[u]
    BY <1>4, <2>1 DEF Preload, WriteCorrectNode, PlacementTypeOK
  <2>3. ASSUME NEW k \in DatasetKeys, Loaded(k)' PROVE ValueOf(k) \subseteq filled'[Node(k)]
    <3>1. CASE k = j
      BY <2>1, <2>2, <3>1
    <3>2. CASE k # j
      <4>1. PICK u \in Servers : InRange(u, k) /\ next[u] > k
        BY <1>2, <2>3, <3>2 DEF Loaded
      <4>2. Node(k) = u /\ ValueOf(k) \subseteq filled[u]
        BY <4>1, RangeIsNode DEF LoadedKeysStay, Readable, Loaded
      <4>3. CASE u = s
        <5>1. k < j
          BY <4>1, <4>3
        <5>2. ValueOf(k) \cap BlockOf(j) \subseteq ValueOf(j)
          BY <1>1, <1>4, <4>1, <4>3, <5>1, LaterBlockSpares
        <5> QED BY <2>2, <4>2, <4>3, <5>2
      <4>4. CASE u # s
        BY <2>2, <4>2, <4>4
      <4> QED BY <4>3, <4>4
    <3> QED BY <3>1, <3>2
  <2> QED BY <2>3 DEF LoadedKeysStay, Readable
<1> QED BY <1>3, <1>4

LEMMA StepKeepsLoaded ==
    ASSUME RemainderOfOne, PlacementTypeOK, LoadedKeysStay, [Next]_vars
    PROVE  LoadedKeysStay'
<1>1. (\E s \in Servers : Preload(s)) \/ UNCHANGED placementVars
  BY DEF Next, Ask, ReceiveSync, Work, Hit, PostRead, Deliver, Drain, Receive, AnswerFor, Answer,
         Nic, NicReads, FreeOp, vars
<1>2. CASE UNCHANGED placementVars
  BY <1>2 DEF placementVars, LoadedKeysStay, Loaded, Readable
<1> QED BY <1>1, <1>2, PreloadKeepsLoaded

\* With one key left over, whichever way the servers' preloads interleave, no
\* write of a block takes bytes from a value written before (write_correct_node
\* and the preload loop of main).
THEOREM PreloadedStays ==
    ASSUME RemainderOfOne
    PROVE  Spec => []LoadedKeysStay
<1>1. Init => LoadedKeysStay
  BY DEF Init, PlacementInit, LoadedKeysStay, Loaded, DatasetKeys
<1>2. TypeOK /\ LoadedKeysStay /\ [Next]_vars => LoadedKeysStay'
  BY StepKeepsLoaded DEF TypeOK
<1> QED BY <1>1, <1>2, TypeCorrect, PTL DEF Spec

-----------------------------------------------------------------------------
(* The bytes of an answer                                                  *)

\* A token says that the read completed exactly while the buffer holds it.
TokensTrue == completed = fresh

\* The gets come after the preload.
AsksAfterPreload == \A g \in Gets : owed[g] # NoKey => Preloaded

BytesInv == TokensTrue /\ AsksAfterPreload /\ RightBytes

\* An answered get is owed its answer, has no other and came after the preload.
LEMMA AnswerFacts ==
    ASSUME IInv, AsksAfterPreload, NEW a \in answers
    PROVE  /\ a.get \in Gets /\ owed[a.get] \in DatasetKeys /\ Preloaded
           /\ \A b \in answers : b.get = a.get => b = a
<1>1. a.get \in Gets
  BY DEF IInv, TypeOK, Answers
<1>2. \A b \in answers : b.get = a.get => b \in AnswersOf(a.get)
  BY DEF AnswersOf
<1>3. owed[a.get] # NoKey /\ \A b \in answers : b.get = a.get => b = a
  BY <1>1, <1>2 DEF IInv, OneEach, OneAnswerFor
<1> QED BY <1>1, <1>3 DEF AsksAfterPreload, IInv, TypeOK

LEMMA TokensStep == TypeOK /\ TokensTrue /\ [Next]_vars => TokensTrue'
<1> SUFFICES ASSUME TypeOK, TokensTrue, [Next]_vars PROVE TokensTrue'
  OBVIOUS
<1>1. ASSUME NEW n \in Servers, NEW r \in pending[n], NicReads(n, r) PROVE TokensTrue'
  BY <1>1 DEF TokensTrue, NicReads, Add
<1>2. ASSUME NEW n \in Servers, FreeOp(n) PROVE TokensTrue'
  BY <1>2 DEF TokensTrue, FreeOp, Drop
<1>3. \/ \E n \in Servers : FreeOp(n) \/ \E r \in pending[n] : NicReads(n, r)
      \/ UNCHANGED <<completed, fresh>>
  BY DEF Next, Ask, ReceiveSync, Work, Hit, PostRead, Deliver, Drain, Receive, AnswerFor, Answer,
         Nic, ringVars, vars
<1> QED BY <1>1, <1>2, <1>3 DEF TokensTrue

LEMMA AsksStep == TypeOK /\ AsksAfterPreload /\ [Next]_vars => AsksAfterPreload'
<1> SUFFICES ASSUME TypeOK, AsksAfterPreload, [Next]_vars PROVE AsksAfterPreload'
  OBVIOUS
<1>1. CASE \E s \in Servers : Preload(s) /\ UNCHANGED <<clientVars, requests, ringVars, answers>>
  BY <1>1 DEF clientVars, Preload, Preloaded, AsksAfterPreload
<1>2. ASSUME NEW c \in Clients, NEW k \in DatasetKeys, NEW g \in Gets, Ask(c, k, g)
      PROVE  AsksAfterPreload'
  BY <1>2 DEF Ask, AsksAfterPreload, Preloaded, placementVars
<1>3. ASSUME NEW c \in Clients, NEW a \in answers, Receive(c, a) PROVE AsksAfterPreload'
  BY <1>3 DEF Receive, AsksAfterPreload, Preloaded, placementVars, TypeOK
<1>4. CASE UNCHANGED <<owed, placementVars>>
  BY <1>4 DEF AsksAfterPreload, Preloaded, placementVars
<1>5. \/ \E s \in Servers : Preload(s) /\ UNCHANGED <<clientVars, requests, ringVars, answers>>
      \/ \E c \in Clients, k \in DatasetKeys, g \in Gets : Ask(c, k, g)
      \/ \E c \in Clients, a \in answers : Receive(c, a)
      \/ UNCHANGED <<owed, placementVars>>
  BY GetsAreSane DEF Next, ReceiveSync, clientVars, Work, Hit, PostRead, Deliver, Drain, AnswerFor,
         Answer, Nic, NicReads, FreeOp, vars
<1> QED BY <1>1, <1>2, <1>3, <1>4, <1>5

\* A step that adds no answer and leaves what the answered gets asked for.
LEMMA BytesUntouched ==
    ASSUME RightBytes, UNCHANGED placementVars, answers' \subseteq answers,
           \A a \in answers' : owed'[a.get] = owed[a.get]
    PROVE  RightBytes'
BY DEF RightBytes, Loaded, placementVars

LEMMA BytesStep ==
    ASSUME IInv, LoadedKeysStay, BytesInv, [Next]_vars
    PROVE  RightBytes'
<1>1. ASSUME NEW s \in Servers, Preload(s), UNCHANGED answers PROVE RightBytes'
  <2>1. answers = {}
    BY <1>1, AnswerFacts DEF BytesInv, Preload, Preloaded
  <2> QED BY <1>1, <2>1 DEF RightBytes
<1>2. ASSUME NEW c \in Clients, NEW k \in DatasetKeys, NEW g \in Gets, Ask(c, k, g)
      PROVE  RightBytes'
  <2>1. \A a \in answers : a.get # g
    BY <1>2, AnswerFacts DEF Ask, Unused, BytesInv, DatasetKeys, NoKey
  <2>2. \A a \in answers : owed'[a.get] = owed[a.get]
    BY <1>2, <2>1, AnswerFacts DEF Ask, BytesInv, IInv, TypeOK
  <2> QED BY <1>2, <2>2, BytesUntouched DEF Ask, BytesInv
<1>3. ASSUME NEW c \in Clients, NEW a \in answers, Receive(c, a) PROVE RightBytes'
  <2>1. \A b \in answers' : b.get # a.get /\ b \in answers
    BY <1>3, AnswerFacts DEF Receive, BytesInv
  <2>2. \A b \in answers' : owed'[b.get] = owed[b.get]
    BY <1>3, <2>1, AnswerFacts DEF Receive, BytesInv, IInv, TypeOK
  <2> QED BY <1>3, <2>1, <2>2, BytesUntouched DEF Receive, BytesInv
<1>4. ASSUME NEW g \in Gets, Hit(g) PROVE RightBytes'
  <2>1. Answered(g, owed[g], "wire").get = g /\ Answered(g, owed[g], "wire").got = owed[g]
    BY DEF Answered
  <2> QED BY <1>4, <2>1 DEF Hit, RightBytes, BytesInv, Loaded, placementVars, clientVars
<1>5. ASSUME NEW a \in answers, Drain(a) PROVE RightBytes'
  <2>1. [a EXCEPT !.at = "wire"].get = a.get /\ [a EXCEPT !.at = "wire"].got = a.got
    BY DEF IInv, TypeOK, Answers
  <2> QED BY <1>5, <2>1 DEF Drain, RightBytes, BytesInv, Loaded, placementVars, clientVars
<1>6. ASSUME NEW n \in Servers, NEW r \in pending[n], Answer(n, r) PROVE RightBytes'
  <2> DEFINE a == Answered(r.get, Bytes(n, r), "queue")
  <2>1. r.key = owed[r.get] /\ r.key \in DatasetKeys /\ r.op \in fresh[n]
    BY <1>6 DEF Answer, BytesInv, TokensTrue, IInv, ReadsPlaced, TypeOK, PendingOps
  <2>2. a.get = r.get /\ a.got = Bytes(n, r)
    BY DEF Answered
  <2>3. Loaded(owed[r.get]) => a.got = owed[r.get]
    BY <2>1, <2>2 DEF LoadedKeysStay, Bytes
  <2>4. answers' = answers \union {a} /\ UNCHANGED <<placementVars, owed>>
    BY <1>6 DEF Answer, clientVars
  <2> HIDE DEF a
  <2> QED BY <2>2, <2>3, <2>4 DEF RightBytes, BytesInv, Loaded, placementVars
<1>7. CASE UNCHANGED <<placementVars, owed, answers>>
  BY <1>7, BytesUntouched DEF BytesInv
<1>8. \/ \E s \in Servers : Preload(s) /\ UNCHANGED answers
      \/ \E c \in Clients, k \in DatasetKeys, g \in Gets : Ask(c, k, g)
      \/ \E c \in Clients, a \in answers : Receive(c, a)
      \/ \E g \in Gets : Hit(g)
      \/ \E a \in answers : Drain(a)
      \/ \E n \in Servers : \E r \in pending[n] : Answer(n, r)
      \/ UNCHANGED <<placementVars, owed, answers>>
  BY GetsAreSane DEF Next, ReceiveSync, clientVars, Work, PostRead, Deliver, AnswerFor, Nic, NicReads,
         FreeOp, vars
<1> QED BY <1>1, <1>2, <1>3, <1>4, <1>5, <1>6, <1>7, <1>8

LEMMA BytesAreRight ==
    ASSUME RemainderOfOne
    PROVE  Spec => []BytesInv
<1>1. Init => BytesInv
  BY DEF Init, BytesInv, TokensTrue, AsksAfterPreload, RightBytes
<1>2. IInv /\ LoadedKeysStay /\ BytesInv /\ [Next]_vars => BytesInv'
  BY TokensStep, AsksStep, BytesStep DEF BytesInv, IInv
<1> QED BY <1>1, <1>2, PreloadedStays, Invariance, PTL DEF Spec

\* With one key left over a get is answered with the value of the key it asked
\* for, unless nobody ever wrote that key: the token of a reused operation never
\* speaks for an earlier read (background_work), and nothing that was preloaded
\* is overwritten.
THEOREM AnswersAreRight ==
    ASSUME RemainderOfOne
    PROVE  Spec => []RightBytes
<1>1. BytesInv => RightBytes
  BY DEF BytesInv
<1> QED BY <1>1, BytesAreRight, PTL

-----------------------------------------------------------------------------
(* The keys somebody preloads                                              *)

\* With one key left over each key but the last is in the range of its node's
\* server.
LEMMA NodeLoads ==
    ASSUME RemainderOfOne, NEW k \in DatasetKeys, k # NumKeys
    PROVE  Node(k) \in Servers /\ InRange(Node(k), k)
<1> DEFINE q == KeysPerNode
           n == NumNodes
           s == Node(k)
<1>1. /\ q \in Nat \ {0} /\ n \in Nat \ {0} /\ s \in Nat /\ s < n /\ k \in Nat /\ k > 0
      /\ NumKeys = n * q + 1 /\ k <= n * q /\ s \in Servers
  <2>1. n * q \in Nat
    BY KeysPerNodeType, SizesAreSane
  <2> QED BY <2>1, KeysPerNodeType, SizesAreSane, NodeIsServer
          DEF Servers, DatasetKeys, RemainderOfOne
<1>2. s = (k - 1) \div q
  <2>1. ~(k > q * n)
    <3>1. q * n = n * q
      BY <1>1
    <3> QED BY <1>1, <3>1
  <2> QED BY <2>1 DEF Node
<1> HIDE DEF q, n, s
<1>3. q * s <= k - 1 /\ k - 1 < q * s + q
  <2>1. ASSUME NEW a \in Nat, NEW h \in Nat \ {0}
        PROVE  h * (a \div h) <= a /\ a < h * (a \div h) + h
    BY <2>1
  <2> QED BY <1>1, <1>2, <2>1
<1>4. q * s \in Nat /\ n * (q * s) \in Nat /\ n * k \in Nat /\ n * (q * s + q) \in Nat
  BY <1>1
<1>5. n * (q * s) + n <= n * k /\ n * k <= n * (q * s + q)
  <2>1. ASSUME NEW a \in Nat, NEW b \in Nat, NEW h \in Nat, a <= b PROVE h * a <= h * b
    <3>1. h * b = h * a + h * (b - a) /\ h * (b - a) >= 0 /\ h * a \in Nat /\ h * b \in Nat
      BY <2>1
    <3> QED BY <3>1
  <2>2. q * s + 1 <= k /\ k <= q * s + q
    BY <1>1, <1>3, <1>4
  <2>3. n * (q * s + 1) <= n * k /\ n * k <= n * (q * s + q)
    BY <1>1, <1>4, <2>1, <2>2
  <2>4. n * (q * s + 1) = n * (q * s) + n
    BY <1>1, <1>4
  <2> QED BY <2>3, <2>4
<1>6. /\ s * (n * q + 1) = n * (q * s) + s
      /\ (s + 1) * (n * q + 1) = n * (q * s + q) + (s + 1)
      /\ k * n = n * k
  BY <1>1
<1>7. s * NumKeys <= k * n /\ k * n < (s + 1) * NumKeys
  BY <1>1, <1>4, <1>5, <1>6
<1> QED BY <1>1, <1>7 DEF InRange, n, s

\* With one key left over every get of a key other than the last one is
\* answered with its value: the loaded keys of RightBytes are then all of them.
THEOREM AllButLastServed ==
    ASSUME RemainderOfOne
    PROVE  Spec => [](\A a \in answers :
                         owed[a.get] # NumKeys => a.got = owed[a.get])
<1> DEFINE Served == \A a \in answers :
                        owed[a.get] # NumKeys => a.got = owed[a.get]
<1>1. ASSUME IInv, BytesInv PROVE Served
  <2> SUFFICES ASSUME NEW a \in answers, owed[a.get] # NumKeys
               PROVE  a.got = owed[a.get]
    OBVIOUS
  <2> DEFINE k == owed[a.get]
             s == Node(k)
  <2>1. k \in DatasetKeys /\ Preloaded
    BY <1>1, AnswerFacts DEF BytesInv
  <2>2. s \in Servers /\ InRange(s, k)
    BY <2>1, NodeLoads
  <2>3. next[s] > k
    BY <1>1, <2>1, <2>2, SizesAreSane DEF Preloaded, IInv, TypeOK, PlacementTypeOK, DatasetKeys
  <2>4. Loaded(k)
    BY <2>2, <2>3 DEF Loaded
  <2> QED BY <1>1, <2>4 DEF BytesInv, RightBytes
<1>2. Spec => []BytesInv
  BY BytesAreRight
<1> QED BY <1>1, <1>2, Invariance, PTL

=============================================================================
