----------------------- MODULE CacheIndexLogs_proofs -----------------------
(***************************************************************************)
(* Proofs about CacheIndexLogs, for any number of servers, any length of   *)
(* the log, any keys, slots and threads.                                   *)
(***************************************************************************)
EXTENDS CacheIndexLogs, FiniteSetTheorems, TLAPS

-----------------------------------------------------------------------------
(* The server a loop visits next                                           *)

LEMMA MinOfNaturals ==
    ASSUME NEW S \in SUBSET Nat, S # {}
    PROVE  Min(S) \in S /\ \A y \in S : Min(S) <= y
<1> DEFINE R == {p \in Nat \X Nat : p[1] < p[2]}
<1>1. IsWellFoundedOn(R, Nat)
  BY NatLessThanWellFounded DEF OpToRel
<1>2. PICK x \in S : \A y \in S : <<y, x>> \notin R
  <2> HIDE DEF R
  <2> QED BY <1>1, WFMin
<1>3. \A y \in S : x <= y
  <2>1. ASSUME NEW y \in S, y < x PROVE FALSE
    <3>1. <<y, x>> \in Nat \X Nat /\ <<y, x>>[1] < <<y, x>>[2]
      BY <2>1
    <3>2. <<y, x>> \in R
      BY <3>1, Zenon
    <3> QED BY <1>2, <3>2
  <2> QED BY <2>1
<1> QED BY <1>3 DEF Min

LEMMA ServersAreFinite ==
    ASSUME NEW m \in Servers
    PROVE  /\ Others(m) \subseteq Servers /\ Others(m) \subseteq Nat /\ Others(m) # {}
           /\ IsFiniteSet(Others(m)) /\ Cardinality(Others(m)) = N-1
<1>1. N \in Nat /\ N > 1
  BY LogAssumption
<1>2. IsFiniteSet(Servers) /\ Cardinality(Servers) = N
  BY <1>1, FS_Interval DEF Servers
<1>3. IsFiniteSet(Others(m)) /\ Cardinality(Others(m)) = N-1
  BY <1>1, <1>2, FS_RemoveElement DEF Others
<1>4. Others(m) # {}
  BY <1>1, <1>3, FS_EmptySet
<1> QED BY <1>1, <1>3, <1>4 DEF Others, Servers

\* The worker goes on to one of the other servers.
LEMMA FirstServerIsOther ==
    ASSUME NEW m \in Servers, NEW from
    PROVE  FirstServer(m, from) \in Others(m)
<1> DEFINE later == {o \in Others(m) : o >= from}
           S == IF later = {} THEN Others(m) ELSE later
<1>1. S \subseteq Others(m) /\ S \in SUBSET Nat /\ S # {}
  BY ServersAreFinite
<1>2. FirstServer(m, from) = Min(S)
  BY DEF FirstServer
<1> HIDE DEF S
<1> QED BY <1>1, <1>2, MinOfNaturals

LEMMA NextScanTyped ==
    ASSUME NEW m \in Servers, NEW s \in Others(m) \X Positions
    PROVE  NextScan(m, s) \in Others(m) \X Positions
<1>1. M \in Nat \ {0} /\ s[1] \in Others(m) /\ s[2] \in 0 .. M-1
  BY LogAssumption DEF Positions
<1>2. FirstServer(m, s[1] + 1) \in Others(m)
  BY FirstServerIsOther
<1> QED BY <1>1, <1>2 DEF NextScan, Positions

-----------------------------------------------------------------------------
(* The inductive invariant                                                 *)

Shapes == DOMAIN todo = Threads /\ DOMAIN scan = Servers

\* The loop of append_entry at position 0 counts each server once: what it has
\* counted and what is left of the loop are no more than the other servers.
\* Between the read of a server's entry and the look at it that server is left.
LoopCounts == \A t \in Threads : pc[t] \in {"check", "examine"} =>
    /\ ready[t] + Cardinality(todo[t]) <= N-1
    /\ pc[t] = "examine" => todo[t] # {}

IInv == TypeOK /\ Shapes /\ LoopCounts

LEMMA InitIInv == Init => IInv
<1> SUFFICES ASSUME Init PROVE IInv
  OBVIOUS
<1>1. N \in Nat /\ N > 1 /\ M \in Nat /\ M > 0 /\ MaxOps \in Nat
  BY LogAssumption
<1>2. EmptyEntry \in Entry /\ Invalid \in Pointer
  BY DEF EmptyEntry, Entry, Pointer
<1>3. 0 \in Positions
  BY <1>1 DEF Positions
<1>4. \A m \in Servers : scan[m] \in Others(m) \X Positions
  BY <1>3, FirstServerIsOther DEF Init
<1>5. TypeOK
  BY <1>1, <1>2, <1>3, <1>4 DEF Init, TypeOK
<1> QED BY <1>5 DEF Init, IInv, Shapes, LoopCounts

LEMMA StutterIInv == IInv /\ UNCHANGED vars => IInv'
BY DEF IInv, TypeOK, Shapes, LoopCounts, vars, memory, thread, worker

-----------------------------------------------------------------------------
(* A thread                                                                *)

LEMMA CacheChangesKeeps ==
    ASSUME IInv, NEW t \in Threads, NEW k \in Keys, NEW p \in Pointer, CacheChanges(t, k, p)
    PROVE  IInv'
<1>1. Home[t] \in Servers
  BY LogAssumption
<1>2. index' \in [Servers -> [Servers -> [Keys \union {Invalid} -> Pointer]]]
  BY <1>1 DEF IInv, TypeOK, CacheChanges
<1>3. arg' \in [Threads -> Entry]
  BY DEF IInv, TypeOK, CacheChanges, Entry
<1>4. ops' \in [Threads -> 0 .. MaxOps]
  <2>1. ops[t] + 1 \in 0 .. MaxOps
    BY LogAssumption DEF IInv, TypeOK, CacheChanges
  <2> QED BY <2>1 DEF IInv, TypeOK, CacheChanges
<1>5. /\ pc' = [pc EXCEPT ![t] = "callback"] /\ pc[t] = "idle"
      /\ UNCHANGED <<log, last, logIndex, pos, todo, ready, scan, got>>
  BY DEF CacheChanges, worker
<1>6. TypeOK'
  BY <1>2, <1>3, <1>4, <1>5 DEF IInv, TypeOK
<1> QED BY <1>5, <1>6 DEF IInv, TypeOK, Shapes, LoopCounts

LEMMA AppendEntryKKeeps ==
    ASSUME IInv, NEW t \in Threads, AppendEntryK(t)
    PROVE  IInv'
<1>1. index[Home[t]][Home[t]][arg[t].key] \in Pointer
  BY LogAssumption DEF IInv, TypeOK, Entry
<1>2. arg' \in [Threads -> Entry]
  <2> DEFINE e == [arg[t] EXCEPT !.ptr = index[Home[t]][Home[t]][arg[t].key], !.filled = TRUE]
  <2>1. arg' = [arg EXCEPT ![t] = e]
    BY DEF AppendEntryK
  <2>2. e \in Entry
    <3>1. arg[t] \in Entry
      BY DEF IInv, TypeOK
    <3> QED BY <1>1, <3>1 DEF Entry
  <2> HIDE DEF e
  <2> QED BY <2>1, <2>2 DEF IInv, TypeOK
<1>3. /\ pc' = [pc EXCEPT ![t] = "reserve"] /\ pc[t] = "callback"
      /\ UNCHANGED <<index, log, last, logIndex, pos, todo, ready, ops, scan, got>>
  BY DEF AppendEntryK, worker, memory
<1>4. TypeOK'
  BY <1>2, <1>3 DEF IInv, TypeOK
<1> QED BY <1>3, <1>4 DEF IInv, TypeOK, Shapes, LoopCounts

LEMMA ReserveKeeps ==
    ASSUME IInv, NEW t \in Threads, Reserve(t)
    PROVE  IInv'
<1>1. Home[t] \in Servers /\ M \in Nat \ {0}
  BY LogAssumption
<1>2. logIndex[Home[t]] \in Nat
  BY <1>1 DEF IInv, TypeOK
<1>3. logIndex[Home[t]] % M \in Positions
  BY <1>1, <1>2 DEF Positions
<1>4. pos' \in [Threads -> Positions] /\ logIndex' \in [Servers -> Nat]
  BY <1>1, <1>2, <1>3 DEF IInv, TypeOK, Reserve
<1>5. /\ pc' = [pc EXCEPT ![t] = "store"] /\ pc[t] = "reserve"
      /\ UNCHANGED <<index, log, last, arg, todo, ready, ops, scan, got>>
  BY DEF Reserve, worker
<1>6. TypeOK'
  BY <1>4, <1>5 DEF IInv, TypeOK
<1> QED BY <1>5, <1>6 DEF IInv, TypeOK, Shapes, LoopCounts

LEMMA StoreKeeps ==
    ASSUME IInv, NEW t \in Threads, Store(t)
    PROVE  IInv'
<1>1. Home[t] \in Servers /\ N \in Nat /\ N > 1
  BY LogAssumption
<1>2. log' \in [Servers -> [Servers -> [Positions -> Entry]]]
  BY <1>1 DEF IInv, TypeOK, Store
<1>3. /\ ready' = [ready EXCEPT ![t] = 0] /\ pc[t] = "store"
      /\ UNCHANGED <<index, last, logIndex, arg, pos, ops, scan, got>>
  BY DEF Store, worker
<1>4. \/ /\ pc' = [pc EXCEPT ![t] = "check"] /\ todo' = [todo EXCEPT ![t] = Others(Home[t])]
      \/ /\ pc' = [pc EXCEPT ![t] = "idle"] /\ todo' = todo
  BY DEF Store
<1>5. ready' \in [Threads -> 0 .. N-1]
  BY <1>1, <1>3 DEF IInv, TypeOK
<1>6. TypeOK'
  <2>1. \A u \in Threads : todo'[u] \subseteq (IF pc'[u] = "publish" THEN Others(Home[u]) \X Positions
                                                                  ELSE Others(Home[u]))
    BY <1>3, <1>4 DEF IInv, TypeOK, Shapes
  <2>2. pc' \in [Threads -> {"idle", "callback", "reserve", "store", "check", "examine", "publish"}]
    BY <1>4 DEF IInv, TypeOK
  <2> QED BY <1>2, <1>3, <1>5, <2>1, <2>2 DEF IInv, TypeOK
<1>7. LoopCounts'
  <2>1. ASSUME NEW u \in Threads, u # t, pc'[u] \in {"check", "examine"}
        PROVE  pc[u] = pc'[u] /\ ready'[u] = ready[u] /\ todo'[u] = todo[u]
    BY <1>3, <1>4, <2>1 DEF IInv, TypeOK, Shapes
  <2>2. pc'[t] \in {"check", "examine"} =>
            pc'[t] = "check" /\ ready'[t] = 0 /\ todo'[t] = Others(Home[t])
    BY <1>3, <1>4 DEF IInv, TypeOK, Shapes
  <2>3. Cardinality(Others(Home[t])) = N-1
    BY <1>1, ServersAreFinite
  <2>4. ASSUME NEW u \in Threads, pc'[u] \in {"check", "examine"}
        PROVE  /\ ready'[u] + Cardinality(todo'[u]) <= N-1
               /\ pc'[u] = "examine" => todo'[u] # {}
    <3>1. CASE u = t
      BY <1>1, <2>2, <2>3, <2>4, <3>1
    <3>2. CASE u # t
      BY <2>1, <2>4, <3>2 DEF IInv, LoopCounts
    <3> QED BY <3>1, <3>2
  <2> QED BY <2>4 DEF LoopCounts
<1>8. Shapes'
  BY <1>3, <1>4 DEF IInv, Shapes
<1> QED BY <1>6, <1>7, <1>8 DEF IInv

LEMMA CheckReadKeeps ==
    ASSUME IInv, NEW t \in Threads, CheckRead(t)
    PROVE  IInv'
<1>1. Home[t] \in Servers /\ 0 \in Positions
  BY LogAssumption DEF Positions
<1>2. Min(todo[t]) \in Servers
  <2>1. todo[t] # {} /\ todo[t] \subseteq Others(Home[t])
    BY DEF CheckRead, IInv, TypeOK
  <2> QED BY <1>1, <2>1, MinOfNaturals, ServersAreFinite
<1>3. last' \in [Servers -> BOOLEAN]
  <2>1. log[Home[t]][Min(todo[t])][0].filled \in BOOLEAN
    BY <1>1, <1>2 DEF IInv, TypeOK, Entry
  <2> QED BY <2>1 DEF CheckRead, IInv, TypeOK
<1>4. /\ pc' = [pc EXCEPT ![t] = "examine"] /\ pc[t] = "check" /\ todo[t] # {}
      /\ UNCHANGED <<index, log, logIndex, arg, pos, todo, ready, ops, scan, got>>
  BY DEF CheckRead, worker
<1>5. TypeOK'
  BY <1>3, <1>4 DEF IInv, TypeOK
<1> QED BY <1>4, <1>5 DEF IInv, TypeOK, Shapes, LoopCounts

LEMMA ExamineKeeps ==
    ASSUME IInv, NEW t \in Threads, Examine(t)
    PROVE  IInv'
<1> DEFINE left == todo[t] \ {Min(todo[t])}
           counted == IF last[Home[t]] THEN ready[t] ELSE ready[t] + 1
<1>1. Home[t] \in Servers /\ N \in Nat /\ N > 1 /\ ready[t] \in 0 .. N-1
  <2>1. ready \in [Threads -> 0 .. N-1]
    BY DEF IInv, TypeOK
  <2> QED BY <2>1, LogAssumption
<1>2. todo[t] # {} /\ todo[t] \subseteq Others(Home[t]) /\ ready[t] + Cardinality(todo[t]) <= N-1
  BY DEF Examine, IInv, TypeOK, LoopCounts
<1>3. IsFiniteSet(todo[t]) /\ Min(todo[t]) \in todo[t]
  BY <1>1, <1>2, MinOfNaturals, ServersAreFinite, FS_Subset
<1>4. Cardinality(todo[t]) \in Nat /\ Cardinality(left) \in Nat
      /\ Cardinality(left) = Cardinality(todo[t]) - 1
  BY <1>3, FS_RemoveElement, FS_CardinalityType
<1>5. counted \in 0 .. N-1 /\ counted + Cardinality(left) <= N-1
  <2> HIDE DEF left
  <2> QED BY <1>1, <1>2, <1>4
<1>6. /\ pc' = [pc EXCEPT ![t] = "check"] /\ pc[t] = "examine"
      /\ ready' = [ready EXCEPT ![t] = counted] /\ todo' = [todo EXCEPT ![t] = left]
      /\ UNCHANGED <<index, log, last, logIndex, arg, pos, ops, scan, got>>
  BY DEF Examine, worker, memory
<1>7. left \subseteq Others(Home[t])
  BY <1>2
<1> HIDE DEF left, counted
<1>8. TypeOK'
  BY <1>5, <1>6, <1>7 DEF IInv, TypeOK, Shapes
<1>9. LoopCounts' /\ Shapes'
  BY <1>5, <1>6 DEF IInv, TypeOK, Shapes, LoopCounts
<1> QED BY <1>8, <1>9 DEF IInv

LEMMA RetryKeeps ==
    ASSUME IInv, NEW t \in Threads, Retry(t)
    PROVE  IInv'
<1>1. Home[t] \in Servers /\ N \in Nat /\ N > 1
  BY LogAssumption
<1>2. /\ ready' = [ready EXCEPT ![t] = 0] /\ pc[t] = "check"
      /\ todo' = [todo EXCEPT ![t] = Others(Home[t])]
      /\ UNCHANGED <<index, log, last, logIndex, pc, arg, pos, ops, scan, got>>
  BY DEF Retry, worker, memory
<1>3. ready' \in [Threads -> 0 .. N-1]
  BY <1>1, <1>2 DEF IInv, TypeOK
<1>4. TypeOK'
  BY <1>2, <1>3 DEF IInv, TypeOK, Shapes
<1>5. LoopCounts'
  <2>1. ready'[t] = 0 /\ todo'[t] = Others(Home[t]) /\ pc'[t] = "check"
    BY <1>2 DEF IInv, TypeOK, Shapes
  <2>2. \A u \in Threads : u # t => ready'[u] = ready[u] /\ todo'[u] = todo[u] /\ pc'[u] = pc[u]
    BY <1>2 DEF IInv, TypeOK, Shapes
  <2>3. Cardinality(Others(Home[t])) = N-1
    BY <1>1, ServersAreFinite
  <2>4. ASSUME NEW u \in Threads, pc'[u] \in {"check", "examine"}
        PROVE  /\ ready'[u] + Cardinality(todo'[u]) <= N-1
               /\ pc'[u] = "examine" => todo'[u] # {}
    <3>1. CASE u = t
      BY <1>1, <2>1, <2>3, <3>1
    <3>2. CASE u # t
      BY <2>2, <2>4, <3>2 DEF IInv, LoopCounts
    <3> QED BY <3>1, <3>2
  <2> QED BY <2>4 DEF LoopCounts
<1>6. Shapes'
  BY <1>2 DEF IInv, Shapes
<1> QED BY <1>4, <1>5, <1>6 DEF IInv

LEMMA StartPublishKeeps ==
    ASSUME IInv, NEW t \in Threads, StartPublish(t)
    PROVE  IInv'
<1>1. /\ pc' = [pc EXCEPT ![t] = "publish"]
      /\ last' = [last EXCEPT ![Home[t]] = TRUE]
      /\ todo' = [todo EXCEPT ![t] = Others(Home[t]) \X Positions]
      /\ UNCHANGED <<index, log, logIndex, arg, pos, ready, ops, scan, got>>
  BY DEF StartPublish, worker
<1>2. last' \in [Servers -> BOOLEAN]
  BY <1>1 DEF IInv, TypeOK
<1>3. TypeOK'
  BY <1>1, <1>2 DEF IInv, TypeOK, Shapes
<1> QED BY <1>1, <1>3 DEF IInv, TypeOK, Shapes, LoopCounts

\* A torn copy of entries is an entry.
LEMMA SeenIsEntry ==
    ASSUME IInv, NEW m \in Servers, NEW j \in Positions
    PROVE  Seen(m, j) \subseteq Entry
<1> DEFINE es == {log[m][m][j]} \union
              {arg[t] : t \in {u \in Threads : Home[u] = m /\ pc[u] = "store" /\ pos[u] = j}}
<1>1. es \subseteq Entry
  BY DEF IInv, TypeOK
<1>2. \A e \in es : e.key \in Keys \union {Invalid} /\ e.ptr \in Pointer /\ e.filled \in BOOLEAN
  BY <1>1 DEF Entry
<1>3. Seen(m, j) = [key : {e.key : e \in es}, ptr : {e.ptr : e \in es}, filled : {e.filled : e \in es}]
  BY DEF Seen
<1> HIDE DEF es
<1> QED BY <1>2, <1>3 DEF Entry

LEMMA PublishEntryKeeps ==
    ASSUME IInv, NEW t \in Threads, NEW i \in Servers, NEW j \in Positions, PublishEntry(t, i, j)
    PROVE  IInv'
<1>1. Home[t] \in Servers
  BY LogAssumption
<1>2. log' \in [Servers -> [Servers -> [Positions -> Entry]]]
  <2>1. PICK e \in Seen(Home[t], j) : log' = [log EXCEPT ![i][Home[t]][j] = e]
    BY DEF PublishEntry
  <2>2. e \in Entry
    BY <1>1, SeenIsEntry
  <2> QED BY <1>1, <2>1, <2>2 DEF IInv, TypeOK
<1>3. /\ todo' = [todo EXCEPT ![t] = @ \ {<<i, j>>}] /\ pc[t] = "publish"
      /\ UNCHANGED <<index, last, logIndex, pc, arg, pos, ready, ops, scan, got>>
  BY DEF PublishEntry, worker
<1>4. TypeOK'
  BY <1>2, <1>3 DEF IInv, TypeOK, Shapes
<1> QED BY <1>3, <1>4 DEF IInv, TypeOK, Shapes, LoopCounts

LEMMA EndPublishKeeps ==
    ASSUME IInv, NEW t \in Threads, EndPublish(t)
    PROVE  IInv'
BY DEF IInv, TypeOK, Shapes, LoopCounts, EndPublish, memory, worker

-----------------------------------------------------------------------------
(* The background worker                                                   *)

LEMMA WorkerKeeps ==
    ASSUME IInv, NEW m \in Servers, Worker(m)
    PROVE  IInv'
<1>1. scan[m] \in Others(m) \X Positions /\ scan[m][1] \in Servers /\ scan[m][2] \in Positions
  BY ServersAreFinite DEF IInv, TypeOK
<1>2. NextScan(m, scan[m]) \in Others(m) \X Positions
  BY <1>1, NextScanTyped
<1>3. CASE Skip(m)
  BY <1>2, <1>3 DEF IInv, TypeOK, Shapes, LoopCounts, Skip, memory, thread
<1>4. CASE Load(m)
  <2>1. log[m][scan[m][1]][scan[m][2]] \in Entry
    BY <1>1 DEF IInv, TypeOK
  <2>2. /\ got' = [got EXCEPT ![m] = log[m][scan[m][1]][scan[m][2]]]
        /\ UNCHANGED <<index, log, last, logIndex, pc, arg, pos, todo, ready, ops, scan>>
    BY <1>4 DEF Load, memory, thread
  <2> QED BY <2>1, <2>2 DEF IInv, TypeOK, Shapes, LoopCounts
<1>5. CASE Apply(m)
  <2>1. EmptyEntry \in Entry
    BY DEF EmptyEntry, Entry, Pointer
  <2>2. log' \in [Servers -> [Servers -> [Positions -> Entry]]]
    <3> DEFINE e == [log[m][scan[m][1]][scan[m][2]] EXCEPT !.filled = FALSE]
    <3>1. e \in Entry
      <4>1. log[m][scan[m][1]][scan[m][2]] \in Entry
        BY <1>1 DEF IInv, TypeOK
      <4> QED BY <4>1 DEF Entry
    <3>2. log' = [log EXCEPT ![m][scan[m][1]][scan[m][2]] = e]
      BY <1>5 DEF Apply
    <3> HIDE DEF e
    <3> QED BY <1>1, <3>1, <3>2 DEF IInv, TypeOK
  <2>3. index' \in [Servers -> [Servers -> [Keys \union {Invalid} -> Pointer]]]
    <3>1. CASE got[m].key = Invalid
      BY <1>5, <3>1 DEF IInv, TypeOK, Apply
    <3>2. CASE got[m].key # Invalid
      <4>1. PICK p \in {got[m].ptr, log[m][scan[m][1]][scan[m][2]].ptr} :
                index' = [index EXCEPT ![m][scan[m][1]][got[m].key] = p]
        BY <1>5, <3>2 DEF Apply
      <4>2. p \in Pointer /\ got[m].key \in Keys \union {Invalid}
        BY <1>1, <4>1 DEF IInv, TypeOK, Entry
      <4> QED BY <1>1, <4>1, <4>2 DEF IInv, TypeOK
    <3> QED BY <3>1, <3>2
  <2>4. /\ got' = [got EXCEPT ![m] = EmptyEntry] /\ scan' = [scan EXCEPT ![m] = NextScan(m, scan[m])]
        /\ UNCHANGED <<last, logIndex, pc, arg, pos, todo, ready, ops>>
    BY <1>5 DEF Apply, thread
  <2>5. TypeOK'
    BY <1>2, <2>1, <2>2, <2>3, <2>4 DEF IInv, TypeOK, Shapes
  <2> QED BY <2>4, <2>5 DEF IInv, Shapes, LoopCounts
<1> QED BY <1>3, <1>4, <1>5 DEF Worker

-----------------------------------------------------------------------------
LEMMA StepKeepsIInv == IInv /\ [Next]_vars => IInv'
<1> SUFFICES ASSUME IInv, Next PROVE IInv'
  BY StutterIInv
<1>1. ASSUME NEW t \in Threads, Append(t) PROVE IInv'
  BY <1>1, AppendEntryKKeeps, ReserveKeeps, StoreKeeps, CheckReadKeeps, ExamineKeeps, RetryKeeps,
     StartPublishKeeps, PublishEntryKeeps, EndPublishKeeps DEF Append
<1> QED BY <1>1, CacheChangesKeeps, WorkerKeeps DEF Next

LEMMA Invariance == Spec => []IInv
BY InitIInv, StepKeepsIInv, PTL DEF Spec

\* All variables keep their types: every copy of an index or a log holds
\* pointers and entries, torn ones among them, the position an append reserves
\* lies in the log, machines_ready never counts more than the other servers,
\* and the worker looks at other servers' logs only.
THEOREM TypeCorrect == Spec => []TypeOK
<1>1. IInv => TypeOK
  BY DEF IInv
<1> QED BY <1>1, Invariance, PTL

\* The worker never writes outside the table of an index: the memory behind the
\* table changes only through the entry's key, an own write has a key of the
\* cache, and the guard of Apply stops an entry without one.
THEOREM WorkerStaysInTable == Spec => []NoWildWrite
<1>1. Init => NoWildWrite
  BY DEF Init, NoWildWrite
<1>2. IInv /\ NoWildWrite /\ [Next]_vars => NoWildWrite'
  <2> SUFFICES ASSUME IInv, NoWildWrite, [Next]_vars PROVE NoWildWrite'
    OBVIOUS
  <2>1. ASSUME NEW t \in Threads, NEW k \in Keys, NEW p \in Pointer, CacheChanges(t, k, p)
        PROVE  NoWildWrite'
    <3>1. k # Invalid
      BY LogAssumption
    <3> QED BY <2>1, <3>1 DEF CacheChanges, NoWildWrite, IInv, TypeOK
  <2>2. ASSUME NEW m \in Servers, Apply(m) PROVE NoWildWrite'
    <3>1. got[m].key # Invalid =>
            \E p \in {got[m].ptr, log[m][scan[m][1]][scan[m][2]].ptr} :
                index' = [index EXCEPT ![m][scan[m][1]][got[m].key] = p]
      BY <2>2 DEF Apply
    <3>2. got[m].key = Invalid => index' = index
      BY <2>2 DEF Apply
    <3>3. CASE got[m].key = Invalid
      BY <3>2, <3>3 DEF NoWildWrite
    <3>4. CASE got[m].key # Invalid
      <4>1. PICK p : index' = [index EXCEPT ![m][scan[m][1]][got[m].key] = p]
        BY <3>1, <3>4
      <4>2. \A n, o \in Servers : index'[n][o][Invalid] = index[n][o][Invalid]
        BY <3>4, <4>1 DEF IInv, TypeOK
      <4> QED BY <4>2 DEF NoWildWrite
    <3> QED BY <3>3, <3>4
  <2>3. ASSUME NEW t \in Threads, Append(t) PROVE index' = index
    BY <2>3 DEF Append, AppendEntryK, Reserve, Store, CheckRead, Examine, Retry, StartPublish,
               PublishEntry, EndPublish, memory
  <2>4. ASSUME NEW m \in Servers, Skip(m) \/ Load(m) PROVE index' = index
    BY <2>4 DEF Skip, Load, memory
  <2>5. CASE UNCHANGED vars
    BY <2>5 DEF vars, memory, NoWildWrite
  <2>6. index' = index => NoWildWrite'
    BY DEF NoWildWrite
  <2> QED BY <2>1, <2>2, <2>3, <2>4, <2>5, <2>6 DEF Next, Worker
<1> QED BY <1>1, <1>2, Invariance, PTL DEF Spec

=============================================================================
