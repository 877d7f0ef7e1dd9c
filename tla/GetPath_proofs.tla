--------------------------- MODULE GetPath_proofs ---------------------------
(***************************************************************************)
(* Proofs about GetPath, for any clients, keys, servers and caches, any    *)
(* number of sync requests between leaders, and any torn reads.            *)
(*                                                                         *)
(* Owed: every handler and every callback moves one task on and changes    *)
(* neither its get nor its key, so MoveKeepsTasks covers them all; only    *)
(* Ask creates a task and only Receive removes one.  What a client is owed *)
(* is counted: Ask adds one to it, Receive takes one away, and ReceiveSync *)
(* ends a call without taking any.  Own: a value is only ever stored or    *)
(* sent under its own key or under the one whose read brought it.          *)
(* Together they give the refinement.                                      *)
(*                                                                         *)
(* A response of its own, sent before the read has come back, breaks the   *)
(* debts and carries no value, so these results assume NoStray.  Types,    *)
(* and what is stored, need no such assumption.                            *)
(***************************************************************************)
EXTENDS GetPath, FiniteSetTheorems, TLAPS

\* No response is sent before the read's: see StrayResponses.
NoStray == OneSided => RdmaAsync

\* The second half of OwedOnce: what a client is owed in all.
CountOf(c) ==
    /\ Cardinality(Outstanding(c)) = taken[c] + (IF want[c] = Nothing THEN 0 ELSE 1)
    /\ taken[c] = 0 => \A g \in Outstanding(c) : owed[g] = want[c]
    /\ c \notin Leaders => taken[c] = 0

Owed == TypeOK /\ OneTaskEach /\ \A c \in Clients : CountOf(c)

IInv == Owed /\ OwnValues

LEMMA OwedIsOnce == Owed => OwedOnce
BY DEF Owed, OwedOnce, CountOf

-----------------------------------------------------------------------------
(* What a step is made of                                                  *)

\* Replacing a task by another of the same get and key keeps every debt.
LEMMA MoveKeepsTasks ==
    ASSUME TypeOK, OneTaskEach, NEW i \in tasks, NEW j \in Tasks,
           j.get = i.get, j.key = i.key,
           Move(i, j), UNCHANGED owed
    PROVE  /\ OneTaskEach' /\ tasks' \subseteq Tasks
           /\ TasksOf(i.get)' = {j} /\ TasksOf(i.get) = {i} /\ owed[i.get] = i.key
           /\ \A g \in Gets \ {i.get} : TasksOf(g)' = TasksOf(g)
<1>0. i.get \in Gets
  BY DEF TypeOK, Tasks
<1>1. tasks' \subseteq Tasks
  BY DEF Move, TypeOK
<1>2. i \in TasksOf(i.get)
  BY DEF TasksOf
<1>3. TasksOf(i.get) = {i} /\ i.key = owed[i.get] /\ owed[i.get] # Nothing
  BY <1>0, <1>2 DEF OneTaskEach
<1>4. TasksOf(i.get)' = {j}
  BY <1>3 DEF TasksOf, Move
<1>5. \A g \in Gets \ {i.get} : TasksOf(g)' = TasksOf(g)
  BY DEF TasksOf, Move
<1>6. ASSUME NEW g \in Gets
      PROVE  IF owed'[g] = Nothing THEN TasksOf(g)' = {}
             ELSE \E t \in TasksOf(g)' : TasksOf(g)' = {t} /\ t.key = owed'[g]
  <2>1. CASE g = i.get
    BY <1>3, <1>4, <2>1
  <2>2. CASE g # i.get
    BY <1>5, <2>2 DEF OneTaskEach
  <2> QED BY <2>1, <2>2
<1>7. OneTaskEach'
  BY <1>6 DEF OneTaskEach
<1> QED BY <1>1, <1>3, <1>4, <1>5, <1>7

\* What Sent makes of a task.
LEMMA SentIsTask ==
    ASSUME NEW i \in Tasks, NEW v \in Keys \union {Nothing}
    PROVE  /\ Sent(i, v) \in Tasks
           /\ Sent(i, v).get = i.get /\ Sent(i, v).key = i.key
           /\ Sent(i, v).at = "response" /\ Sent(i, v).got = v
BY DEF Sent, Tasks, Stages

\* A fetch from disk is one move, to a posted read or to a response.
LEMMA FetchMoves ==
    ASSUME NEW i \in Tasks, NEW add \in BOOLEAN, FetchFromDisk(i, add, {})
    PROVE  \E j \in Tasks : /\ j.get = i.get /\ j.key = i.key
                            /\ Move(i, j)
                            /\ j.at = "disk" \/ (j.at = "response" /\ j.got = i.key)
<1>1. CASE DiskAsync
  <2> DEFINE j == [i EXCEPT !.at = "disk", !.add = add]
  <2>1. j \in Tasks /\ j.get = i.get /\ j.key = i.key /\ j.at = "disk"
    BY DEF Tasks, Stages
  <2>2. Move(i, j)
    BY <1>1 DEF FetchFromDisk, Move
  <2> QED BY <2>1, <2>2
<1>2. CASE ~DiskAsync
  <2>1. i.key \in Keys \union {Nothing}
    BY DEF Tasks
  <2>2. Move(i, Sent(i, i.key))
    BY <1>2 DEF FetchFromDisk, Move
  <2> QED BY <2>1, <2>2, SentIsTask
<1> QED BY <1>1, <1>2

\* What torn holds may only grow, by one read at a time.
Tears == \E k, v \in Keys : torn' = [torn EXCEPT ![k] = @ \union {v}]

LEMMA TornGrows ==
    ASSUME TypeOK, Tears \/ UNCHANGED torn
    PROVE  /\ torn' \in [Keys -> SUBSET Keys]
           /\ \A k \in Keys : torn[k] \subseteq torn'[k]
BY DEF TypeOK, Tears

LEMMA TornByTears ==
    ASSUME TypeOK, NEW k \in Keys, NEW v \in Keys, torn' = TornBy(k, v)
    PROVE  /\ Tears \/ UNCHANGED torn
           /\ v \in {k} \union torn'[k]
<1>1. CASE v = k
  <2>1. torn[k] \union ({v} \ {k}) = torn[k]
    BY <1>1
  <2>2. torn' = torn
    BY <2>1 DEF TornBy, TypeOK
  <2> QED BY <1>1, <2>2
<1>2. CASE v # k
  <2>1. torn[k] \union ({v} \ {k}) = torn[k] \union {v}
    BY <1>2
  <2>2. torn' = [torn EXCEPT ![k] = @ \union {v}]
    BY <2>1 DEF TornBy
  <2> QED BY <2>2 DEF Tears, TypeOK
<1> QED BY <1>1, <1>2

\* What serving a task does to torn.
LEMMA ServingTears ==
    ASSUME TypeOK, NEW i \in tasks, Handle(i) \/ Complete(i) \/ Drain(i)
    PROVE  Tears \/ UNCHANGED torn
<1>0. i.key \in Keys
  BY DEF TypeOK, Tasks
<1>1. ASSUME NEW v \in Keys, CallbackMatch(i, v) \/ \E e \in Keys : CallbackForward(i, e, v)
      PROVE  Tears \/ UNCHANGED torn
  <2>1. torn' = TornBy(i.key, v)
    BY <1>1 DEF CallbackMatch, CallbackForward
  <2> QED BY <1>0, <2>1, TornByTears
<1>2. CASE \/ Handle(i) \/ Drain(i)
           \/ CallbackMismatch(i) \/ DiskDone(i)
  BY <1>2 DEF Handle, Hit, MissRemote, MissLocal, Drain, CallbackMismatch, DiskDone
<1> QED BY <1>1, <1>2 DEF Complete

\* What a step does to the task it serves: it moves it, and what the moved task
\* carries, if it carries anything a client may receive, is its key's value or
\* what a torn read of the key brought.
Moved(i) ==
    /\ UNCHANGED clientVars
    /\ i.at # "response"
    /\ \E j \in Tasks :
         /\ j.get = i.get /\ j.key = i.key /\ Move(i, j)
         /\ OwnValues => (j.at \in Carrying => j.got \in {j.key} \union torn'[j.key])
         /\ j.at = "response" => UNCHANGED torn

LEMMA ServingMoves ==
    ASSUME NoStray, Owed, NEW i \in tasks, Handle(i) \/ Complete(i) \/ Drain(i)
    PROVE  Moved(i)
<1> USE DEF Owed, TypeOK, Carrying
<1>0. i \in Tasks /\ i.key \in Keys /\ i.server \in Servers
  BY DEF Tasks
<1>1. CASE Hit(i)
  <2>1. cache[i.server][i.key] \in Keys \union {Nothing}
    BY <1>0
  <2>2. OwnValues => cache[i.server][i.key] \in {i.key} \union torn[i.key]
    BY <1>0, <1>1 DEF Hit, OwnValues
  <2> DEFINE j == Sent(i, cache[i.server][i.key])
  <2>3. /\ j \in Tasks /\ j.get = i.get /\ j.key = i.key
        /\ j.got = cache[i.server][i.key]
    BY <1>0, <2>1, SentIsTask
  <2>4. Move(i, j) /\ UNCHANGED <<clientVars, torn>> /\ i.at # "response"
    BY <1>1 DEF Hit
  <2> HIDE DEF j
  <2> QED BY <2>2, <2>3, <2>4 DEF Moved
<1>2. CASE MissRemote(i)
  <2> DEFINE j == [i EXCEPT !.at = "rdma"]
  <2>1. j \in Tasks /\ j.get = i.get /\ j.key = i.key /\ j.at = "rdma"
    BY <1>0 DEF Tasks, Stages
  <2>2. Move(i, j)
    BY <1>2 DEF MissRemote, StrayResponses, NoStray, Move
  <2> QED BY <1>2, <2>1, <2>2 DEF MissRemote, Missing, Moved
<1>3. CASE MissLocal(i)
  <2>1. FetchFromDisk(i, TRUE, {})
    BY <1>3 DEF MissLocal, StrayResponses, NoStray
  <2>2. PICK j \in Tasks : /\ j.get = i.get /\ j.key = i.key /\ Move(i, j)
                           /\ j.at = "disk" \/ (j.at = "response" /\ j.got = i.key)
    BY <1>0, <2>1, FetchMoves
  <2> QED BY <1>3, <2>2 DEF MissLocal, Missing, Moved
<1>4. ASSUME NEW v \in Keys, CallbackMatch(i, v) \/ \E e \in Keys : CallbackForward(i, e, v)
      PROVE  Moved(i)
  <2> DEFINE j == [i EXCEPT !.at = "rdmaQueue", !.got = v]
  <2>1. j \in Tasks /\ j.get = i.get /\ j.key = i.key /\ j.got = v /\ j.at = "rdmaQueue"
    BY <1>0 DEF Tasks, Stages
  <2>2. v \in {i.key} \union torn'[i.key]
    BY <1>0, <1>4, TornByTears DEF CallbackMatch, CallbackForward
  <2>3. Move(i, j) /\ UNCHANGED clientVars /\ i.at = "rdma"
    BY <1>4 DEF CallbackMatch, CallbackForward
  <2> HIDE DEF j
  <2> QED BY <2>1, <2>2, <2>3 DEF Moved
<1>6. CASE CallbackMismatch(i)
  <2>1. PICK j \in Tasks : /\ j.get = i.get /\ j.key = i.key /\ Move(i, j)
                           /\ j.at = "disk" \/ (j.at = "response" /\ j.got = i.key)
    BY <1>0, <1>6, FetchMoves DEF CallbackMismatch
  <2> QED BY <1>6, <2>1 DEF CallbackMismatch, Moved
<1>7. CASE DiskDone(i)
  <2> DEFINE j == [i EXCEPT !.at = "diskQueue", !.got = i.key, !.add = FALSE]
  <2>1. j \in Tasks /\ j.get = i.get /\ j.key = i.key /\ j.got = i.key /\ j.at = "diskQueue"
    BY <1>0 DEF Tasks, Stages
  <2> QED BY <1>7, <2>1 DEF DiskDone, Moved
<1>8. CASE Drain(i)
  <2>1. i.got \in Keys \union {Nothing}
    BY <1>0 DEF Tasks
  <2>2. OwnValues => i.got \in {i.key} \union torn[i.key]
    BY <1>8 DEF Drain, OwnValues, Carrying
  <2>3. Move(i, Sent(i, i.got)) /\ UNCHANGED <<clientVars, torn>> /\ i.at # "response"
    BY <1>8 DEF Drain
  <2> DEFINE j == Sent(i, i.got)
  <2>4. j \in Tasks /\ j.get = i.get /\ j.key = i.key /\ j.got = i.got
    BY <1>0, <2>1, SentIsTask
  <2> HIDE DEF j
  <2> QED BY <2>2, <2>3, <2>4 DEF Moved, j
<1> QED BY <1>1, <1>2, <1>3, <1>4, <1>6, <1>7, <1>8
        DEF Handle, Complete

-----------------------------------------------------------------------------
(* Types, in every configuration                                           *)

LEMMA InitOwed == Init => Owed
<1> SUFFICES ASSUME Init PROVE Owed
  OBVIOUS
<1>1. TypeOK /\ OneTaskEach
  BY ConfigIsSane DEF Init, OneTaskEach, TypeOK, TasksOf
<1>2. \A c \in Clients : Outstanding(c) = {}
  BY DEF Init, Outstanding
<1>3. ASSUME NEW c \in Clients PROVE CountOf(c)
  <2>1. Cardinality(Outstanding(c)) = 0
    BY <1>2, FS_EmptySet
  <2>2. taken[c] = 0 /\ want[c] = Nothing
    BY DEF Init
  <2> QED BY <1>2, <2>1, <2>2 DEF CountOf
<1> QED BY <1>1, <1>3 DEF Owed

\* What serving a task does to the cache and the forwards.
LEMMA ServingStores ==
    ASSUME TypeOK, NEW i \in tasks, Handle(i) \/ Complete(i) \/ Drain(i)
    PROVE  /\ cache' \in [Servers -> [Keys -> Keys \union {Nothing}]]
           /\ forwards' \subseteq Forwards
<1> USE DEF TypeOK, Put
<1>0. i \in Tasks /\ i.key \in Keys /\ i.server \in Servers
  BY DEF Tasks
<1>1. CASE Hit(i) \/ MissRemote(i) \/ Drain(i)
  BY <1>1 DEF Hit, MissRemote, Drain
<1>2. CASE MissLocal(i) \/ CallbackMismatch(i)
  <2>1. UNCHANGED cache \/ Put(i.server, i.key, i.key)
    BY <1>2 DEF MissLocal, CallbackMismatch, FetchFromDisk
  <2>2. UNCHANGED forwards
    BY <1>2 DEF MissLocal, CallbackMismatch
  <2> QED BY <1>0, <2>1, <2>2
<1>3. ASSUME NEW v \in Keys, CallbackMatch(i, v)
      PROVE  /\ cache' \in [Servers -> [Keys -> Keys \union {Nothing}]]
             /\ forwards' \subseteq Forwards
  <2>1. CASE UNCHANGED cache
    BY <1>3, <2>1 DEF CallbackMatch
  <2>2. CASE Put(i.server, i.key, v)
    <3>1. cache' \in [Servers -> [Keys -> Keys \union {Nothing}]]
      BY <1>0, <2>2
    <3> QED BY <1>3, <3>1 DEF CallbackMatch
  <2> QED BY <1>3, <2>1, <2>2 DEF CallbackMatch
<1>4. ASSUME NEW e \in Keys, NEW v \in Keys, CallbackForward(i, e, v)
      PROVE  /\ cache' \in [Servers -> [Keys -> Keys \union {Nothing}]]
             /\ forwards' \subseteq Forwards
  <2>1. cache' \in [Servers -> [Keys -> Keys \union {Nothing}]]
    BY <1>0, <1>4 DEF CallbackForward
  <2>2. (i.server + 1) % NumServers \in Servers
    BY <1>0, ConfigIsSane DEF Servers
  <2>3. [to |-> (i.server + 1) % NumServers, key |-> e,
         got |-> cache[i.server][e], at |-> "queue"] \in Forwards
    BY <1>0, <2>2 DEF Forwards
  <2> QED BY <1>4, <2>1, <2>3 DEF CallbackForward
<1>5. CASE DiskDone(i)
  BY <1>0, <1>5 DEF DiskDone
<1> QED BY <1>1, <1>2, <1>3, <1>4, <1>5 DEF Handle, Complete

\* The steps that touch no task keep the types.
LEMMA OtherStepsStore ==
    ASSUME TypeOK,
           \/ \E f \in forwards : ForwardStep(f)
           \/ \E s \in Servers, k \in Keys : Evict(s, k)
    PROVE  /\ cache' \in [Servers -> [Keys -> Keys \union {Nothing}]]
           /\ forwards' \subseteq Forwards
           /\ UNCHANGED <<clientVars, tasks, torn>>
<1> USE DEF TypeOK, Put
<1>1. ASSUME NEW f \in forwards, DrainForward(f)
      PROVE  forwards' \subseteq Forwards /\ UNCHANGED cache
  <2>1. [f EXCEPT !.at = "wire"] \in Forwards
    BY DEF Forwards
  <2> QED BY <1>1, <2>1 DEF DrainForward
<1>2. ASSUME NEW f \in forwards, SingletonPut(f)
      PROVE  /\ cache' \in [Servers -> [Keys -> Keys \union {Nothing}]]
             /\ forwards' \subseteq Forwards
  BY <1>2 DEF SingletonPut, Forwards
<1>3. ASSUME NEW s \in Servers, NEW k \in Keys, Evict(s, k)
      PROVE  /\ cache' \in [Servers -> [Keys -> Keys \union {Nothing}]]
             /\ forwards' \subseteq Forwards
  BY <1>3 DEF Evict
<1>4. UNCHANGED <<clientVars, tasks, torn>>
  BY DEF ForwardStep, DrainForward, SingletonPut, Evict
<1> QED BY <1>1, <1>2, <1>3, <1>4 DEF ForwardStep

\* What a key's value can turn into.
Versions(k) == {k} \union torn[k]

\* What a response, or a value on its way to one, can be without NoStray.
OwnOrNothing(i) == i.at \in Carrying => i.got \in Versions(i.key) \union {Nothing}

\* What is stored or forwarded under a key.
StoredOwn ==
    /\ \A s \in Servers, k \in Keys : cache[s][k] \in Versions(k) \union {Nothing}
    /\ \A f \in forwards : f.got \in Versions(f.key)

\* A stray response is the read buffer that nobody has filled.
LEMMA StrayIsTask ==
    ASSUME NEW i \in Tasks, NEW j \in StrayResponses(i)
    PROVE  j \in Tasks /\ OwnOrNothing(j)'
<1>1. j = Sent(i, Nothing)
  BY DEF StrayResponses
<1>2. Sent(i, Nothing) \in Tasks /\ Sent(i, Nothing).got = Nothing
  BY SentIsTask
<1> QED BY <1>1, <1>2 DEF OwnOrNothing

\* Serving a task adds tasks, stray responses among them, that carry a version
\* of their key's value or none.
LEMMA ServingTasks ==
    ASSUME TypeOK, StoredOwn, NEW i \in tasks, OwnOrNothing(i),
           Handle(i) \/ Complete(i) \/ Drain(i)
    PROVE  /\ UNCHANGED clientVars
           /\ \A j \in tasks' : j \in tasks \/ (j \in Tasks /\ OwnOrNothing(j)')
<1> USE DEF TypeOK
<1> DEFINE Fine(j) == j \in Tasks /\ OwnOrNothing(j)'
<1>0. i \in Tasks /\ i.key \in Keys /\ i.server \in Servers
  BY DEF Tasks
<1>g. Versions(i.key) \subseteq Versions(i.key)'
  BY <1>0, ServingTears, TornGrows DEF Versions
<1>1. CASE Hit(i)
  <2>1. /\ cache[i.server][i.key] \in Versions(i.key) \union {Nothing}
        /\ cache[i.server][i.key] \in Keys \union {Nothing}
    BY <1>0 DEF StoredOwn
  <2> DEFINE v == cache[i.server][i.key]
  <2>2. UNCHANGED cache
    BY <1>1 DEF Hit
  <2>3. Fine(Sent(i, v))
    BY <1>0, <1>g, <2>1, <2>2, SentIsTask DEF OwnOrNothing
  <2> QED BY <1>1, <2>3 DEF Hit, Move
<1>2. CASE MissRemote(i)
  <2>1. Fine([i EXCEPT !.at = "rdma"])
    BY <1>0 DEF Tasks, Stages, OwnOrNothing, Carrying
  <2> QED BY <1>0, <1>2, <2>1, StrayIsTask DEF MissRemote
<1>3. ASSUME NEW add \in BOOLEAN
      PROVE  Fine(IF DiskAsync THEN [i EXCEPT !.at = "disk", !.add = add]
                               ELSE Sent(i, i.key))
  <2>1. Fine([i EXCEPT !.at = "disk", !.add = add])
    BY <1>0, <1>3 DEF Tasks, Stages, OwnOrNothing, Carrying
  <2>2. Fine(Sent(i, i.key))
    BY <1>0, <1>3, SentIsTask DEF OwnOrNothing, Versions
  <2> QED BY <2>1, <2>2
<1>4. CASE MissLocal(i)
  BY <1>0, <1>3, <1>4, StrayIsTask DEF MissLocal, FetchFromDisk
<1>5. CASE CallbackMismatch(i)
  BY <1>3, <1>5 DEF CallbackMismatch, FetchFromDisk
<1>6. ASSUME NEW v \in Keys, CallbackMatch(i, v) \/ \E e \in Keys : CallbackForward(i, e, v)
      PROVE  \A j \in tasks' : j \in tasks \/ Fine(j)
  <2> DEFINE j == [i EXCEPT !.at = "rdmaQueue", !.got = v]
  <2>1. j \in Tasks /\ j.got = v /\ j.key = i.key
    BY <1>0 DEF Tasks, Stages
  <2>2. v \in Versions(i.key)'
    BY <1>0, <1>6, TornByTears DEF CallbackMatch, CallbackForward, Versions
  <2>3. Move(i, j)
    BY <1>6 DEF CallbackMatch, CallbackForward
  <2> HIDE DEF j
  <2> QED BY <2>1, <2>2, <2>3 DEF Move, OwnOrNothing
<1>7. CASE DiskDone(i)
  <2>1. Fine([i EXCEPT !.at = "diskQueue", !.got = i.key, !.add = FALSE])
    BY <1>0 DEF Tasks, Stages, OwnOrNothing, Versions
  <2> QED BY <1>7, <2>1 DEF DiskDone, Move
<1>8. CASE Drain(i)
  <2>1. i.got \in Versions(i.key) \union {Nothing}
    BY <1>8 DEF Drain, OwnOrNothing, Carrying
  <2>2. Fine(Sent(i, i.got))
    BY <1>0, <1>g, <2>1, SentIsTask DEF OwnOrNothing, Tasks
  <2> QED BY <1>8, <2>2 DEF Drain, Move
<1>9. UNCHANGED clientVars
  BY DEF Handle, Complete, Hit, MissRemote, MissLocal, CallbackMatch, CallbackForward,
         CallbackMismatch, DiskDone, Drain
<1> QED BY <1>1, <1>2, <1>4, <1>5, <1>6, <1>7, <1>8, <1>9 DEF Handle, Complete

\* What torn holds grows, whatever the step.
LEMMA NextTears == ASSUME TypeOK, [Next]_vars PROVE Tears \/ UNCHANGED torn
<1>1. \A c \in Clients : ClientStep(c) => UNCHANGED torn
  BY DEF ClientStep, Ask, Receive, ReceiveSync
<1>2. \A f \in forwards : ForwardStep(f) => UNCHANGED torn
  BY DEF ForwardStep, DrainForward, SingletonPut
<1>3. \A s \in Servers, k \in Keys : Evict(s, k) => UNCHANGED torn
  BY DEF Evict
<1>4. UNCHANGED vars => UNCHANGED torn
  BY DEF vars
<1> QED BY <1>1, <1>2, <1>3, <1>4, ServingTears DEF Next

\* The cache and the forwards get versions of their own keys' values only.
LEMMA NextStoredOwn ==
    ASSUME TypeOK, StoredOwn, [Next]_vars
    PROVE  StoredOwn'
<1> USE DEF TypeOK, Put
<1>g. \A k \in Keys : Versions(k) \subseteq Versions(k)' /\ k \in Versions(k)'
  BY NextTears, TornGrows DEF Versions
<1>f. \A f \in forwards : f \in Forwards /\ f.key \in Keys /\ f.to \in Servers
  BY DEF Forwards
<1> DEFINE CacheOwn == \A s \in Servers, k \in Keys : cache[s][k] \in Versions(k) \union {Nothing}
           ForwardsOwn == \A f \in forwards : f.got \in Versions(f.key)
<1>u. UNCHANGED cache => CacheOwn'
  BY <1>g DEF StoredOwn
<1>v. UNCHANGED forwards => ForwardsOwn'
  BY <1>f, <1>g DEF StoredOwn
<1>1. ASSUME NEW i \in tasks, Handle(i) \/ Complete(i) \/ Drain(i)
      PROVE  StoredOwn'
  <2>0. i \in Tasks /\ i.key \in Keys /\ i.server \in Servers
    BY DEF Tasks
  <2>1. CASE Hit(i) \/ MissRemote(i) \/ Drain(i)
    BY <2>1, <1>u, <1>v DEF Hit, MissRemote, Drain, StoredOwn
  <2>2. CASE MissLocal(i) \/ CallbackMismatch(i)
    <3>1. CacheOwn'
      BY <2>0, <2>2, <1>g, <1>u DEF MissLocal, CallbackMismatch, FetchFromDisk, StoredOwn
    <3> QED BY <2>2, <3>1, <1>v DEF MissLocal, CallbackMismatch, StoredOwn
  <2>3. ASSUME NEW v \in Keys, CallbackMatch(i, v)
        PROVE  StoredOwn'
    <3>1. v \in Versions(i.key)'
      BY <2>0, <2>3, TornByTears DEF CallbackMatch, Versions
    <3>2. CacheOwn'
      BY <2>0, <2>3, <3>1, <1>g, <1>u DEF CallbackMatch, StoredOwn
    <3> QED BY <2>3, <3>2, <1>v DEF CallbackMatch, StoredOwn
  <2>4. ASSUME NEW e \in Keys, NEW v \in Keys, CallbackForward(i, e, v)
        PROVE  StoredOwn'
    <3>1. v \in Versions(i.key)'
      BY <2>0, <2>4, TornByTears DEF CallbackForward, Versions
    <3>2. CacheOwn'
      BY <2>0, <2>4, <3>1, <1>g DEF CallbackForward, StoredOwn
    <3>3. cache[i.server][e] \in Versions(e)'
      BY <2>0, <2>4, <1>g DEF CallbackForward, StoredOwn
    <3>4. ForwardsOwn'
      BY <2>4, <3>3, <1>f, <1>g DEF CallbackForward, StoredOwn
    <3> QED BY <3>2, <3>4 DEF StoredOwn
  <2>5. CASE DiskDone(i)
    <3>1. CacheOwn'
      BY <2>0, <2>5, <1>g, <1>u DEF DiskDone, StoredOwn
    <3> QED BY <2>5, <3>1, <1>v DEF DiskDone, StoredOwn
  <2> QED BY <1>1, <2>1, <2>2, <2>3, <2>4, <2>5 DEF Handle, Complete
<1>2. ASSUME NEW f \in forwards, DrainForward(f)
      PROVE  StoredOwn'
  <2>1. [f EXCEPT !.at = "wire"].got = f.got /\ [f EXCEPT !.at = "wire"].key = f.key
    BY DEF Forwards
  <2>2. ForwardsOwn'
    BY <1>2, <2>1, <1>f, <1>g DEF DrainForward, StoredOwn
  <2> QED BY <1>2, <2>2, <1>u DEF DrainForward, StoredOwn
<1>3. ASSUME NEW f \in forwards, SingletonPut(f)
      PROVE  StoredOwn'
  <2>1. f.got \in Versions(f.key)'
    BY <1>f, <1>g DEF StoredOwn
  <2>2. CacheOwn'
    BY <1>3, <2>1, <1>f, <1>g DEF SingletonPut, StoredOwn
  <2>3. ForwardsOwn'
    BY <1>3, <1>f, <1>g DEF SingletonPut, StoredOwn
  <2> QED BY <2>2, <2>3 DEF StoredOwn
<1>4. ASSUME NEW s \in Servers, NEW k \in Keys, Evict(s, k)
      PROVE  StoredOwn'
  <2>1. CacheOwn'
    BY <1>4, <1>g DEF Evict, StoredOwn
  <2> QED BY <1>4, <2>1, <1>v DEF Evict, StoredOwn
<1>5. CASE UNCHANGED <<cache, forwards>>
  BY <1>5, <1>u, <1>v DEF StoredOwn
<1>6. \A c \in Clients : ClientStep(c) => UNCHANGED <<cache, forwards>>
  BY DEF ClientStep, Ask, Receive, ReceiveSync
<1> QED BY <1>1, <1>2, <1>3, <1>4, <1>5, <1>6 DEF Next, ForwardStep, vars

\* The types and the values, whatever the configuration.
Plain == TypeOK /\ StoredOwn /\ \A i \in tasks : OwnOrNothing(i)

LEMMA NextPlain == ASSUME Plain, [Next]_vars PROVE Plain'
<1> USE DEF Plain
<1> DEFINE TasksFine == tasks \subseteq Tasks /\ \A i \in tasks : OwnOrNothing(i)
<1>1. StoredOwn'
  BY NextStoredOwn
<1>2. torn' \in [Keys -> SUBSET Keys] /\ \A k \in Keys : torn[k] \subseteq torn'[k]
  BY NextTears, TornGrows
<1>3. \A i \in tasks : OwnOrNothing(i)'
  BY <1>2 DEF OwnOrNothing, Versions, TypeOK, Tasks
<1>4. ASSUME NEW c \in Clients, NEW k \in Keys, NEW s \in Servers, NEW g \in Gets,
             Ask(c, k, s, g)
      PROVE  TypeOK' /\ TasksFine'
  <2> DEFINE new == [get |-> g, key |-> k, server |-> s, at |-> "request",
                     got |-> Nothing, add |-> FALSE]
  <2>1. new \in Tasks /\ OwnOrNothing(new)'
    BY DEF Tasks, Stages, OwnOrNothing, Carrying
  <2>2. tasks' = tasks \union {new}
    BY <1>4 DEF Ask
  <2> HIDE DEF new
  <2>3. TasksFine'
    BY <2>1, <2>2, <1>3 DEF TypeOK
  <2> QED BY <1>2, <1>4, <2>3 DEF Ask, TypeOK
<1>5. ASSUME NEW c \in Clients, \/ \E i \in tasks : Receive(c, i)
                                \/ ReceiveSync(c)
      PROVE  TypeOK' /\ TasksFine'
  <2>1. TasksFine'
    BY <1>3, <1>5 DEF Receive, ReceiveSync, TypeOK
  <2> QED BY <1>2, <1>5, <2>1 DEF Receive, ReceiveSync, Return, TypeOK, Tasks
<1>6. ASSUME NEW i \in tasks, Handle(i) \/ Complete(i) \/ Drain(i)
      PROVE  TypeOK' /\ TasksFine'
  <2>1. /\ UNCHANGED clientVars
        /\ \A j \in tasks' : j \in tasks \/ (j \in Tasks /\ OwnOrNothing(j)')
    BY <1>6, ServingTasks
  <2>2. TasksFine'
    BY <2>1, <1>3 DEF TypeOK
  <2> QED BY <1>2, <1>6, <2>1, <2>2, ServingStores DEF TypeOK, clientVars
<1>7. CASE \/ \E f \in forwards : ForwardStep(f)
           \/ \E s \in Servers, k \in Keys : Evict(s, k)
  <2>1. UNCHANGED <<clientVars, tasks, torn>>
    BY <1>7, OtherStepsStore
  <2>2. TypeOK'
    BY <1>7, <2>1, OtherStepsStore DEF TypeOK, clientVars
  <2> QED BY <1>1, <1>3, <2>1, <2>2 DEF TypeOK
<1>8. CASE UNCHANGED vars
  <2>1. TypeOK'
    BY <1>8 DEF vars, clientVars, TypeOK
  <2> QED BY <1>1, <1>3, <1>8, <2>1 DEF vars, TypeOK
<1> QED BY <1>1, <1>4, <1>5, <1>6, <1>7, <1>8 DEF Next, ClientStep

LEMMA PlainAlways == Spec => []Plain
<1>1. Init => Plain
  BY InitOwed DEF Init, Owed, Plain, StoredOwn, OwnOrNothing, Versions
<1>2. Plain /\ [Next]_vars => Plain'
  BY NextPlain
<1> QED BY <1>1, <1>2, PTL DEF Spec

\* Type correctness: whatever the handlers and callbacks of the get path do, and
\* whichever switches of ops_config.json are set.
THEOREM TypeCorrect == Spec => []TypeOK
<1>1. Plain => TypeOK
  BY DEF Plain
<1> QED BY <1>1, PlainAlways, PTL

\* In every configuration a torn read spoils no other key: caches and forwarded
\* singletons hold their key's value or bytes that a torn read of the key
\* brought, and a response holds one of these or none, the read_buffer that
\* server_worker sends unfilled.
THEOREM TornStaysHome == Spec => [](StoredOwn /\ \A i \in tasks : OwnOrNothing(i))
<1>1. Plain => StoredOwn /\ \A i \in tasks : OwnOrNothing(i)
  BY DEF Plain
<1> QED BY <1>1, PlainAlways, PTL

-----------------------------------------------------------------------------
(* Owed is inductive                                                       *)

LEMMA OutstandingFinite == \A c \in Clients : IsFiniteSet(Outstanding(c))
<1>1. \A c \in Clients : Outstanding(c) \subseteq Gets
  BY DEF Outstanding
<1> QED BY <1>1, ConfigIsSane, FS_Subset

\* The count of client c depends on what it waits for, is owed and has taken.
LEMMA CountsKept ==
    ASSUME NEW c \in Clients, CountOf(c), Outstanding(c)' = Outstanding(c),
           \A g \in Outstanding(c) : owed'[g] = owed[g],
           want'[c] = want[c], taken'[c] = taken[c]
    PROVE  CountOf(c)'
BY DEF CountOf

LEMMA AskOwes ==
    ASSUME Owed, NEW c \in Clients, NEW k \in Keys, NEW s \in Servers, NEW g \in Gets,
           Ask(c, k, s, g)
    PROVE  OneTaskEach' /\ \A d \in Clients : CountOf(d)'
<1> USE DEF Owed, TypeOK
<1> DEFINE new == [get |-> g, key |-> k, server |-> s, at |-> "request",
                   got |-> Nothing, add |-> FALSE]
<1>1. new.get = g /\ new.key = k /\ tasks' = tasks \union {new}
  BY DEF Ask
<1> HIDE DEF new
<1>2. /\ ClientOf[g] = c /\ owed[g] = Nothing /\ want[c] = Nothing
      /\ want' = [want EXCEPT ![c] = k] /\ owed' = [owed EXCEPT ![g] = k]
      /\ taken' = taken /\ k # Nothing
  BY ConfigIsSane DEF Ask, Free
<1>3. OneTaskEach'
  <2>1. TasksOf(g) = {}
    BY <1>2 DEF OneTaskEach
  <2>2. TasksOf(g)' = {new} /\ owed'[g] = k
    BY <1>1, <1>2, <2>1 DEF TasksOf
  <2>3. \A h \in Gets \ {g} : TasksOf(h)' = TasksOf(h) /\ owed'[h] = owed[h]
    BY <1>1, <1>2 DEF TasksOf
  <2> QED BY <1>1, <1>2, <2>2, <2>3 DEF OneTaskEach
<1>4. ASSUME NEW d \in Clients \ {c} PROVE CountOf(d)'
  <2>1. Outstanding(d)' = Outstanding(d)
    BY <1>2 DEF Outstanding
  <2>2. \A h \in Outstanding(d) : owed'[h] = owed[h]
    BY <1>2 DEF Outstanding
  <2> QED BY <1>2, <2>1, <2>2, CountsKept
<1>5. CountOf(c)'
  <2>1. Outstanding(c)' = Outstanding(c) \union {g} /\ g \notin Outstanding(c)
    BY <1>2 DEF Outstanding
  <2>2. Cardinality(Outstanding(c)') = Cardinality(Outstanding(c)) + 1
    BY <2>1, OutstandingFinite, FS_AddElement
  <2>3. Cardinality(Outstanding(c)) = taken[c]
    BY <1>2 DEF CountOf
  <2>4. want'[c] = k
    BY <1>2
  <2>5. taken[c] = 0 => Outstanding(c) = {}
    BY <2>3, OutstandingFinite, FS_EmptySet
  <2>6. Cardinality(Outstanding(c)') = taken'[c] + 1
    BY <1>2, <2>2, <2>3
  <2>7. taken'[c] = 0 => \A h \in Outstanding(c)' : owed'[h] = want'[c]
    BY <1>2, <2>1, <2>4, <2>5
  <2>8. c \notin Leaders => taken'[c] = 0
    BY <1>2 DEF CountOf
  <2> QED BY <1>2, <2>4, <2>6, <2>7, <2>8 DEF CountOf
<1> QED BY <1>3, <1>4, <1>5

LEMMA ReceivePays ==
    ASSUME Owed, NEW c \in Clients, NEW i \in tasks, Receive(c, i)
    PROVE  OneTaskEach' /\ \A d \in Clients : CountOf(d)'
<1> USE DEF Owed, TypeOK
<1> DEFINE g == i.get
<1>1. /\ g \in Gets /\ ClientOf[g] = c /\ want[c] # Nothing
      /\ want' = [want EXCEPT ![c] = Nothing] /\ owed' = [owed EXCEPT ![g] = Nothing]
      /\ taken' = taken /\ tasks' = tasks \ {i}
  BY DEF Receive, Return, Tasks
<1>2. i \in TasksOf(g)
  BY DEF TasksOf
<1>3. TasksOf(g) = {i} /\ owed[g] # Nothing
  BY <1>1, <1>2 DEF OneTaskEach
<1> HIDE DEF g
<1>4. OneTaskEach'
  <2>1. TasksOf(g)' = {} /\ owed'[g] = Nothing
    BY <1>1, <1>3 DEF TasksOf
  <2>2. \A h \in Gets \ {g} : TasksOf(h)' = TasksOf(h) /\ owed'[h] = owed[h]
    BY <1>1, <1>3 DEF TasksOf
  <2> QED BY <2>1, <2>2 DEF OneTaskEach
<1>5. ASSUME NEW d \in Clients \ {c} PROVE CountOf(d)'
  <2>1. Outstanding(d)' = Outstanding(d)
    BY <1>1 DEF Outstanding
  <2>2. \A h \in Outstanding(d) : owed'[h] = owed[h]
    BY <1>1 DEF Outstanding
  <2> QED BY <1>1, <2>1, <2>2, CountsKept
<1>6. CountOf(c)'
  <2>1. Outstanding(c)' = Outstanding(c) \ {g} /\ g \in Outstanding(c)
    BY <1>1, <1>3 DEF Outstanding
  <2>2. Cardinality(Outstanding(c)') = Cardinality(Outstanding(c)) - 1
    BY <2>1, OutstandingFinite, FS_RemoveElement
  <2>3. Cardinality(Outstanding(c)) = taken[c] + 1
    BY <1>1 DEF CountOf
  <2>4. IsFiniteSet(Outstanding(c)')
    BY <2>1, OutstandingFinite, FS_RemoveElement
  <2>5. Cardinality(Outstanding(c)') = taken'[c]
    BY <1>1, <2>2, <2>3
  <2>6. taken'[c] = 0 => Outstanding(c)' = {}
    BY <2>4, <2>5, FS_EmptySet
  <2>7. want'[c] = Nothing
    BY <1>1
  <2>8. c \notin Leaders => taken'[c] = 0
    BY <1>1 DEF CountOf
  <2>9. taken'[c] \in Nat
    BY <1>1
  <2> QED BY <2>5, <2>6, <2>7, <2>8, <2>9 DEF CountOf
<1> QED BY <1>4, <1>5, <1>6

\* The call ends and nothing is paid: one more response than before is left.
LEMMA ReceiveSyncOwes ==
    ASSUME Owed, NEW c \in Clients, ReceiveSync(c)
    PROVE  OneTaskEach' /\ \A d \in Clients : CountOf(d)'
<1> USE DEF Owed, TypeOK
<1>1. /\ c \in Leaders /\ want[c] # Nothing
      /\ want' = [want EXCEPT ![c] = Nothing]
      /\ taken' = [taken EXCEPT ![c] = @ + 1]
      /\ owed' = owed /\ tasks' = tasks
  BY DEF ReceiveSync, Return
<1>2. OneTaskEach'
  BY <1>1 DEF OneTaskEach, TasksOf
<1>3. \A d \in Clients : Outstanding(d)' = Outstanding(d)
  BY <1>1 DEF Outstanding
<1>4. ASSUME NEW d \in Clients \ {c} PROVE CountOf(d)'
  BY <1>1, <1>3, CountsKept
<1>5. CountOf(c)'
  <2>1. Cardinality(Outstanding(c)) = taken[c] + 1
    BY <1>1 DEF CountOf
  <2>2. taken'[c] = taken[c] + 1 /\ want'[c] = Nothing /\ taken[c] \in Nat
    BY <1>1
  <2>3. Cardinality(Outstanding(c)') = taken'[c]
    BY <1>3, <2>1, <2>2
  <2> QED BY <1>1, <2>2, <2>3 DEF CountOf
<1> QED BY <1>2, <1>4, <1>5

LEMMA NextOwed == ASSUME NoStray, Owed, [Next]_vars PROVE Owed'
<1> DEFINE Counted == OneTaskEach /\ \A c \in Clients : CountOf(c)
<1>1. Plain => Plain'
  BY NextPlain
<1>2. ASSUME NEW c \in Clients, ClientStep(c)
      PROVE  Counted'
  BY <1>2, AskOwes, ReceivePays, ReceiveSyncOwes DEF ClientStep
<1>3. ASSUME UNCHANGED clientVars, OneTaskEach'
      PROVE  Counted'
  <2>1. \A c \in Clients : CountOf(c)'
    BY <1>3 DEF clientVars, CountOf, Outstanding, Owed
  <2> QED BY <1>3, <2>1
<1>4. ASSUME NEW i \in tasks, Handle(i) \/ Complete(i) \/ Drain(i)
      PROVE  Counted' /\ TypeOK'
  <2>1. Moved(i)
    BY <1>4, ServingMoves
  <2>2. OneTaskEach' /\ tasks' \subseteq Tasks
    BY <2>1, MoveKeepsTasks DEF Moved, clientVars, Owed
  <2>3. TypeOK'
    BY <1>4, <2>1, <2>2, ServingStores, ServingTears, TornGrows DEF Moved, TypeOK, Owed, clientVars
  <2> QED BY <1>3, <2>1, <2>2, <2>3 DEF Moved
<1>5. CASE \/ \E f \in forwards : ForwardStep(f)
           \/ \E s \in Servers, k \in Keys : Evict(s, k)
  <2>1. UNCHANGED <<clientVars, tasks, torn>>
    BY <1>5, OtherStepsStore DEF Owed
  <2>2. OneTaskEach'
    BY <2>1 DEF clientVars, OneTaskEach, TasksOf, Owed
  <2>3. TypeOK'
    BY <1>5, <2>1, OtherStepsStore DEF TypeOK, clientVars, Owed
  <2> QED BY <1>3, <2>1, <2>2, <2>3 DEF Owed
<1>6. CASE UNCHANGED vars
  <2>1. OneTaskEach' /\ TypeOK'
    BY <1>6 DEF vars, clientVars, OneTaskEach, TasksOf, Owed, TypeOK
  <2> QED BY <1>3, <1>6, <2>1 DEF vars, Owed
<1>7. ASSUME NEW c \in Clients, ClientStep(c)
      PROVE  TypeOK'
  <2>1. ASSUME NEW k \in Keys, NEW s \in Servers, NEW g \in Gets, Ask(c, k, s, g)
        PROVE  TypeOK'
    <3>1. [get |-> g, key |-> k, server |-> s, at |-> "request",
           got |-> Nothing, add |-> FALSE] \in Tasks
      BY DEF Tasks, Stages
    <3> QED BY <2>1, <3>1 DEF Ask, Owed, TypeOK
  <2>2. ASSUME NEW i \in tasks, Receive(c, i)
        PROVE  TypeOK'
    BY <2>2 DEF Receive, Return, Owed, TypeOK, Tasks
  <2>3. CASE ReceiveSync(c)
    BY <2>3 DEF ReceiveSync, Return, Owed, TypeOK
  <2> QED BY <1>7, <2>1, <2>2, <2>3 DEF ClientStep
<1> QED BY <1>2, <1>4, <1>5, <1>6, <1>7 DEF Next, Owed

LEMMA OwedAlways == ASSUME NoStray PROVE Spec => []Owed
BY InitOwed, NextOwed, PTL DEF Spec

\* A client is owed the response it waits for and one for each of its gets that
\* returned on a sync request; a client that took none is owed exactly what it
\* waits for, an idle one nothing (Connection::get, server_worker).
THEOREM OneResponseOwed == ASSUME NoStray PROVE Spec => []OwedOnce
BY OwedAlways, OwedIsOnce, PTL

-----------------------------------------------------------------------------
(* Values stay under their own keys                                        *)

LEMMA InitOwn == Init => OwnValues
BY DEF Init, OwnValues

LEMMA NextOwn ==
    ASSUME NoStray, IInv, [Next]_vars
    PROVE  OwnValues'
<1> USE DEF IInv
<1> DEFINE TaskOwn == \A i \in tasks : i.at \in Carrying => i.got \in {i.key} \union torn[i.key]
<1>0. StoredOwn'
  BY NextStoredOwn DEF Owed, OwnValues, StoredOwn, Versions
<1>1. \A k \in Keys : torn[k] \subseteq torn'[k]
  BY NextTears, TornGrows DEF Owed
<1>2. \A i \in tasks : i.at \in Carrying => i.got \in {i.key} \union torn'[i.key]
  BY <1>1 DEF OwnValues, Owed, TypeOK, Tasks
<1>3. TaskOwn' => OwnValues'
  BY <1>0 DEF OwnValues, StoredOwn, Versions
<1>4. ASSUME NEW c \in Clients, ClientStep(c)
      PROVE  OwnValues'
  <2>1. \A t \in tasks' : t \in tasks \/ t.at = "request"
    <3>1. ASSUME NEW k \in Keys, NEW s \in Servers, NEW g \in Gets, Ask(c, k, s, g)
          PROVE  \A t \in tasks' : t \in tasks \/ t.at = "request"
      BY <3>1 DEF Ask
    <3> QED BY <1>4, <3>1 DEF ClientStep, Receive, ReceiveSync
  <2> QED BY <1>2, <1>3, <2>1 DEF Carrying
<1>5. ASSUME NEW i \in tasks, Handle(i) \/ Complete(i) \/ Drain(i)
      PROVE  OwnValues'
  <2>1. TaskOwn'
    BY <1>2, <1>5, ServingMoves DEF Moved, Move
  <2> QED BY <1>3, <2>1
<1>6. CASE UNCHANGED tasks
  BY <1>2, <1>3, <1>6
<1>7. \/ \E f \in forwards : ForwardStep(f)
      \/ \E s \in Servers, k \in Keys : Evict(s, k)
      \/ UNCHANGED vars
      => UNCHANGED tasks
  BY DEF ForwardStep, DrainForward, SingletonPut, Evict, vars
<1> QED BY <1>4, <1>5, <1>6, <1>7 DEF Next

LEMMA Invariance == ASSUME NoStray PROVE Spec => []IInv
<1>1. Init => IInv
  BY InitOwed, InitOwn DEF IInv
<1>2. IInv /\ [Next]_vars => IInv'
  BY NextOwed, NextOwn DEF IInv
<1> QED BY <1>1, <1>2, PTL DEF Spec

\* What caches, responses and forwarded singletons hold under a key is the key's
\* value or bytes that a torn read of that key brought (the key check of the
\* RDMA callback in server_worker).
THEOREM ValuesStayHome == ASSUME NoStray PROVE Spec => []OwnValues
<1>1. IInv => OwnValues
  BY DEF IInv
<1> QED BY <1>1, Invariance, PTL

-----------------------------------------------------------------------------
(* GetPath implements KVService                                            *)

LEMMA InitMaps == Init => Service!KInit
BY DEF Init, Service!KInit, Answers, TasksOf

\* No response is added or taken away by a step that moves no task to or from
\* the wire.
LEMMA SameAnswers ==
    ASSUME \A t \in tasks \union tasks' : t.at = "response" => t \in tasks /\ t \in tasks'
    PROVE  Answers' = Answers
<1>1. \A g \in Gets : {t \in TasksOf(g) : t.at = "response"}'
                      = {t \in TasksOf(g) : t.at = "response"}
  BY DEF TasksOf
<1> QED BY <1>1 DEF Answers

\* Serving a task is an answer, a torn read, or nothing the service sees.
LEMMA ServingMaps ==
    ASSUME NoStray, IInv, NEW i \in tasks, Handle(i) \/ Complete(i) \/ Drain(i)
    PROVE  Service!KNext \/ UNCHANGED Service!kvars
<1> USE DEF Service!kvars, IInv, Owed
<1> DEFINE g == i.get
<1>0. g \in Gets /\ i.key \in Keys
  BY DEF TypeOK, Tasks
<1>1. Moved(i)
  BY ServingMoves
<1>2. PICK j \in Tasks :
        /\ j.get = i.get /\ j.key = i.key /\ Move(i, j)
        /\ j.at \in Carrying => j.got \in {j.key} \union torn'[j.key]
        /\ j.at = "response" => UNCHANGED torn
  BY <1>1 DEF Moved
<1>3. /\ TasksOf(g)' = {j} /\ TasksOf(g) = {i} /\ owed[g] = i.key
      /\ \A h \in Gets \ {g} : TasksOf(h)' = TasksOf(h)
  BY <1>1, <1>2, MoveKeepsTasks DEF Moved, clientVars
<1>4. UNCHANGED <<want, owed>> /\ i.at # "response"
  BY <1>1 DEF Moved, clientVars
<1>5. CASE j.at = "response"
  <2>1. Answers[g] = {} /\ Answers'[g] = {j.got}
    BY <1>0, <1>3, <1>4, <1>5 DEF Answers
  <2>2. \A h \in Gets \ {g} : Answers'[h] = Answers[h]
    BY <1>3 DEF Answers
  <2>3. Answers' = [Answers EXCEPT ![g] = {j.got}]
    BY <2>1, <2>2 DEF Answers
  <2>4. j.got \in {owed[g]} \union torn[owed[g]]
    BY <1>2, <1>3, <1>5 DEF Carrying
  <2>5. owed[g] # Nothing
    BY <1>0, <1>3, ConfigIsSane
  <2>6. Service!Answer(g)
    BY <1>2, <1>4, <1>5, <2>1, <2>3, <2>4, <2>5 DEF Service!Answer
  <2> QED BY <1>0, <2>6 DEF Service!KNext
<1>6. CASE j.at # "response"
  <2>1. Answers' = Answers
    BY <1>2, <1>4, <1>6, SameAnswers DEF Move
  <2>2. CASE UNCHANGED torn
    BY <1>4, <2>1, <2>2
  <2>3. CASE Tears
    BY <1>4, <2>1, <2>3 DEF Tears, Service!KNext, Service!Tear
  <2> QED BY <2>2, <2>3, ServingTears
<1> QED BY <1>5, <1>6

LEMMA StepMaps ==
    ASSUME NoStray, IInv, [Next]_vars
    PROVE  [Service!KNext]_(Service!kvars)
<1> USE DEF Service!kvars, IInv, Owed
<1>1. ASSUME NEW c \in Clients, NEW k \in Keys, NEW s \in Servers, NEW g \in Gets,
             Ask(c, k, s, g)
      PROVE  Service!KNext
  <2>1. Answers' = Answers
    BY <1>1, SameAnswers DEF Ask
  <2>2. Service!Ask(c, k, g)
    BY <1>1, <2>1 DEF Ask, Free, Service!Ask
  <2> QED BY <2>2 DEF Service!KNext
<1>2. ASSUME NEW c \in Clients, NEW i \in tasks, Receive(c, i)
      PROVE  Service!KNext
  <2> DEFINE g == i.get
  <2>1. g \in Gets /\ i \in TasksOf(g) /\ want[c] # Nothing /\ ClientOf[g] = c
    BY <1>2 DEF Receive, Return, TasksOf, TypeOK, Tasks
  <2>2. TasksOf(g) = {i} /\ owed[g] # Nothing
    BY <2>1 DEF OneTaskEach
  <2>3. c \in Leaders \/ owed[g] = want[c]
    BY <2>1, <2>2 DEF CountOf, Outstanding
  <2>4. Answers[g] = {i.got}
    BY <1>2, <2>1, <2>2 DEF Answers, Receive
  <2>5. TasksOf(g)' = {} /\ \A h \in Gets \ {g} : TasksOf(h)' = TasksOf(h)
    BY <1>2, <2>1, <2>2 DEF TasksOf, Receive
  <2>6. Answers' = [Answers EXCEPT ![g] = {}]
    <3>1. Answers'[g] = {}
      BY <2>1, <2>5 DEF Answers
    <3>2. \A h \in Gets \ {g} : Answers'[h] = Answers[h]
      BY <2>5 DEF Answers
    <3> QED BY <3>1, <3>2 DEF Answers
  <2>7. Service!Hear(c, g)
    BY <1>2, <2>1, <2>3, <2>4, <2>6 DEF Receive, Return, Service!Hear, Service!Return
  <2> QED BY <2>1, <2>7 DEF Service!KNext
<1>3. ASSUME NEW c \in Clients, ReceiveSync(c)
      PROVE  Service!KNext
  <2>1. Answers' = Answers
    BY <1>3, SameAnswers DEF ReceiveSync
  <2>2. Service!Interrupt(c)
    BY <1>3, <2>1 DEF ReceiveSync, Return, Service!Interrupt, Service!Return
  <2> QED BY <2>2 DEF Service!KNext
<1>4. CASE \/ \E f \in forwards : ForwardStep(f)
           \/ \E s \in Servers, k \in Keys : Evict(s, k)
  <2>1. UNCHANGED <<clientVars, tasks, torn>>
    BY <1>4, OtherStepsStore
  <2>2. Answers' = Answers
    BY <2>1, SameAnswers
  <2> QED BY <2>1, <2>2 DEF clientVars
<1>5. CASE UNCHANGED vars
  <2>1. Answers' = Answers
    BY <1>5, SameAnswers DEF vars
  <2> QED BY <1>5, <2>1 DEF vars, clientVars
<1> QED BY <1>1, <1>2, <1>3, <1>4, <1>5, ServingMaps DEF Next, ClientStep

\* A question is given at most one answer and the answer heard at most once: the
\* get path of server_worker and Connection::get implements KVService.
THEOREM Refinement ==
    ASSUME NoStray PROVE Spec => ImplementsKVService
<1>1. IInv /\ [Next]_vars => [Service!KNext]_(Service!kvars)
  BY StepMaps
<1> QED BY <1>1, InitMaps, Invariance, PTL DEF Spec, ImplementsKVService, Service!KSpec

=============================================================================
