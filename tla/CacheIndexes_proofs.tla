------------------------ MODULE CacheIndexes_proofs ------------------------
(***************************************************************************)
(* Proof that the copies of the cache index catch up with their owners,    *)
(* for any number of servers, threads, keys, slots and tokens, as long as  *)
(* no key is put back while dealloc_remote still visits the other servers  *)
(* with it: its next turn would clear the new entry behind the put's       *)
(* writes.  Other callbacks of a server may overlap.                       *)
(*                                                                         *)
(* CopiesCatchUp alone is not inductive: dealloc_remote clears the owner's *)
(* entry in every turn of its loop, and a later turn would change it after *)
(* the write to an earlier server.  LoopOK says that it changes nothing    *)
(* then, because the first turn has cleared the entry.                     *)
(*                                                                         *)
(* Types, and the count of request tokens, hold for overlapping callbacks  *)
(* too: a server's writes in flight are a finite set of places in queues,  *)
(* which a post enlarges by one and the NIC reduces by one.                *)
(***************************************************************************)
EXTENDS CacheIndexes, FiniteSetTheorems, TLAPS

\* A put's callback does not begin while a thread of the same server is in
\* dealloc_remote with the same key, which the block cache has to see to.
NoPutInDealloc == \A t, u \in Threads :
    Home[t] = Home[u] /\ at[t] = "write" /\ at[u] = "dealloc" => arg[t] # arg[u]

\* In particular when one thread per server runs callbacks.
OneThreadEach == \A t, u \in Threads : Home[t] = Home[u] => t = u

LEMMA InitIInv == Init => IInv
BY IndexAssumption DEF Init, IInv, TypeOK, LoopOK, CopiesCatchUp, Pointer, Others

\* Appending keeps what is posted, and posts the appended key.
LEMMA AppendPosts ==
    ASSUME TypeOK, NEW o \in Servers, NEW i \in Servers, NEW k \in Keys,
           posted' = [posted EXCEPT ![o][i] = Append(@, k)]
    PROVE  /\ posted' \in [Servers -> [Servers -> Seq(Keys)]]
           /\ \E j \in DOMAIN posted'[o][i] : posted'[o][i][j] = k
           /\ \A p, m \in Servers, h \in Keys : Posted(p, m, h) => Posted(p, m, h)'
<1>1. posted[o][i] \in Seq(Keys)
  BY DEF TypeOK
<1>2. Append(posted[o][i], k) \in Seq(Keys)
  BY <1>1
<1>3. posted'[o][i] = Append(posted[o][i], k)
  BY DEF TypeOK
<1>4. \A p, m \in Servers : <<p, m>> # <<o, i>> => posted'[p][m] = posted[p][m]
  BY DEF TypeOK
<1>5. \E j \in DOMAIN posted'[o][i] : posted'[o][i][j] = k
  <2>1. Len(posted[o][i]) + 1 \in DOMAIN Append(posted[o][i], k)
    BY <1>1
  <2>2. Append(posted[o][i], k)[Len(posted[o][i]) + 1] = k
    BY <1>1
  <2> QED BY <2>1, <2>2, <1>3
<1>6. ASSUME NEW h \in Keys, Posted(o, i, h)
      PROVE  Posted(o, i, h)'
  <2>1. PICK j \in DOMAIN posted[o][i] : posted[o][i][j] = h
    BY <1>6 DEF Posted
  <2>2. j \in DOMAIN Append(posted[o][i], k) /\ Append(posted[o][i], k)[j] = h
    BY <1>1, <2>1
  <2> QED BY <2>2, <1>3 DEF Posted
<1>7. ASSUME NEW p \in Servers, NEW m \in Servers, NEW h \in Keys, Posted(p, m, h)
      PROVE  Posted(p, m, h)'
  <2>1. CASE <<p, m>> = <<o, i>>
    BY <1>6, <1>7, <2>1
  <2>2. CASE <<p, m>> # <<o, i>>
    BY <1>4, <1>7, <2>2 DEF Posted
  <2> QED BY <2>1, <2>2
<1>8. posted' \in [Servers -> [Servers -> Seq(Keys)]]
  BY <1>2 DEF TypeOK
<1> QED BY <1>5, <1>7, <1>8

\* One turn of a loop, posting or panicking, loses no write that is on its way.
LEMMA PostKeeps ==
    ASSUME TypeOK, LoopOK, NEW t \in Threads, NEW i \in todo[t],
           at[t] # "panic", Post(t, i) \/ Panic(t)
    PROVE  /\ posted' \in [Servers -> [Servers -> Seq(Keys)]]
           /\ tokens' \in [Servers -> Nat]
           /\ todo' \in [Threads -> SUBSET Servers]
           /\ at' \in [Threads -> Callbacks \union {"idle", "panic"}]
           /\ UNCHANGED <<completed, arg, ops>>
           /\ \A u \in Threads : todo'[u] \subseteq todo[u]
           /\ \A u \in Threads : at'[u] # "panic" => at'[u] = at[u]
           /\ \A u \in Threads : (u # t \/ at'[u] = "panic") => todo'[u] = todo[u]
           /\ \A o, m \in Servers, k \in Keys : OnItsWay(o, m, k) => OnItsWay(o, m, k)'
<1> USE DEF TypeOK, Others, LoopOK
<1>0. Home[t] \in Servers /\ i \in Servers /\ arg[t] \in Keys
  BY IndexAssumption
<1>1. CASE Panic(t)
  BY <1>1 DEF Panic, OnItsWay, Posted, Callbacks
<1>2. CASE Post(t, i) /\ tokens[Home[t]] # 0
  <2> DEFINE m0 == Home[t]
  <2>1. /\ posted' = [posted EXCEPT ![m0][i] = Append(@, arg[t])]
        /\ tokens' = [tokens EXCEPT ![m0] = @ - 1]
        /\ todo' = [todo EXCEPT ![t] = @ \ {i}]
        /\ UNCHANGED <<completed, at, arg, ops>>
    BY <1>2 DEF Post
  <2>2. /\ posted' \in [Servers -> [Servers -> Seq(Keys)]]
        /\ \E j \in DOMAIN posted'[m0][i] : posted'[m0][i][j] = arg[t]
        /\ \A p, m \in Servers, h \in Keys : Posted(p, m, h) => Posted(p, m, h)'
    BY <1>0, <2>1, AppendPosts
  <2>3. tokens' \in [Servers -> Nat]
    BY <1>0, <1>2, <2>1
  <2>4. ASSUME NEW o \in Servers, NEW m \in Servers, NEW k \in Keys, OnItsWay(o, m, k)
        PROVE  OnItsWay(o, m, k)'
    <3>1. CASE Posted(o, m, k)
      BY <2>2, <3>1 DEF OnItsWay
    <3>2. ASSUME NEW u \in Threads, Home[u] = o, arg[u] = k, m \in todo[u]
          PROVE  OnItsWay(o, m, k)'
      <4>1. CASE u = t /\ m = i
        <5>1. \E j \in DOMAIN posted'[o][m] : posted'[o][m][j] = k
          BY <2>2, <3>2, <4>1
        <5> QED BY <5>1 DEF OnItsWay, Posted
      <4>2. CASE u # t \/ m # i
        <5>1. m \in todo'[u] /\ arg'[u] = k
          BY <2>1, <3>2, <4>2
        <5> QED BY <3>2, <5>1 DEF OnItsWay
      <4> QED BY <4>1, <4>2
    <3> QED BY <2>4, <3>1, <3>2 DEF OnItsWay
  <2>5. /\ todo' \in [Threads -> SUBSET Servers]
        /\ \A u \in Threads : todo'[u] \subseteq todo[u]
        /\ \A u \in Threads : u # t => todo'[u] = todo[u]
        /\ at'[t] # "panic"
    BY <2>1
  <2> QED BY <2>1, <2>2, <2>3, <2>4, <2>5
<1>3. CASE Post(t, i) /\ tokens[Home[t]] = 0
  BY <1>1, <1>3 DEF Post
<1> QED BY <1>1, <1>2, <1>3

-----------------------------------------------------------------------------
(* Each step preserves the invariant                                       *)

\* A callback begins: every other server still has to be sent the entry.
LEMMA BeginStep ==
    ASSUME IInv, NoPutInDealloc', NEW t \in Threads, NEW k \in Keys,
           (\E p \in Ptrs : CachePut(t, k, p)) \/ CacheEvict(t, k)
    PROVE  IInv'
<1> USE DEF IInv, TypeOK, Others, Begin, reader
<1>0. Home[t] \in Servers /\ at[t] = "idle" /\ todo[t] = {}
  BY IndexAssumption DEF CachePut, CacheEvict, LoopOK
<1>1. /\ UNCHANGED <<posted, tokens, completed, reading, repaired>>
      /\ arg' = [arg EXCEPT ![t] = k] /\ ops' = [ops EXCEPT ![t] = @ + 1]
      /\ todo' = [todo EXCEPT ![t] = Servers \ {Home[t]}]
      /\ \E callback \in Callbacks : at' = [at EXCEPT ![t] = callback]
  BY DEF CachePut, CacheEvict, Callbacks
<1>2. /\ index' \in [Servers -> [Servers -> [Keys -> Pointer]]]
      /\ \A m, o \in Servers, h \in Keys :
           ~(m = Home[t] /\ o = Home[t] /\ h = k) => index'[m][o][h] = index[m][o][h]
  <2>1. CASE \E p \in Ptrs : CachePut(t, k, p)
    BY <1>0, <2>1 DEF CachePut, Pointer
  <2>2. CASE CacheEvict(t, k)
    BY <2>2 DEF CacheEvict
  <2> QED BY <2>1, <2>2
<1>3. TypeOK'
  <2>1. at' \in [Threads -> Callbacks \union {"idle", "panic"}]
    BY <1>1
  <2>2. /\ arg' \in [Threads -> Keys] /\ ops' \in [Threads -> Nat]
        /\ todo' \in [Threads -> SUBSET Servers]
    BY <1>1
  <2> QED BY <1>1, <1>2, <2>1, <2>2
<1>4. LoopOK'
  <2>1. \A u \in Threads \ {t} :
          /\ todo'[u] = todo[u] /\ at'[u] = at[u] /\ arg'[u] = arg[u]
          /\ Home[u] \in Servers /\ arg[u] \in Keys
    BY <1>1, IndexAssumption
  <2>2. \A u \in Threads \ {t} : at[u] = "dealloc" =>
          index'[Home[u]][Home[u]][arg'[u]] = index[Home[u]][Home[u]][arg[u]]
    <3>1. CASE \E p \in Ptrs : CachePut(t, k, p)
      <4>1. at'[t] = "write" /\ arg'[t] = k
        BY <1>1, <3>1 DEF CachePut
      <4>2. \A u \in Threads \ {t} : at[u] = "dealloc" => Home[u] # Home[t] \/ arg[u] # k
        BY <2>1, <4>1 DEF NoPutInDealloc
      <4> HIDE DEF IInv, TypeOK
      <4> QED BY <1>2, <2>1, <4>2
    <3>2. CASE CacheEvict(t, k)
      BY <2>1, <3>2 DEF CacheEvict
    <3> QED BY <3>1, <3>2
  <2>3. todo'[t] = Servers \ {Home[t]} /\ at'[t] # "idle"
    BY <1>1 DEF Callbacks
  <2> QED BY <2>1, <2>2, <2>3 DEF LoopOK
<1>5. ASSUME NEW o \in Servers, NEW m \in Others(o), NEW h \in Keys
      PROVE  index'[m][o][h] = index'[o][o][h] \/ OnItsWay(o, m, h)' \/ h \in repaired'[m][o]
  <2>1. CASE o = Home[t] /\ h = k
    <3>1. arg'[t] = h /\ m \in todo'[t]
      BY <1>1, <2>1
    <3> QED BY <2>1, <3>1 DEF OnItsWay
  <2>2. CASE o # Home[t] \/ h # k
    <3>1. index'[m][o][h] = index[m][o][h] /\ index'[o][o][h] = index[o][o][h]
      BY <1>2, <2>2
    <3>2. OnItsWay(o, m, h) => OnItsWay(o, m, h)'
      BY <1>0, <1>1 DEF OnItsWay, Posted
    <3> QED BY <1>1, <3>1, <3>2 DEF CopiesCatchUp
  <2> QED BY <2>1, <2>2
<1> QED BY <1>3, <1>4, <1>5 DEF CopiesCatchUp

\* A turn of write_remote: the entry to send does not change.
LEMMA WriteRemoteStep ==
    ASSUME IInv, NEW t \in Threads, NEW i \in Servers, WriteRemote(t, i)
    PROVE  IInv'
<1>1. /\ i \in todo[t] /\ at[t] # "panic" /\ at[t] = "write"
      /\ Post(t, i) \/ Panic(t)
      /\ UNCHANGED <<index, reading, repaired>>
  BY DEF WriteRemote, Turn, reader
<1>2. /\ posted' \in [Servers -> [Servers -> Seq(Keys)]]
      /\ tokens' \in [Servers -> Nat]
      /\ todo' \in [Threads -> SUBSET Servers]
      /\ at' \in [Threads -> Callbacks \union {"idle", "panic"}]
      /\ UNCHANGED <<completed, arg, ops>>
      /\ \A u \in Threads : todo'[u] \subseteq todo[u]
      /\ \A u \in Threads : at'[u] # "panic" => at'[u] = at[u]
      /\ \A u \in Threads : (u # t \/ at'[u] = "panic") => todo'[u] = todo[u]
      /\ \A o, m \in Servers, k \in Keys : OnItsWay(o, m, k) => OnItsWay(o, m, k)'
  BY <1>1, PostKeeps DEF IInv
<1>3. TypeOK'
  BY <1>1, <1>2 DEF IInv, TypeOK
<1>4. LoopOK'
  BY <1>1, <1>2 DEF IInv, LoopOK
<1>5. CopiesCatchUp'
  BY <1>1, <1>2 DEF IInv, CopiesCatchUp, Others
<1> QED BY <1>3, <1>4, <1>5 DEF IInv

\* A turn of dealloc_remote: only the first one changes the owner's entry, and
\* then every other server has still to be sent it.
LEMMA DeallocRemoteStep ==
    ASSUME IInv, NEW t \in Threads, NEW i \in Servers, DeallocRemote(t, i)
    PROVE  IInv'
<1>1. /\ i \in todo[t] /\ at[t] # "panic" /\ at[t] = "dealloc"
      /\ Post(t, i) \/ Panic(t)
      /\ UNCHANGED <<reading, repaired>>
      /\ index' = [index EXCEPT ![Home[t]][Home[t]][arg[t]] = Invalid]
  BY DEF DeallocRemote, Turn, reader
<1>2. /\ posted' \in [Servers -> [Servers -> Seq(Keys)]]
      /\ tokens' \in [Servers -> Nat]
      /\ todo' \in [Threads -> SUBSET Servers]
      /\ at' \in [Threads -> Callbacks \union {"idle", "panic"}]
      /\ UNCHANGED <<completed, arg, ops>>
      /\ \A u \in Threads : todo'[u] \subseteq todo[u]
      /\ \A u \in Threads : at'[u] # "panic" => at'[u] = at[u]
      /\ \A u \in Threads : (u # t \/ at'[u] = "panic") => todo'[u] = todo[u]
      /\ \A o, m \in Servers, k \in Keys : OnItsWay(o, m, k) => OnItsWay(o, m, k)'
  BY <1>1, PostKeeps DEF IInv
<1>3. Home[t] \in Servers /\ arg[t] \in Keys /\ Invalid \in Pointer
  BY IndexAssumption DEF IInv, TypeOK, Pointer
<1>4. /\ index' \in [Servers -> [Servers -> [Keys -> Pointer]]]
      /\ index'[Home[t]][Home[t]][arg[t]] = Invalid
      /\ \A m, o \in Servers, h \in Keys :
           ~(m = Home[t] /\ o = Home[t] /\ h = arg[t]) => index'[m][o][h] = index[m][o][h]
  <2>1. index \in [Servers -> [Servers -> [Keys -> Pointer]]]
    BY DEF IInv, TypeOK
  <2>2. index' \in [Servers -> [Servers -> [Keys -> Pointer]]]
    BY <1>1, <1>3, <2>1
  <2>3. index'[Home[t]][Home[t]][arg[t]] = Invalid
    BY <1>1, <1>3, <2>1
  <2> QED BY <1>1, <1>3, <2>1, <2>2, <2>3
<1>5. TypeOK'
  BY <1>1, <1>2, <1>4 DEF IInv, TypeOK
<1>6. LoopOK'
  <2>1. ASSUME NEW u \in Threads
        PROVE  /\ todo'[u] \subseteq Others(Home[u])
               /\ at'[u] = "idle" => todo'[u] = {}
    BY <1>2 DEF IInv, LoopOK
  <2>2. ASSUME NEW u \in Threads, u # t, at'[u] = "dealloc", todo'[u] # Others(Home[u])
        PROVE  index'[Home[u]][Home[u]][arg'[u]] = Invalid
    <3>1. /\ Home[u] \in Servers /\ arg[u] \in Keys
          /\ todo'[u] = todo[u] /\ at[u] = "dealloc" /\ arg' = arg
      BY <1>2, <2>2, IndexAssumption DEF IInv, TypeOK
    <3>2. index[Home[u]][Home[u]][arg[u]] = Invalid
      BY <2>2, <3>1 DEF IInv, LoopOK
    <3> QED BY <1>3, <1>4, <3>1, <3>2
  <2> QED BY <1>2, <1>4, <2>1, <2>2 DEF LoopOK
<1>7. ASSUME NEW o \in Servers, NEW m \in Others(o), NEW h \in Keys
      PROVE  index'[m][o][h] = index'[o][o][h] \/ OnItsWay(o, m, h)' \/ h \in repaired'[m][o]
  <2>0. m \in Servers /\ m # o
    BY DEF Others
  <2>1. index'[m][o][h] = index[m][o][h]
    BY <1>4, <2>0
  <2>2. CASE o = Home[t] /\ h = arg[t] /\ todo[t] = Others(Home[t])
    <3>1. OnItsWay(o, m, h)
      BY <2>2 DEF OnItsWay
    <3> QED BY <1>2, <2>0, <3>1
  <2>3. CASE ~(o = Home[t] /\ h = arg[t] /\ todo[t] = Others(Home[t]))
    <3>1. index'[o][o][h] = index[o][o][h]
      BY <1>1, <1>4, <2>3 DEF IInv, LoopOK
    <3>2. OnItsWay(o, m, h) => OnItsWay(o, m, h)'
      BY <1>2, <2>0
    <3> QED BY <1>1, <2>1, <3>1, <3>2 DEF IInv, CopiesCatchUp
  <2> QED BY <2>2, <2>3
<1> QED BY <1>5, <1>6, <1>7 DEF IInv, CopiesCatchUp

\* The NIC delivers the owner's entry of this moment.
LEMMA NicStep ==
    ASSUME IInv, NEW o \in Servers, NEW d \in Servers, NicWrite(o, d)
    PROVE  IInv'
<1> USE DEF IInv, thread
<1> DEFINE k == Head(posted[o][d])
<1>1. posted[o][d] \in Seq(Keys) /\ posted[o][d] # <<>>
  BY DEF NicWrite, TypeOK
<1>2. k \in Keys /\ Tail(posted[o][d]) \in Seq(Keys)
  BY <1>1
<1>3. /\ index' = [index EXCEPT ![d][o][k] = index[o][o][k]]
      /\ posted' = [posted EXCEPT ![o][d] = Tail(@)]
      /\ completed' = [completed EXCEPT ![o] = @ + 1]
      /\ repaired' = [repaired EXCEPT ![d][o] = @ \ {k}]
      /\ UNCHANGED <<tokens, at, arg, todo, ops, reading>>
  BY DEF NicWrite
<1>4. \A h \in Keys \ {k} : Posted(o, d, h) => Posted(o, d, h)'
  <2>1. ASSUME NEW h \in Keys \ {k}, NEW j \in DOMAIN posted[o][d], posted[o][d][j] = h
        PROVE  Posted(o, d, h)'
    <3>1. j \in 2 .. Len(posted[o][d])
      BY <1>1, <2>1
    <3>2. j - 1 \in DOMAIN Tail(posted[o][d]) /\ Tail(posted[o][d])[j-1] = h
      BY <1>1, <2>1, <3>1
    <3>3. posted'[o][d] = Tail(posted[o][d])
      BY <1>3 DEF TypeOK
    <3> QED BY <3>2, <3>3 DEF Posted
  <2> QED BY <2>1 DEF Posted
<1> HIDE DEF k
<1>5. TypeOK'
  BY <1>2, <1>3 DEF TypeOK
<1>6. \A p \in Servers, h \in Keys : index'[p][p][h] = index[p][p][h]
  BY <1>2, <1>3 DEF TypeOK
<1>7. LoopOK'
  <2>1. \A u \in Threads : index'[Home[u]][Home[u]][arg[u]] = index[Home[u]][Home[u]][arg[u]]
    BY <1>6, IndexAssumption DEF TypeOK
  <2> QED BY <1>3, <2>1 DEF LoopOK
<1>8. ASSUME NEW p \in Servers, NEW m \in Others(p), NEW h \in Keys
      PROVE  index'[m][p][h] = index'[p][p][h] \/ OnItsWay(p, m, h)' \/ h \in repaired'[m][p]
  <2>0. m \in Servers /\ m # p
    BY DEF Others
  <2>1. CASE p = o /\ m = d /\ h = k
    BY <1>2, <1>3, <1>6, <2>0, <2>1 DEF TypeOK
  <2>2. CASE ~(p = o /\ m = d /\ h = k)
    <3>1. /\ index'[m][p][h] = index[m][p][h]
          /\ h \in repaired[m][p] => h \in repaired'[m][p]
      <4>1. index'[m][p][h] = index[m][p][h]
        BY <1>2, <1>3, <2>0, <2>2 DEF TypeOK
      <4>2. repaired[m][p] \ {k} \subseteq repaired'[m][p]
        BY <1>3, <2>0 DEF TypeOK
      <4>3. ~(p = o /\ m = d) => repaired'[m][p] = repaired[m][p]
        BY <1>3, <2>0 DEF TypeOK
      <4> QED BY <2>2, <4>1, <4>2, <4>3
    <3>2. Posted(p, m, h) => Posted(p, m, h)'
      <4>1. CASE p = o /\ m = d
        BY <1>4, <2>2, <4>1
      <4>2. CASE ~(p = o /\ m = d)
        BY <1>3, <2>0, <4>2 DEF Posted, TypeOK
      <4> QED BY <4>1, <4>2
    <3>3. OnItsWay(p, m, h) => OnItsWay(p, m, h)'
      BY <1>3, <3>2 DEF OnItsWay
    <3> QED BY <1>6, <3>1, <3>3 DEF CopiesCatchUp
  <2> QED BY <2>1, <2>2
<1> QED BY <1>5, <1>7, <1>8 DEF CopiesCatchUp

\* A repair changes copies only, and marks what it changes.
LEMMA RepairStep ==
    ASSUME IInv, NEW s \in Servers, NEW e \in Keys, NEW f \in Keys, UpdateLocalKey(s, e, f)
    PROVE  IInv'
<1> USE DEF IInv, thread, Others
<1>1. /\ UNCHANGED <<posted, tokens, completed, at, arg, todo, ops>>
      /\ reading' = [reading EXCEPT ![s] = @ \ {e}]
      /\ index' = [index EXCEPT ![s] =
           [o \in Servers |-> IF o = s THEN @[o]
                              ELSE [@[o] EXCEPT ![f] = index[s][s][e]]]]
      /\ repaired' = [repaired EXCEPT ![s] =
           [o \in Servers |-> IF o = s THEN @[o] ELSE @[o] \union {f}]]
  BY DEF UpdateLocalKey
<1>2. \A m, o \in Servers : \A h \in Keys :
        (m # s \/ o = s \/ h # f) => index'[m][o][h] = index[m][o][h]
  BY <1>1 DEF TypeOK
<1>3. \A m, o \in Servers : /\ repaired[m][o] \subseteq repaired'[m][o]
                             /\ (m = s /\ o # s) => f \in repaired'[m][o]
  BY <1>1 DEF TypeOK
<1>4. TypeOK'
  BY <1>1 DEF TypeOK
<1>5. LoopOK'
  BY <1>1, <1>2, IndexAssumption DEF LoopOK, TypeOK
<1>6. CopiesCatchUp'
  BY <1>1, <1>2, <1>3 DEF CopiesCatchUp, OnItsWay, Posted
<1> QED BY <1>4, <1>5, <1>6

LEMMA NextIInv == ASSUME IInv, NoPutInDealloc', [Next]_vars PROVE IInv'
<1>1. ASSUME NEW t \in Threads, Return(t)
      PROVE  IInv'
  BY <1>1 DEF Return, IInv, TypeOK, LoopOK, CopiesCatchUp, OnItsWay, Posted, Callbacks, reader
<1>2. ASSUME UNCHANGED <<index, posted, at, arg, todo, ops, repaired>>, TypeOK'
      PROVE  IInv'
  BY <1>2 DEF IInv, LoopOK, CopiesCatchUp, OnItsWay, Posted
<1>3. ASSUME NEW m \in Servers, ExecutePending(m)
      PROVE  IInv'
  <2>1. completed' \in [Servers -> Nat] /\ tokens' \in [Servers -> Nat]
    BY <1>3 DEF ExecutePending, IInv, TypeOK
  <2> QED BY <1>2, <1>3, <2>1 DEF ExecutePending, IInv, TypeOK, thread, reader
<1>4. ASSUME NEW m \in Servers, NEW k \in Keys, StartRead(m, k) \/ EndRead(m, k)
      PROVE  IInv'
  <2>1. reading' \in [Servers -> SUBSET Keys]
    <3>1. reading \in [Servers -> SUBSET Keys]
      BY DEF IInv, TypeOK
    <3>2. CASE StartRead(m, k)
      BY <3>1, <3>2 DEF StartRead
    <3>3. CASE EndRead(m, k)
      BY <3>1, <3>3 DEF EndRead
    <3> QED BY <1>4, <3>2, <3>3
  <2> QED BY <1>2, <1>4, <2>1 DEF StartRead, EndRead, IInv, TypeOK, thread
<1>5. CASE UNCHANGED vars
  BY <1>2, <1>5 DEF vars, thread, reader, IInv, TypeOK
<1> QED BY <1>1, <1>3, <1>4, <1>5, BeginStep, WriteRemoteStep, DeallocRemoteStep, NicStep,
           RepairStep DEF Next, ThreadStep

-----------------------------------------------------------------------------
(* Types and tokens, also where callbacks of one server overlap            *)

LEMMA PostTyped ==
    ASSUME TypeOK, NEW t \in Threads, NEW i \in Servers, Post(t, i) \/ Panic(t)
    PROVE  /\ posted' \in [Servers -> [Servers -> Seq(Keys)]]
           /\ tokens' \in [Servers -> Nat]
           /\ todo' \in [Threads -> SUBSET Servers]
           /\ at' \in [Threads -> Callbacks \union {"idle", "panic"}]
           /\ UNCHANGED <<completed, arg, ops>>
<1>0. Home[t] \in Servers /\ arg[t] \in Keys
  BY IndexAssumption DEF TypeOK
<1>1. CASE Panic(t)
  BY <1>1 DEF Panic, TypeOK
<1>2. CASE Post(t, i) /\ tokens[Home[t]] # 0
  <2>0. /\ posted' = [posted EXCEPT ![Home[t]][i] = Append(@, arg[t])]
        /\ tokens' = [tokens EXCEPT ![Home[t]] = @ - 1]
        /\ todo' = [todo EXCEPT ![t] = @ \ {i}]
        /\ UNCHANGED <<completed, at, arg, ops>>
    BY <1>2 DEF Post
  <2>1. posted' \in [Servers -> [Servers -> Seq(Keys)]]
    BY <1>0, <2>0, AppendPosts
  <2>2. tokens' \in [Servers -> Nat]
    BY <1>0, <1>2, <2>0 DEF TypeOK
  <2>3. todo' \in [Threads -> SUBSET Servers]
    BY <2>0 DEF TypeOK
  <2> QED BY <2>0, <2>1, <2>2, <2>3 DEF TypeOK
<1> QED BY <1>1, <1>2 DEF Post

LEMMA EntryTyped ==
    ASSUME TypeOK, NEW m \in Servers, NEW o \in Servers, NEW k \in Keys, NEW p \in Pointer,
           index' = [index EXCEPT ![m][o][k] = p]
    PROVE  index' \in [Servers -> [Servers -> [Keys -> Pointer]]]
BY DEF TypeOK

LEMMA NextTyped == ASSUME TypeOK, [Next]_vars PROVE TypeOK'
<1> USE DEF TypeOK, thread, reader
<1>1. ASSUME NEW t \in Threads, NEW k \in Keys,
             (\E p \in Ptrs : CachePut(t, k, p)) \/ CacheEvict(t, k)
      PROVE  TypeOK'
  <2>1. Home[t] \in Servers
    BY IndexAssumption
  <2>2. index' \in [Servers -> [Servers -> [Keys -> Pointer]]]
    <3>1. ASSUME NEW p \in Ptrs, CachePut(t, k, p)
          PROVE  index' \in [Servers -> [Servers -> [Keys -> Pointer]]]
      <4>1. p \in Pointer /\ index' = [index EXCEPT ![Home[t]][Home[t]][k] = p]
        BY <3>1 DEF CachePut, Pointer
      <4> QED BY <2>1, <4>1, EntryTyped
    <3> QED BY <1>1, <3>1 DEF CacheEvict
  <2>3. at' \in [Threads -> Callbacks \union {"idle", "panic"}]
    BY <1>1 DEF CachePut, CacheEvict, Begin, Callbacks
  <2>4. /\ arg' = [arg EXCEPT ![t] = k] /\ ops' = [ops EXCEPT ![t] = @ + 1]
        /\ todo' = [todo EXCEPT ![t] = Others(Home[t])]
        /\ UNCHANGED <<posted, tokens, completed, reading, repaired>>
    BY <1>1 DEF CachePut, CacheEvict, Begin
  <2>5. /\ arg' \in [Threads -> Keys] /\ ops' \in [Threads -> Nat]
        /\ todo' \in [Threads -> SUBSET Servers]
    BY <2>4 DEF Others
  <2> QED BY <2>2, <2>3, <2>4, <2>5
<1>2. ASSUME NEW t \in Threads, NEW i \in Servers, WriteRemote(t, i) \/ DeallocRemote(t, i)
      PROVE  TypeOK'
  <2>1. Home[t] \in Servers /\ arg[t] \in Keys /\ Invalid \in Pointer
    BY IndexAssumption DEF Pointer
  <2>2. (Post(t, i) \/ Panic(t)) /\ UNCHANGED <<reading, repaired>>
    BY <1>2 DEF WriteRemote, DeallocRemote
  <2>3. index' \in [Servers -> [Servers -> [Keys -> Pointer]]]
    <3>1. CASE DeallocRemote(t, i)
      <4>1. index' = [index EXCEPT ![Home[t]][Home[t]][arg[t]] = Invalid]
        BY <3>1 DEF DeallocRemote
      <4> QED BY <2>1, <4>1, EntryTyped
    <3> QED BY <1>2, <3>1 DEF WriteRemote
  <2> QED BY <2>2, <2>3, PostTyped
<1>3. ASSUME NEW t \in Threads, Return(t)
      PROVE  TypeOK'
  BY <1>3 DEF Return
<1>4. ASSUME NEW m \in Servers, NEW o \in Servers, NicWrite(m, o)
      PROVE  TypeOK'
  <2>1. Head(posted[m][o]) \in Keys /\ Tail(posted[m][o]) \in Seq(Keys)
    <3>1. posted[m][o] \in Seq(Keys) /\ posted[m][o] # <<>>
      BY <1>4 DEF NicWrite
    <3> QED BY <3>1
  <2>2. /\ index' = [index EXCEPT ![o][m][Head(posted[m][o])] = index[m][m][Head(posted[m][o])]]
        /\ posted' = [posted EXCEPT ![m][o] = Tail(@)]
        /\ completed' = [completed EXCEPT ![m] = @ + 1]
        /\ repaired' = [repaired EXCEPT ![o][m] = @ \ {Head(posted[m][o])}]
        /\ UNCHANGED <<tokens, at, arg, todo, ops, reading>>
    BY <1>4 DEF NicWrite
  <2>3. index' \in [Servers -> [Servers -> [Keys -> Pointer]]]
    BY <2>1, <2>2, EntryTyped
  <2>4. /\ posted' \in [Servers -> [Servers -> Seq(Keys)]]
        /\ repaired' \in [Servers -> [Servers -> SUBSET Keys]]
    BY <2>1, <2>2
  <2> QED BY <2>2, <2>3, <2>4
<1>5. ASSUME NEW m \in Servers, ExecutePending(m)
      PROVE  TypeOK'
  BY <1>5 DEF ExecutePending
<1>6. ASSUME NEW m \in Servers, NEW k \in Keys, StartRead(m, k) \/ EndRead(m, k)
      PROVE  TypeOK'
  <2>1. /\ UNCHANGED <<index, posted, tokens, completed, at, arg, todo, ops, repaired>>
        /\ \/ reading' = [reading EXCEPT ![m] = @ \union {k}]
           \/ reading' = [reading EXCEPT ![m] = @ \ {k}]
    BY <1>6 DEF StartRead, EndRead
  <2>2. reading' \in [Servers -> SUBSET Keys]
    <3>1. CASE reading' = [reading EXCEPT ![m] = @ \union {k}]
      BY <3>1
    <3>2. CASE reading' = [reading EXCEPT ![m] = @ \ {k}]
      BY <3>2
    <3> QED BY <2>1, <3>1, <3>2
  <2> QED BY <2>1, <2>2
<1>7. ASSUME NEW m \in Servers, NEW e \in Keys, NEW f \in Keys, UpdateLocalKey(m, e, f)
      PROVE  TypeOK'
  BY <1>7 DEF UpdateLocalKey
<1>8. CASE UNCHANGED vars
  BY <1>8 DEF vars
<1> QED BY <1>1, <1>2, <1>3, <1>4, <1>5, <1>6, <1>7, <1>8 DEF Next, ThreadStep

\* What is in flight depends on the lengths of the queues only.
LEMMA InFlightMembers ==
    ASSUME NEW m \in Servers, NEW x
    PROVE  x \in InFlight(m) <=>
             \E o \in Servers : \E j \in DOMAIN posted[m][o] : x = <<o, j>>
BY DEF InFlight

\* The tokens of a server add up, and what it has in flight can be counted.
Counted == \A m \in Servers :
    /\ IsFiniteSet(InFlight(m))
    /\ tokens[m] + completed[m] + Cardinality(InFlight(m)) = NumTokens

LEMMA InitCounted == Init => Counted
<1> SUFFICES ASSUME Init, NEW m \in Servers
             PROVE  IsFiniteSet(InFlight(m)) /\ Cardinality(InFlight(m)) = 0
  BY IndexAssumption DEF Counted, Init
<1>1. InFlight(m) = {}
  BY DEF InFlight, Init
<1> QED BY <1>1, FS_EmptySet

\* A posted write takes a token with it.
LEMMA PostCounts ==
    ASSUME TypeOK, Counted, NEW t \in Threads, NEW i \in Servers, Post(t, i) \/ Panic(t)
    PROVE  Counted'
<1>0. Home[t] \in Servers /\ arg[t] \in Keys
  BY IndexAssumption DEF TypeOK
<1>1. CASE Panic(t)
  BY <1>1 DEF Panic, Counted, InFlight
<1>2. CASE Post(t, i) /\ tokens[Home[t]] # 0
  <2> DEFINE h == Home[t]
             n == Len(posted[h][i])
  <2>1. /\ posted' = [posted EXCEPT ![h][i] = Append(@, arg[t])]
        /\ tokens' = [tokens EXCEPT ![h] = @ - 1] /\ completed' = completed
    BY <1>2 DEF Post
  <2>2. DOMAIN posted[h][i] = 1 .. n /\ DOMAIN posted'[h][i] = 1 .. n + 1 /\ n \in Nat
    BY <1>0, <2>1 DEF TypeOK
  <2>3. \A m, o \in Servers : <<m, o>> # <<h, i>> => posted'[m][o] = posted[m][o]
    BY <2>1 DEF TypeOK
  <2>4. ASSUME NEW m \in Servers, m # h
        PROVE  InFlight(m)' = InFlight(m)
    BY <2>3, <2>4 DEF InFlight
  <2>5. InFlight(h)' = InFlight(h) \union {<<i, n + 1>>}
    <3> DEFINE new == UNION {{o} \X DOMAIN posted'[h][o] : o \in Servers}
    <3>1. ASSUME NEW x
          PROVE  x \in new <=> x \in InFlight(h) \/ x = <<i, n + 1>>
      <4>1. x \in new <=> \E o \in Servers : \E j \in DOMAIN posted'[h][o] : x = <<o, j>>
        OBVIOUS
      <4>2. \A j : j \in DOMAIN posted'[h][i] <=> j \in DOMAIN posted[h][i] \/ j = n + 1
        BY <2>2
      <4>3. \A o \in Servers : o # i => posted'[h][o] = posted[h][o]
        BY <1>0, <2>3
      <4> HIDE DEF new, n
      <4> QED BY <1>0, <4>1, <4>2, <4>3, InFlightMembers
    <3> HIDE DEF new
    <3>2. new = InFlight(h) \union {<<i, n + 1>>}
      BY <3>1
    <3> QED BY <3>2 DEF new, InFlight
  <2>6. <<i, n + 1>> \notin InFlight(h)
    BY <1>0, <2>2, InFlightMembers
  <2> HIDE DEF h, n
  <2>7. IsFiniteSet(InFlight(h)')
        /\ Cardinality(InFlight(h)') = Cardinality(InFlight(h)) + 1
    BY <1>0, <2>5, <2>6, FS_AddElement DEF Counted, h
  <2>8. tokens'[h] = tokens[h] - 1 /\ \A m \in Servers : m # h => tokens'[m] = tokens[m]
    BY <1>0, <2>1 DEF TypeOK, h
  <2>9. Cardinality(InFlight(h)) \in Nat /\ tokens[h] \in Nat /\ completed[h] \in Nat
    BY <1>0, FS_CardinalityType DEF Counted, TypeOK, h
  <2> QED BY <2>1, <2>4, <2>7, <2>8, <2>9 DEF Counted
<1>3. CASE Post(t, i) /\ tokens[Home[t]] = 0
  BY <1>1, <1>3 DEF Post
<1> QED BY <1>1, <1>2, <1>3

\* A finished write leaves the head of its queue, and its token to a worker.
LEMMA NicCounts ==
    ASSUME TypeOK, Counted, NEW h \in Servers, NEW i \in Servers, NicWrite(h, i)
    PROVE  Counted'
<1> DEFINE n == Len(posted[h][i])
<1>1. /\ posted[h][i] \in Seq(Keys) /\ posted[h][i] # <<>>
      /\ posted' = [posted EXCEPT ![h][i] = Tail(@)]
      /\ completed' = [completed EXCEPT ![h] = @ + 1] /\ tokens' = tokens
  BY DEF NicWrite, TypeOK
<1>2. n \in Nat \ {0} /\ DOMAIN posted[h][i] = 1 .. n /\ DOMAIN posted'[h][i] = 1 .. n - 1
  <2>1. n \in Nat \ {0} /\ DOMAIN posted[h][i] = 1 .. n /\ DOMAIN Tail(posted[h][i]) = 1 .. n - 1
    BY <1>1
  <2>2. posted'[h][i] = Tail(posted[h][i])
    BY <1>1 DEF TypeOK
  <2> QED BY <2>1, <2>2
<1>3. \A m, o \in Servers : <<m, o>> # <<h, i>> => posted'[m][o] = posted[m][o]
  BY <1>1 DEF TypeOK
<1>4. ASSUME NEW m \in Servers, m # h
      PROVE  InFlight(m)' = InFlight(m)
  BY <1>3, <1>4 DEF InFlight
<1>5. InFlight(h)' = InFlight(h) \ {<<i, n>>}
  <2> DEFINE new == UNION {{o} \X DOMAIN posted'[h][o] : o \in Servers}
  <2>1. ASSUME NEW x
        PROVE  x \in new <=> x \in InFlight(h) /\ x # <<i, n>>
    <3>1. x \in new <=> \E o \in Servers : \E j \in DOMAIN posted'[h][o] : x = <<o, j>>
      OBVIOUS
    <3>2. \A j : j \in DOMAIN posted'[h][i] <=> j \in DOMAIN posted[h][i] /\ j # n
      BY <1>2
    <3>3. \A o \in Servers : o # i => posted'[h][o] = posted[h][o]
      BY <1>3
    <3> HIDE DEF new, n
    <3> QED BY <3>1, <3>2, <3>3, InFlightMembers
  <2> HIDE DEF new
  <2>2. new = InFlight(h) \ {<<i, n>>}
    BY <2>1
  <2> QED BY <2>2 DEF new, InFlight
<1>6. <<i, n>> \in InFlight(h)
  BY <1>2, InFlightMembers
<1> HIDE DEF n
<1>7. IsFiniteSet(InFlight(h)')
      /\ Cardinality(InFlight(h)') = Cardinality(InFlight(h)) - 1
  BY <1>5, <1>6, FS_RemoveElement DEF Counted
<1>8. completed'[h] = completed[h] + 1
      /\ \A m \in Servers : m # h => completed'[m] = completed[m]
  BY <1>1 DEF TypeOK
<1>9. Cardinality(InFlight(h)) \in Nat /\ tokens[h] \in Nat /\ completed[h] \in Nat
  BY FS_CardinalityType DEF Counted, TypeOK
<1> QED BY <1>1, <1>4, <1>7, <1>8, <1>9 DEF Counted

LEMMA NextCounted == ASSUME TypeOK, Counted, [Next]_vars PROVE Counted'
<1>1. ASSUME UNCHANGED <<posted, tokens, completed>>
      PROVE  Counted'
  BY <1>1 DEF Counted, InFlight
<1>2. ASSUME NEW t \in Threads, ThreadStep(t)
      PROVE  Counted'
  BY <1>1, <1>2, PostCounts DEF ThreadStep, CachePut, CacheEvict, Return, WriteRemote, DeallocRemote
<1>3. ASSUME NEW m \in Servers, ExecutePending(m)
      PROVE  Counted'
  <2>1. /\ tokens'[m] = tokens[m] + 1 /\ completed'[m] = completed[m] - 1
        /\ \A o \in Servers \ {m} : tokens'[o] = tokens[o] /\ completed'[o] = completed[o]
        /\ tokens[m] \in Nat /\ completed[m] \in Nat
    BY <1>3 DEF ExecutePending, TypeOK
  <2>2. \A o \in Servers : InFlight(o)' = InFlight(o)
    BY <1>3 DEF ExecutePending, InFlight
  <2>3. Cardinality(InFlight(m)) \in Nat
    BY FS_CardinalityType DEF Counted
  <2> QED BY <2>1, <2>2, <2>3 DEF Counted
<1>4. ASSUME NEW m \in Servers, NEW k \in Keys, StartRead(m, k) \/ EndRead(m, k)
      PROVE  Counted'
  BY <1>1, <1>4 DEF StartRead, EndRead
<1>5. ASSUME NEW m \in Servers, NEW e \in Keys, NEW f \in Keys, UpdateLocalKey(m, e, f)
      PROVE  Counted'
  BY <1>1, <1>5 DEF UpdateLocalKey
<1>6. CASE UNCHANGED vars
  BY <1>1, <1>6 DEF vars
<1> QED BY <1>2, <1>3, <1>4, <1>5, <1>6, NicCounts DEF Next

-----------------------------------------------------------------------------
(* The theorems                                                            *)

\* Whatever the order of callbacks, NIC, workers and reads, types are kept,
\* also where threads of one server run callbacks at once.
THEOREM TypeCorrect == Spec => []TypeOK
<1>1. Init => TypeOK
  BY InitIInv DEF IInv
<1>2. TypeOK /\ [Next]_vars => TypeOK'
  BY NextTyped
<1> QED BY <1>1, <1>2, PTL DEF Spec

\* The request tokens of a server are conserved: each is free, belongs to a write
\* the NIC has not finished, or waits for a worker (get_request_token, write,
\* execute_pending); panics and overlapping callbacks lose none.
THEOREM NoTokenLost == Spec => []TokensConserved
<1>1. Counted => TokensConserved
  BY DEF Counted, TokensConserved
<1>2. TypeOK /\ Counted /\ [Next]_vars => Counted'
  BY NextCounted
<1> QED BY <1>1, <1>2, InitCounted, TypeCorrect, PTL DEF Spec

\* No copy of a cache index stays wrong: it agrees with its owner's entry unless
\* a write is on its way or a repair came last (write_remote, dealloc_remote), as
\* long as nobody puts a key back while it is being deallocated.
THEOREM Convergence == Spec /\ []NoPutInDealloc => []CopiesCatchUp
<1>1. IInv => CopiesCatchUp
  BY DEF IInv
<1>2. IInv /\ NoPutInDealloc' /\ [Next]_vars => IInv'
  BY NextIInv
<1> QED BY <1>1, <1>2, InitIInv, PTL DEF Spec

\* The hypothesis is met when one thread of each server runs its callbacks.
THEOREM ConvergenceOneThread == ASSUME OneThreadEach PROVE Spec => []CopiesCatchUp
<1>1. NoPutInDealloc
  BY DEF OneThreadEach, NoPutInDealloc
<1> QED BY <1>1, Convergence, PTL

=============================================================================
