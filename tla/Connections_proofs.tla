------------------------- MODULE Connections_proofs -------------------------
(***************************************************************************)
(* Proofs about RdmaSetup and Connections.                                 *)
(*                                                                         *)
(* RdmaSetup, for any number of servers, with and without logs: what a     *)
(* server has done of a round is said by its round, its position in it and *)
(* the server it calls next: Called.  Everything else is stated with it:   *)
(* connections are counted and recorded as they are made, nobody leaves a  *)
(* round before everybody has called it, and nobody is called in a round   *)
(* it has not reached.                                                     *)
(*                                                                         *)
(* Connections, for any number of servers, client machines, threads and    *)
(* clients per thread: nothing is sent astray because an object that is    *)
(* built knows everybody its thread writes to.  A response finds the       *)
(* client that asked because source ports tell the channels of a machine   *)
(* apart, and because at most one message concerns a client that waits:    *)
(* its get, then the response.                                             *)
(***************************************************************************)
EXTENDS Connections, FiniteSetTheorems, TLAPS

\* Server s has connected to t in round r.
Called(s, r, t) == r < round[s] \/ (r = round[s] /\ (t < to[s] \/ at[s] = "done"))

Callers(t) == {s \in Servers : Called(s, round[t], t)}

\* The types that the next-state relation preserves by itself.
Typed ==
    /\ loop \in {"rereads", "hoisted", "removed"}
    /\ round \in [Servers -> 0 .. Finished]
    /\ bound \in [Servers -> SUBSET Rounds]
    /\ accepted \in [Servers -> 0 .. NumServers]
    /\ flag \in [Servers -> BOOLEAN]
    /\ at \in [Servers -> {"spin", "sleep", "connect", "wait", "done", "stuck", "refused"}]
    /\ to \in [Servers -> Servers]
    /\ qps \in [Servers -> [Objects -> Seq(Rounds \X Servers)]]

\* Before its calls a server has called nobody in its round, and the port it
\* waits at is bound.
Placed == \A s \in Servers :
    /\ at[s] \in {"spin", "sleep", "stuck"} => to[s] = 0
    /\ round[s] = Finished => at[s] = "spin"
    /\ at[s] = "wait" => round[s] \in bound[to[s]]

\* A listening thread counts who has called it in its round.
Counted == \A t \in Servers : accepted[t] = Cardinality(Callers(t))

\* A server has been called by everybody in the rounds it has left, and by
\* nobody in those it has not entered.
RoundsInStep == \A s, t \in Servers : \A r \in Rounds :
    /\ r < round[t] => Called(s, r, t)
    /\ Called(s, r, t) => r <= round[t] /\ r \in bound[t]

SetupInv == Typed /\ Placed /\ Counted /\ RoundsInStep

-----------------------------------------------------------------------------
(* Rounds                                                                  *)

LEMMA RoundFacts ==
    /\ NumServers \in Nat \ {0} /\ NumServers - 1 \in Servers
    /\ IsFiniteSet(Servers) /\ Cardinality(Servers) = NumServers
    /\ \A s \in Servers : s \in Nat /\ s < NumServers
    /\ 0 \in Servers
    /\ FirstRound("values") \in Nat \ {0}
    /\ Finished \in Nat \ {0, 1} /\ 0 \in Rounds
    /\ \A r : r \in Rounds <=> r \in Nat /\ r < Finished
    /\ \A r : r \in 0 .. Finished <=> r \in Nat /\ r <= Finished
<1>1. NumServers \in Nat \ {0}
  BY SetupIsSane
<1>2. IsFiniteSet(Servers) /\ Cardinality(Servers) = NumServers
  BY <1>1, FS_Interval DEF Servers
<1>3. FirstRound("values") \in Nat \ {0}
  BY <1>1, SetupIsSane DEF FirstRound
<1>4. Finished \in Nat \ {0, 1}
  BY <1>3 DEF Finished
<1> QED BY <1>1, <1>2, <1>3, <1>4 DEF Servers, Rounds

\* The rounds of an object follow one another.
LEMMA ObjectFacts ==
    ASSUME NEW r \in Rounds
    PROVE  /\ Object(r) \in Objects
           /\ FirstRound(Object(r)) \in Nat /\ FirstRound(Object(r)) <= r
           /\ r + 1 \in Rounds => \/ Object(r + 1) = Object(r)
                                  \/ FirstRound(Object(r + 1)) = r + 1
<1>1. NumServers \in Nat \ {0} /\ UseLogs \in BOOLEAN
  BY SetupIsSane
<1>2. r \in Nat /\ r <= FirstRound("values")
  BY RoundFacts DEF Finished, Rounds
<1> QED BY <1>1, <1>2 DEF Object, Objects, FirstRound, Rounds, Finished

-----------------------------------------------------------------------------
(* How a step changes what has been called                                 *)

\* A step that moves no server within its calls.
LEMMA SameCalls ==
    ASSUME Typed, UNCHANGED <<round, to>>,
           \A s \in Servers : at'[s] = "done" <=> at[s] = "done"
    PROVE  /\ \A s \in Servers : \A r, t : Called(s, r, t)' <=> Called(s, r, t)
           /\ \A t \in Servers : Callers(t)' = Callers(t)
<1>1. \A s \in Servers : \A r, t : Called(s, r, t)' <=> Called(s, r, t)
  BY DEF Called
<1>2. ASSUME NEW t \in Servers
      PROVE  Callers(t)' = Callers(t)
  <2>1. round'[t] = round[t]
    OBVIOUS
  <2>2. \A s \in Servers : Called(s, round[t], t)' <=> Called(s, round[t], t)
    BY <1>1
  <2>3. Callers(t)' = {s \in Servers : Called(s, round[t], t)'}
    BY <2>1 DEF Callers
  <2> QED BY <2>2, <2>3 DEF Callers
<1> QED BY <1>1, <1>2

\* Entering the next round with nobody called in it.
LEMMA LeaveCalls ==
    ASSUME Typed, NEW s \in Servers, Leave(s)
    PROVE  \A u \in Servers, t \in Servers, r \in Int :
               Called(u, r, t)' <=> Called(u, r, t)
<1> SUFFICES ASSUME NEW u \in Servers, NEW t \in Servers, NEW r \in Int
             PROVE  Called(u, r, t)' <=> Called(u, r, t)
  OBVIOUS
<1>1. round[u] \in Int /\ round[s] \in Rounds /\ t \in Nat
  BY RoundFacts DEF Typed, Leave, CanLeave, Running
<1>2. CASE u # s
  BY <1>2 DEF Leave, Called, Typed
<1>3. CASE u = s
  <2>1. round'[s] = round[s] + 1 /\ to'[s] = 0 /\ at'[s] # "done" /\ at[s] = "done"
    BY DEF Leave, CanLeave, Typed, Start
  <2> QED BY <1>1, <1>3, <2>1, RoundFacts DEF Called
<1> QED BY <1>2, <1>3

LEMMA AcceptCalls ==
    ASSUME Typed, NEW s \in Servers, NEW t \in Servers, Accept(t, s)
    PROVE  /\ round[t] = round[s] /\ round[s] \in Rounds /\ ~Called(s, round[s], t)
           /\ \A u \in Servers, v \in Servers, r \in Int :
                  Called(u, r, v)' <=> Called(u, r, v) \/ (u = s /\ r = round[s] /\ v = t)
<1>1. /\ round[t] = round[s] /\ round[s] \in Rounds /\ at[s] = "wait" /\ to[s] = t
      /\ t \in Nat /\ UNCHANGED round
  BY RoundFacts DEF Accept, Calls, Running
<1>2. ~Called(s, round[s], t)
  BY <1>1, RoundFacts DEF Called
<1>3. ASSUME NEW u \in Servers, NEW v \in Servers, NEW r \in Int
      PROVE  Called(u, r, v)' <=> Called(u, r, v) \/ (u = s /\ r = round[s] /\ v = t)
  <2>1. CASE u # s
    BY <2>1 DEF Accept, Advance, Called, Typed
  <2>2. CASE u = s /\ t = NumServers - 1
    <3>1. at'[s] = "done"
      BY <2>2 DEF Accept, Advance, Calls, Typed
    <3>2. v \in Nat /\ v <= t
      BY <2>2, RoundFacts
    <3> QED BY <1>1, <2>2, <3>1, <3>2, RoundFacts DEF Called
  <2>3. CASE u = s /\ t # NumServers - 1
    <3>1. at'[s] = "connect" /\ to'[s] = t + 1
      BY <1>1, <2>3 DEF Accept, Advance, Typed
    <3>2. v \in Nat
      BY RoundFacts
    <3> QED BY <1>1, <2>3, <3>1, <3>2, RoundFacts DEF Called
  <2> QED BY <2>1, <2>2, <2>3
<1> QED BY <1>1, <1>2, <1>3
-----------------------------------------------------------------------------
(* The invariant is kept                                                   *)

LEMMA InitSetup == Init => SetupInv
<1> SUFFICES ASSUME Init PROVE SetupInv
  OBVIOUS
<1>1. Typed
  BY RoundFacts DEF Init, Typed, Start, Objects
<1>2. Placed
  BY RoundFacts DEF Init, Placed, Start
<1>3. \A s \in Servers, t \in Servers : \A r \in 0 .. Finished : ~Called(s, r, t)
  BY RoundFacts DEF Init, Called, Start
<1>4. \A t \in Servers : Callers(t) = {}
  BY <1>3, RoundFacts DEF Callers, Init
<1>5. Counted
  BY <1>4, FS_EmptySet DEF Counted, Init
<1>6. RoundsInStep
  BY <1>3, RoundFacts DEF RoundsInStep, Init
<1> QED BY <1>1, <1>2, <1>5, <1>6 DEF SetupInv

\* Steps that leave everybody's calls as they are, and every port bound.
LEMMA SameCallsKeep ==
    ASSUME SetupInv, UNCHANGED <<round, to, accepted>>,
           \A s \in Servers : at'[s] = "done" <=> at[s] = "done",
           \A s \in Servers : bound[s] \subseteq bound'[s]
    PROVE  Counted' /\ RoundsInStep'
<1>1. Counted'
  BY SameCalls DEF SetupInv, Counted
<1>2. RoundsInStep'
  BY SameCalls DEF SetupInv, RoundsInStep
<1> QED BY <1>1, <1>2

LEMMA SignalKeeps == ASSUME SetupInv, NEW s \in Servers, Signal(s) PROVE SetupInv'
<1>1. Typed' /\ Placed'
  BY DEF SetupInv, Signal, Typed, Placed
<1> QED BY <1>1, SameCallsKeep DEF Signal, SetupInv

LEMMA BindKeeps == ASSUME SetupInv, NEW s \in Servers, Bind(s) PROVE SetupInv'
<1>1. \A t \in Servers : bound[t] \subseteq bound'[t]
  BY DEF SetupInv, Bind, Typed
<1>2. Typed'
  BY DEF SetupInv, Bind, Running, Typed
<1>3. Placed'
  BY <1>1 DEF SetupInv, Bind, Placed
<1> QED BY <1>1, <1>2, <1>3, SameCallsKeep DEF Bind, SetupInv

LEMMA LookKeeps == ASSUME SetupInv, NEW s \in Servers, Look(s) PROVE SetupInv'
<1>1. Typed'
  BY DEF SetupInv, Look, Typed
<1>2. \A u \in Servers : u # s => at'[u] = at[u]
  BY DEF SetupInv, Look, Typed
<1>3. at[s] = "spin" /\ at'[s] \in {"connect", "sleep", "stuck"}
      /\ (at'[s] = "connect" => round[s] = 0) /\ round[s] # Finished
  BY RoundFacts DEF SetupInv, Look, Running, Typed
<1>4. Placed'
  BY <1>2, <1>3 DEF SetupInv, Look, Placed
<1> QED BY <1>1, <1>2, <1>3, <1>4, SameCallsKeep DEF Look, SetupInv

LEMMA CallKeeps == ASSUME SetupInv, NEW s \in Servers, Call(s) PROVE SetupInv'
<1>1. at[s] = "connect" /\ round[s] # Finished
  BY RoundFacts DEF Call, Running
<1>2. /\ at'[s] = "refused" \/ (at'[s] = "wait" /\ round[s] \in bound[to[s]])
      /\ \A u \in Servers : u # s => at'[u] = at[u]
  BY <1>1 DEF SetupInv, Call, Typed
<1>3. Typed'
  BY <1>1 DEF SetupInv, Call, Typed
<1>4. Placed'
  BY <1>1, <1>2 DEF SetupInv, Call, Placed
<1> QED BY <1>1, <1>2, <1>3, <1>4, SameCallsKeep DEF Call, SetupInv

LEMMA SleepEndsKeeps == ASSUME SetupInv, NEW s \in Servers, SleepEnds(s) PROVE SetupInv'
<1>1. round[s] # Finished
  BY RoundFacts DEF SleepEnds, Running
<1>2. at'[s] \in {"spin", "connect"} /\ \A u \in Servers : u # s => at'[u] = at[u]
  BY DEF SetupInv, SleepEnds, Typed
<1>3. Typed'
  BY DEF SetupInv, SleepEnds, Typed
<1>4. Placed'
  BY <1>1, <1>2 DEF SetupInv, SleepEnds, Placed
<1> QED BY <1>2, <1>3, <1>4, SameCallsKeep DEF SleepEnds, SetupInv

LEMMA AcceptKeeps ==
    ASSUME SetupInv, NEW s \in Servers, NEW t \in Servers, Accept(t, s) PROVE SetupInv'
<1>0. PICK r : r = round[s]
  OBVIOUS
<1>1. /\ Typed /\ r \in Rounds /\ r \in Nat /\ round[t] = r /\ at[s] = "wait" /\ to[s] = t
      /\ accepted[t] < NumServers /\ accepted[t] \in Nat
      /\ r \in bound[t] /\ UNCHANGED <<round, bound>>
  <2>1. r \in Rounds /\ round[t] = r /\ at[s] = "wait" /\ to[s] = t
    BY <1>0 DEF Accept, Calls, Running
  <2>2. Typed /\ accepted[t] < NumServers /\ accepted[t] \in Nat
    <3>1. Typed /\ accepted[t] \in 0 .. NumServers
      BY DEF SetupInv, Typed
    <3> QED BY <3>1, RoundFacts DEF Accept
  <2>3. r \in bound[t]
    BY <1>0, <2>1 DEF SetupInv, Placed
  <2> QED BY <2>1, <2>2, <2>3, RoundFacts DEF Accept
<1>2. ~Called(s, r, t)
  BY <1>0, <1>1, AcceptCalls
<1>3. ASSUME NEW u \in Servers, NEW v \in Servers, NEW q \in Int
      PROVE  Called(u, q, v)' <=> Called(u, q, v) \/ (u = s /\ q = r /\ v = t)
  BY <1>0, <1>1, <1>3, AcceptCalls
<1>4. Typed'
  <2>1. to' \in [Servers -> Servers]
    <3>1. t # NumServers - 1 => t + 1 \in Servers
      BY SetupIsSane DEF Servers
    <3>2. CASE t = NumServers - 1
      <4>1. to' = to
        BY <3>2 DEF Accept, Advance, Calls
      <4> QED BY <1>1, <4>1 DEF Typed
    <3>3. CASE t # NumServers - 1
      <4>1. to' = [to EXCEPT ![s] = t + 1]
        BY <1>1, <3>3 DEF Accept, Advance
      <4> QED BY <1>1, <3>1, <3>3, <4>1 DEF Typed
    <3> QED BY <3>2, <3>3
  <2>2. at' \in [Servers -> {"spin", "sleep", "connect", "wait", "done", "stuck", "refused"}]
    <3>1. at' = [at EXCEPT ![s] = "done"] \/ at' = [at EXCEPT ![s] = "connect"]
      BY DEF Accept, Advance
    <3> QED BY <1>1, <3>1 DEF Typed
  <2>3. accepted' \in [Servers -> 0 .. NumServers]
    <3>1. accepted[t] + 1 \in 0 .. NumServers
      BY <1>1, RoundFacts
    <3>2. accepted' = [accepted EXCEPT ![t] = accepted[t] + 1]
      BY DEF Accept
    <3> QED BY <1>1, <3>1, <3>2 DEF Typed
  <2>4. qps' \in [Servers -> [Objects -> Seq(Rounds \X Servers)]]
    <3>1. Object(r) \in Objects /\ <<r, t>> \in Rounds \X Servers /\ r = round[s]
      BY <1>0, <1>1, ObjectFacts
    <3>2. Append(qps[s][Object(r)], <<r, t>>) \in Seq(Rounds \X Servers)
      BY <3>1 DEF SetupInv, Typed
    <3> QED BY <3>1, <3>2 DEF SetupInv, Accept, Typed
  <2>5. /\ loop' \in {"rereads", "hoisted", "removed"} /\ round' \in [Servers -> 0 .. Finished]
        /\ bound' \in [Servers -> SUBSET Rounds] /\ flag' \in [Servers -> BOOLEAN]
    BY <1>1 DEF Accept, Typed
  <2> QED BY <2>1, <2>2, <2>3, <2>4, <2>5 DEF Typed
<1>5. Placed'
  <2>1. at'[s] \in {"connect", "done"} /\ \A u \in Servers : u # s => at'[u] = at[u] /\ to'[u] = to[u]
    BY <1>1 DEF Accept, Advance, Typed
  <2> QED BY <1>0, <1>1, <2>1, RoundFacts DEF SetupInv, Placed
<1>6. Counted'
  <2>1. ASSUME NEW v \in Servers, v # t
        PROVE  accepted'[v] = Cardinality(Callers(v)')
    <3>1. round[v] \in Int
      BY RoundFacts DEF SetupInv, Typed
    <3>2. \A u \in Servers : Called(u, round[v], v)' <=> Called(u, round[v], v)
      BY <1>1, <1>3, <2>1, <3>1
    <3>3. Callers(v)' = Callers(v)
      BY <1>1, <3>2 DEF Callers
    <3> QED BY <2>1, <3>3 DEF SetupInv, Counted, Accept, Typed
  <2>2. accepted'[t] = Cardinality(Callers(t)')
    <3>1. \A u \in Servers : Called(u, r, t)' <=> Called(u, r, t) \/ u = s
      BY <1>1, <1>3
    <3>2. Callers(t)' = Callers(t) \union {s} /\ s \notin Callers(t)
      BY <1>1, <1>2, <3>1 DEF Callers
    <3>3. IsFiniteSet(Callers(t))
      BY RoundFacts, FS_Subset DEF Callers
    <3>4. Cardinality(Callers(t)') = Cardinality(Callers(t)) + 1
      BY <3>2, <3>3, FS_AddElement
    <3> QED BY <1>1, <3>4 DEF SetupInv, Counted, Accept, Typed
  <2> QED BY <2>1, <2>2 DEF Counted
<1>7. RoundsInStep'
  BY <1>1, <1>3, RoundFacts DEF SetupInv, RoundsInStep
<1> QED BY <1>4, <1>5, <1>6, <1>7 DEF SetupInv

LEMMA LeaveKeeps == ASSUME SetupInv, NEW s \in Servers, Leave(s) PROVE SetupInv'
<1>0. PICK r : r = round[s]
  OBVIOUS
<1>1. /\ Typed /\ r = round[s] /\ r \in Rounds /\ r \in Nat /\ r + 1 \in 0 .. Finished
      /\ accepted[s] = NumServers /\ at[s] = "done" /\ UNCHANGED bound
  BY <1>0, RoundFacts DEF SetupInv, Leave, CanLeave, Running
<1>2. /\ \A u \in Servers : round'[u] = IF u = s THEN r + 1 ELSE round[u]
      /\ \A u \in Servers : accepted'[u] = IF u = s THEN 0 ELSE accepted[u]
      /\ \A u \in Servers : u # s => at'[u] = at[u] /\ to'[u] = to[u]
      /\ at'[s] = "spin" /\ to'[s] = 0
  BY <1>1 DEF Leave, Typed, Start
<1>3. ASSUME NEW u \in Servers, NEW v \in Servers, NEW q \in Int
      PROVE  Called(u, q, v)' <=> Called(u, q, v)
  BY <1>1, LeaveCalls
<1>4. Typed'
  <2>1. round' \in [Servers -> 0 .. Finished] /\ accepted' \in [Servers -> 0 .. NumServers]
    BY <1>1, RoundFacts DEF Leave, Typed
  <2>2. /\ at' \in [Servers -> {"spin", "sleep", "connect", "wait", "done", "stuck", "refused"}]
        /\ to' \in [Servers -> Servers]
    BY RoundFacts, <1>1 DEF Leave, Typed, Start
  <2>3. flag' \in [Servers -> BOOLEAN]
    BY <1>1 DEF Leave, Typed
  <2> QED BY <1>1, <2>1, <2>2, <2>3 DEF Leave, Typed
<1>5. Placed'
  BY <1>1, <1>2 DEF SetupInv, Placed
<1>6. \A u \in Servers : Called(u, r, s)
  <2>1. Callers(s) \subseteq Servers /\ Cardinality(Callers(s)) = NumServers
    BY <1>1 DEF Callers, SetupInv, Counted
  <2>2. Callers(s) = Servers
    BY <2>1, RoundFacts, FS_Subset
  <2> QED BY <1>1, <2>2 DEF Callers
<1>7. \A u \in Servers : ~Called(u, r + 1, s)'
  <2>1. ASSUME NEW u \in Servers, Called(u, r + 1, s)
        PROVE  r + 1 \in Rounds
    <3>1. CASE r + 1 = Finished
      <4>1. round[u] = Finished /\ (s < to[u] \/ at[u] = "done")
        BY <1>1, <2>1, <3>1, RoundFacts DEF Called, Typed
      <4> QED BY <4>1, RoundFacts DEF SetupInv, Placed
    <3> QED BY <1>1, <3>1, RoundFacts
  <2> QED BY <1>1, <1>3, <2>1 DEF SetupInv, RoundsInStep
<1>8. Counted'
  <2>1. ASSUME NEW v \in Servers, v # s
        PROVE  Callers(v)' = Callers(v)
    <3>1. PICK q : q = round[v] /\ q \in Int /\ round'[v] = q
      BY <1>2, <2>1, RoundFacts DEF SetupInv, Typed
    <3>2. \A u \in Servers : Called(u, q, v)' <=> Called(u, q, v)
      BY <1>3, <3>1
    <3> QED BY <3>1, <3>2 DEF Callers
  <2>2. Callers(s)' = {}
    <3>1. round'[s] = r + 1
      BY <1>2
    <3> QED BY <1>7, <3>1 DEF Callers
  <2> QED BY <1>2, <2>1, <2>2, FS_EmptySet DEF SetupInv, Counted
<1>9. RoundsInStep'
  <2> SUFFICES ASSUME NEW u \in Servers, NEW v \in Servers, NEW q \in Rounds
               PROVE  /\ q < round'[v] => Called(u, q, v)'
                      /\ Called(u, q, v)' => q <= round'[v] /\ q \in bound'[v]
    BY DEF RoundsInStep
  <2>1. q \in Int /\ round[v] \in Int /\ (Called(u, q, v)' <=> Called(u, q, v))
    <3>1. q \in Int /\ round[v] \in Int
      BY RoundFacts DEF SetupInv, Typed
    <3> QED BY <1>3, <3>1
  <2>2. CASE v = s
    <3>1. q < r \/ q = r => Called(u, q, v)
      BY <1>1, <1>6, <2>2 DEF SetupInv, RoundsInStep
    <3> QED BY <1>1, <1>2, <2>1, <2>2, <3>1 DEF SetupInv, RoundsInStep
  <2>3. CASE v # s
    BY <1>1, <1>2, <2>1, <2>3 DEF SetupInv, RoundsInStep
  <2> QED BY <2>2, <2>3
<1> QED BY <1>4, <1>5, <1>8, <1>9 DEF SetupInv

\* Every step of a server keeps the invariant.
LEMMA StepKeepsSetup == SetupInv /\ [Next]_vars => SetupInv'
<1> SUFFICES ASSUME SetupInv, [Next]_vars PROVE SetupInv'
  OBVIOUS
<1>1. ASSUME NEW s \in Servers, ServerStep(s) PROVE SetupInv'
  BY <1>1, SignalKeeps, BindKeeps, LookKeeps, SleepEndsKeeps, CallKeeps, LeaveKeeps, AcceptKeeps
     DEF ServerStep
<1>2. CASE UNCHANGED vars
  <2>1. Typed' /\ Placed'
    BY <1>2 DEF vars, SetupInv, Typed, Placed
  <2> QED BY <1>2, <2>1, SameCallsKeep DEF vars, SetupInv
<1> QED BY <1>1, <1>2 DEF Next

LEMMA SetupInvariance == Spec => []SetupInv
<1> QED BY InitSetup, StepKeepsSetup, PTL DEF Spec

\* A server's state has its type throughout the set-up.
THEOREM TypeCorrect == Spec => []TypeOK
<1>1. SetupInv => TypeOK
  BY DEF SetupInv, Typed, TypeOK
<1> QED BY <1>1, SetupInvariance, PTL

-----------------------------------------------------------------------------
(* The queue pairs                                                         *)

\* Every connection made is in the list of its round's object.
Recorded == \A s, t \in Servers : \A r \in Rounds :
    Called(s, r, t) => <<r, t>> \in Range(qps[s][Object(r)])

LEMMA RangeOfAppend ==
    ASSUME NEW S, NEW q \in Seq(S), NEW e \in S
    PROVE  Range(Append(q, e)) = Range(q) \union {e}
<1> DEFINE p == Append(q, e)
<1>1. /\ Len(q) \in Nat /\ DOMAIN q = 1 .. Len(q) /\ DOMAIN p = 1 .. Len(q) + 1
      /\ p[Len(q) + 1] = e /\ \A i \in 1 .. Len(q) : p[i] = q[i]
  OBVIOUS
<1> HIDE DEF p
<1>2. \A x \in Range(p) : x \in Range(q) \union {e}
  BY <1>1 DEF Range
<1>3. e \in Range(p)
  <2>1. Len(q) + 1 \in DOMAIN p
    BY <1>1
  <2> QED BY <1>1, <2>1 DEF Range
<1>4. \A x \in Range(q) : x \in Range(p)
  BY <1>1 DEF Range
<1> QED BY <1>2, <1>3, <1>4 DEF p

LEMMA RecordedStep == SetupInv /\ Recorded /\ [Next]_vars => Recorded'
<1> SUFFICES ASSUME SetupInv, Recorded, [Next]_vars PROVE Recorded'
  OBVIOUS
<1> Typed
  BY DEF SetupInv
<1>1. ASSUME UNCHANGED <<round, to, qps>>, \A s \in Servers : at'[s] = "done" <=> at[s] = "done"
      PROVE  Recorded'
  BY <1>1, SameCalls DEF Recorded
<1>2. ASSUME NEW s \in Servers, Signal(s) \/ Bind(s)
      PROVE  Recorded'
  BY <1>1, <1>2 DEF Signal, Bind
<1>3. ASSUME NEW s \in Servers, Look(s) \/ SleepEnds(s) \/ Call(s)
      PROVE  Recorded'
  <2>1. \A u \in Servers : at'[u] = "done" <=> at[u] = "done"
    BY <1>3 DEF Look, SleepEnds, Call, Typed
  <2> QED BY <1>1, <1>3, <2>1 DEF Look, SleepEnds, Call
<1>4. ASSUME NEW s \in Servers, Leave(s)
      PROVE  Recorded'
  <2>1. \A u, t \in Servers : \A r \in Rounds : Called(u, r, t)' <=> Called(u, r, t)
    BY <1>4, LeaveCalls, RoundFacts
  <2> QED BY <1>4, <2>1 DEF Leave, Recorded
<1>5. ASSUME NEW s \in Servers, NEW t \in Servers, Accept(t, s)
      PROVE  Recorded'
  <2>1. PICK k : k = round[s] /\ k \in Rounds
    BY <1>5, AcceptCalls
  <2>2. \A u, v \in Servers : \A r \in Rounds :
            Called(u, r, v)' <=> Called(u, r, v) \/ (u = s /\ r = k /\ v = t)
    BY <1>5, <2>1, AcceptCalls, RoundFacts
  <2>3. \A u \in Servers, o \in Objects :
            qps'[u][o] = IF u = s /\ o = Object(k) THEN Append(qps[u][o], <<k, t>>) ELSE qps[u][o]
    BY <1>5, <2>1, ObjectFacts DEF Accept, Typed
  <2>4. \A u \in Servers, o \in Objects :
            /\ Range(qps[u][o]) \subseteq Range(qps'[u][o])
            /\ u = s /\ o = Object(k) => <<k, t>> \in Range(qps'[u][o])
    <3> SUFFICES ASSUME NEW u \in Servers, NEW o \in Objects
                 PROVE  /\ Range(qps[u][o]) \subseteq Range(qps'[u][o])
                        /\ u = s /\ o = Object(k) => <<k, t>> \in Range(qps'[u][o])
      OBVIOUS
    <3>1. qps[u][o] \in Seq(Rounds \X Servers) /\ <<k, t>> \in Rounds \X Servers
      BY <2>1 DEF Typed
    <3>2. Range(Append(qps[u][o], <<k, t>>)) = Range(qps[u][o]) \union {<<k, t>>}
      BY <3>1, RangeOfAppend
    <3> QED BY <2>3, <3>2
  <2>5. ASSUME NEW u \in Servers, NEW v \in Servers, NEW r \in Rounds, Called(u, r, v)'
        PROVE  <<r, v>> \in Range(qps'[u][Object(r)])
    BY <2>1, <2>2, <2>4, <2>5, ObjectFacts DEF Recorded
  <2> QED BY <2>5 DEF Recorded
<1>6. CASE UNCHANGED vars
  BY <1>1, <1>6 DEF vars
<1> QED BY <1>2, <1>3, <1>4, <1>5, <1>6 DEF Next, ServerStep

\* Whoever leaves a round has connections to everybody and is connected to by
\* everybody, whatever the order of calls and sleeps.
THEOREM LeavesAllConnected == Spec => []LeavesConnected
<1>1. Init => Recorded
  <2> SUFFICES ASSUME Init, NEW s \in Servers, NEW t \in Servers, NEW r \in Rounds
               PROVE  ~Called(s, r, t)
    BY DEF Recorded
  <2> QED BY RoundFacts DEF Init, Called, Start
<1>2. SetupInv /\ Recorded => LeavesConnected
  <2> SUFFICES ASSUME SetupInv, Recorded, NEW s \in Servers, NEW t \in Servers, NEW r \in Rounds,
                      r < round[s] \/ r < round[t]
               PROVE  <<r, t>> \in UNION {Range(qps[s][o]) : o \in Objects}
    BY DEF LeavesConnected
  <2>1. Called(s, r, t)
    BY DEF Called, SetupInv, RoundsInStep
  <2>2. <<r, t>> \in Range(qps[s][Object(r)]) /\ Object(r) \in Objects
    BY <2>1, ObjectFacts DEF Recorded
  <2> QED BY <2>2
<1> QED BY <1>1, <1>2, InitSetup, SetupInvariance, RecordedStep, PTL DEF Spec

\* How many queue pairs of round r's object come before those of round r, and
\* the place of the one that leads to server t.
Before(r) == NumServers * (r - FirstRound(Object(r)))
Place(r, t) == Before(r) + t + 1

LEMMA DivOfSum ==
    ASSUME NEW n \in Nat \ {0}, NEW k \in Nat, NEW t \in Nat, t < n
    PROVE  (n * k + t) \div n = k /\ (n * k + t) % n = t
<1> DEFINE x == n * k + t
<1>1. PICK d \in Nat : d = x \div n
  OBVIOUS
<1>2. PICK m \in 0 .. n - 1 : m = x % n
  OBVIOUS
<1>3. x = n * d + m
  BY <1>1, <1>2
<1>4. n * k + t = n * d + m
  BY <1>3
<1>5. CASE d < k
  <2>1. n * (d + 1) <= n * k
    BY <1>5
  <2>2. n * (d + 1) = n * d + n
    OBVIOUS
  <2> QED BY <1>4, <2>1, <2>2
<1>6. CASE k < d
  <2>1. n * (k + 1) <= n * d
    BY <1>6
  <2>2. n * (k + 1) = n * k + n
    OBVIOUS
  <2> QED BY <1>4, <2>1, <2>2
<1>7. CASE k = d
  BY <1>1, <1>2, <1>4, <1>7
<1> QED BY <1>5, <1>6, <1>7

LEMMA PlaceFacts ==
    ASSUME NEW r \in Rounds, NEW t \in Servers
    PROVE  /\ Place(r, t) \in Nat
           /\ FirstRound(Object(r)) + (Place(r, t) - 1) \div NumServers = r
           /\ (Place(r, t) - 1) % NumServers = t
<1>1. PICK k \in Nat : k = r - FirstRound(Object(r))
  BY ObjectFacts, RoundFacts
<1>2. t \in Nat /\ t < NumServers /\ NumServers \in Nat \ {0} /\ NumServers * k \in Nat
  BY <1>1, RoundFacts
<1>3. Place(r, t) - 1 = NumServers * k + t
  BY <1>1, <1>2 DEF Place, Before
<1>4. (NumServers * k + t) \div NumServers = k /\ (NumServers * k + t) % NumServers = t
  BY <1>1, <1>2, DivOfSum
<1>5. r \in Nat /\ FirstRound(Object(r)) \in Nat
  BY ObjectFacts, RoundFacts
<1>6. FirstRound(Object(r)) + k = r /\ Place(r, t) \in Nat
  BY <1>1, <1>2, <1>5 DEF Place, Before
<1> QED BY <1>3, <1>4, <1>6

\* How many queue pairs an object has while its rounds go on, and before.
Grown == \A s \in Servers :
    /\ round[s] \in Rounds =>
           Len(qps[s][Object(round[s])]) =
               Before(round[s]) + (IF at[s] = "done" THEN NumServers ELSE to[s])
    /\ \A o \in Objects : round[s] < FirstRound(o) => qps[s][o] = <<>>

LEMMA QpsStep == SetupInv /\ Grown /\ QpsInOrder /\ [Next]_vars => Grown' /\ QpsInOrder'
<1> SUFFICES ASSUME SetupInv, Grown, QpsInOrder, [Next]_vars PROVE Grown' /\ QpsInOrder'
  OBVIOUS
<1> Typed
  BY DEF SetupInv
<1>1. ASSUME UNCHANGED <<round, to, qps>>, \A s \in Servers : at'[s] = "done" <=> at[s] = "done"
      PROVE  Grown' /\ QpsInOrder'
  BY <1>1 DEF Grown, QpsInOrder
<1>2. ASSUME NEW s \in Servers, Signal(s) \/ Bind(s)
      PROVE  Grown' /\ QpsInOrder'
  BY <1>1, <1>2 DEF Signal, Bind
<1>3. ASSUME NEW s \in Servers, Look(s) \/ SleepEnds(s) \/ Call(s)
      PROVE  Grown' /\ QpsInOrder'
  <2>1. \A u \in Servers : at'[u] = "done" <=> at[u] = "done"
    BY <1>3 DEF Look, SleepEnds, Call, Typed
  <2> QED BY <1>1, <1>3, <2>1 DEF Look, SleepEnds, Call
<1>4. ASSUME NEW s \in Servers, Leave(s)
      PROVE  Grown' /\ QpsInOrder'
  <2>1. PICK r : r = round[s] /\ r \in Rounds /\ r \in Nat
    BY <1>4, RoundFacts DEF Leave, CanLeave, Running
  <2>2. /\ round'[s] = r + 1 /\ to'[s] = 0 /\ at'[s] = "spin" /\ at[s] = "done"
        /\ \A u \in Servers : u # s => round'[u] = round[u] /\ to'[u] = to[u] /\ at'[u] = at[u]
        /\ UNCHANGED qps
    BY <1>4, <2>1 DEF Leave, CanLeave, Typed, Start
  <2>3. ASSUME r + 1 \in Rounds
        PROVE  Len(qps[s][Object(r + 1)]) = Before(r + 1)
    <3>1. CASE Object(r + 1) = Object(r)
      <4>1. PICK k \in Nat : k = r - FirstRound(Object(r))
        BY <2>1, ObjectFacts, RoundFacts
      <4>2. Len(qps[s][Object(r)]) = NumServers * k + NumServers
        BY <2>1, <2>2, <4>1 DEF Grown, Before
      <4>3. NumServers * k + NumServers = NumServers * (k + 1)
        BY RoundFacts
      <4>4. r + 1 - FirstRound(Object(r + 1)) = k + 1
        BY <2>1, <3>1, <4>1, ObjectFacts
      <4>5. Before(r + 1) = NumServers * (k + 1)
        <5>1. FirstRound(Object(r + 1)) \in Nat /\ NumServers \in Nat
          BY <2>3, ObjectFacts, RoundFacts
        <5> QED BY <2>1, <4>4, <5>1 DEF Before
      <4> QED BY <3>1, <4>2, <4>3, <4>5
    <3>2. CASE FirstRound(Object(r + 1)) = r + 1
      <4>1. Object(r + 1) \in Objects /\ r < FirstRound(Object(r + 1))
        BY <2>1, <2>3, <3>2, ObjectFacts
      <4>2. qps[s][Object(r + 1)] = <<>>
        BY <2>1, <4>1 DEF Grown
      <4> QED BY <2>1, <3>2, <4>2, RoundFacts DEF Before
    <3> QED BY <2>1, <2>3, <3>1, <3>2, ObjectFacts
  <2>4. ASSUME NEW o \in Objects, r + 1 < FirstRound(o)
        PROVE  qps[s][o] = <<>>
    <3>1. r < FirstRound(o)
      BY <2>1, <2>4, SetupIsSane DEF FirstRound, Objects
    <3> QED BY <2>1, <3>1 DEF Grown
  <2>5. ASSUME NEW u \in Servers
        PROVE  /\ round'[u] \in Rounds =>
                    Len(qps'[u][Object(round'[u])]) =
                        Before(round'[u]) + (IF at'[u] = "done" THEN NumServers ELSE to'[u])
               /\ \A o \in Objects : round'[u] < FirstRound(o) => qps'[u][o] = <<>>
    <3>1. CASE u = s
      <4>1. r + 1 \in Rounds => Before(r + 1) \in Int
        BY <2>1, ObjectFacts, RoundFacts DEF Before
      <4>2. round'[u] = r + 1 /\ at'[u] # "done" /\ to'[u] = 0 /\ qps'[u] = qps[s]
        BY <2>2, <3>1
      <4> QED BY <2>3, <2>4, <4>1, <4>2
    <3>2. CASE u # s
      BY <2>2, <3>2 DEF Grown
    <3> QED BY <3>1, <3>2
  <2> QED BY <2>2, <2>5 DEF Grown, QpsInOrder
<1>5. ASSUME NEW s \in Servers, NEW t \in Servers, Accept(t, s)
      PROVE  Grown' /\ QpsInOrder'
  <2>1. PICK k : k = round[s] /\ k \in Rounds /\ k \in Nat
    BY <1>5, RoundFacts DEF Accept, Calls, Running
  <2> DEFINE o == Object(k)
             old == qps[s][o]
             e == <<k, t>>
  <2>2. /\ at[s] = "wait" /\ to[s] = t /\ o \in Objects /\ e \in Rounds \X Servers
        /\ old \in Seq(Rounds \X Servers)
    BY <1>5, <2>1, ObjectFacts DEF Accept, Calls, Typed
  <2>3. /\ UNCHANGED round
        /\ \A u \in Servers : u # s => qps'[u] = qps[u] /\ to'[u] = to[u] /\ at'[u] = at[u]
        /\ \A p \in Objects : p # o => qps'[s][p] = qps[s][p]
        /\ qps'[s][o] = Append(old, e)
    BY <1>5, <2>1, <2>2 DEF Accept, Advance, Typed
  <2>4. (IF at'[s] = "done" THEN NumServers ELSE to'[s]) = t + 1
    <3>1. t = NumServers - 1 => at'[s] = "done"
      BY <1>5 DEF Accept, Advance, Calls, Typed
    <3>2. t # NumServers - 1 => at'[s] = "connect" /\ to'[s] = t + 1
      BY <1>5, <2>2 DEF Accept, Advance, Typed
    <3> QED BY <3>1, <3>2, RoundFacts
  <2>5. Len(old) + 1 = Place(k, t) /\ Len(old) \in Nat
    <3>1. Len(old) = Before(k) + t
      BY <2>1, <2>2 DEF Grown
    <3> QED BY <2>2, <3>1 DEF Place
  <2>6. Len(Append(old, e)) = Len(old) + 1 /\ Append(old, e)[Len(old) + 1] = e
        /\ \A p \in 1 .. Len(old) : Append(old, e)[p] = old[p]
    BY <2>2
  <2>7. QpsInOrder'
    <3>1. \A p \in 1 .. Len(old) :
              old[p] = <<FirstRound(o) + (p - 1) \div NumServers, (p - 1) % NumServers>>
      BY <2>2 DEF QpsInOrder
    <3>2. e = <<FirstRound(o) + (Place(k, t) - 1) \div NumServers, (Place(k, t) - 1) % NumServers>>
      BY <2>1, PlaceFacts
    <3>3. \A p \in 1 .. Len(old) + 1 : Append(old, e)[p] =
              <<FirstRound(o) + (p - 1) \div NumServers, (p - 1) % NumServers>>
      <4> SUFFICES ASSUME NEW p \in 1 .. Len(old) + 1
                   PROVE  Append(old, e)[p] =
                              <<FirstRound(o) + (p - 1) \div NumServers, (p - 1) % NumServers>>
        OBVIOUS
      <4>1. CASE p \in 1 .. Len(old)
        BY <2>6, <3>1, <4>1
      <4>2. CASE p = Len(old) + 1
        BY <2>5, <2>6, <3>2, <4>2
      <4> QED BY <2>5, <4>1, <4>2
    <3>4. ASSUME NEW u \in Servers, NEW p \in Objects
          PROVE  \A i \in 1 .. Len(qps'[u][p]) :
                     qps'[u][p][i] = <<FirstRound(p) + (i - 1) \div NumServers, (i - 1) % NumServers>>
      <4>1. CASE u = s /\ p = o
        BY <2>3, <2>6, <3>3, <4>1
      <4>2. CASE ~(u = s /\ p = o)
        <5>1. qps'[u][p] = qps[u][p]
          BY <2>3, <4>2
        <5> QED BY <5>1 DEF QpsInOrder
      <4> QED BY <4>1, <4>2
    <3> QED BY <3>4 DEF QpsInOrder
  <2>8. Grown'
    <3>1. ASSUME NEW u \in Servers, u # s
          PROVE  /\ round'[u] \in Rounds =>
                      Len(qps'[u][Object(round'[u])]) =
                          Before(round'[u]) + (IF at'[u] = "done" THEN NumServers ELSE to'[u])
                 /\ \A p \in Objects : round'[u] < FirstRound(p) => qps'[u][p] = <<>>
      BY <2>3, <3>1 DEF Grown
    <3>2. Len(qps'[s][o]) = Before(k) + (t + 1)
      <4>1. Before(k) \in Int /\ t \in Nat
        BY <2>1, ObjectFacts, RoundFacts DEF Before
      <4> QED BY <2>3, <2>5, <2>6, <4>1 DEF Place
    <3>3. \A p \in Objects : round'[s] < FirstRound(p) => qps'[s][p] = <<>>
      <4>1. ~(k < FirstRound(o))
        BY <2>1, ObjectFacts
      <4> QED BY <2>1, <2>3, <4>1 DEF Grown
    <3>4. round'[s] = k
      BY <2>1, <2>3
    <3> QED BY <2>4, <3>1, <3>2, <3>3, <3>4 DEF Grown
  <2> QED BY <2>7, <2>8
<1>6. CASE UNCHANGED vars
  BY <1>1, <1>6 DEF vars
<1> QED BY <1>2, <1>3, <1>4, <1>5, <1>6 DEF Next, ServerStep

\* connect_qps[i * N + j] leads to server j in round i of its object, for any
\* number of servers: writes to other servers' indexes and logs go where they
\* are meant to.
THEOREM QpsWhereLooked == Spec => []QpsInOrder
<1>1. Init => Grown /\ QpsInOrder
  <2> SUFFICES ASSUME Init PROVE Grown /\ QpsInOrder
    OBVIOUS
  <2>1. Object(0) = "nodes" /\ FirstRound("nodes") = 0 /\ Len(<<>>) = 0
    <3>1. FirstRound("nodes") = 0
      BY DEF FirstRound
    <3>2. Object(0) = "nodes"
      BY RoundFacts DEF Object
    <3> QED BY <3>1, <3>2
  <2>2. Grown
    BY <2>1, RoundFacts DEF Init, Grown, Before, Start, Objects
  <2>3. QpsInOrder
    BY DEF Init, QpsInOrder
  <2> QED BY <2>2, <2>3
<1> QED BY <1>1, InitSetup, SetupInvariance, QpsStep, PTL DEF Spec

-----------------------------------------------------------------------------
(* Connections                                                             *)

ConnectionsTyped ==
    /\ DOMAIN phase = Machines /\ DOMAIN flows = Machines /\ DOMAIN asked = Machines
    /\ \A m \in Machines :
          /\ phase[m] \in [Channels(m) -> Phases]
          /\ flows[m] \in [Channels(m) -> SUBSET FlowKeys]
          /\ asked[m] \in [Channels(m) -> ServerMachines \union {NoMachine}]
    /\ wire \subseteq Messages
    /\ astray \subseteq FlowKeys
    /\ sync \in [ClientMachines -> [stage : Stages, unsent : SUBSET ClientMachines,
                                    polled : Nat, acks : SUBSET ClientMachines]]

\* An object that is built is connected to every server but itself, and a leader
\* that syncs to every other leader.
BuiltKnows ==
    /\ \A m \in Machines : \A c \in Channels(m) :
           phase[m][c] \in {"built", "work", "done"} => Missing(m, c, flows[m][c]) = {}
    /\ \A m \in ClientMachines :
           /\ sync[m].unsent \subseteq OtherClients(m)
           /\ sync[m].stage \notin {"start", "meet"} => Unmet(m) = {}

\* Message q is the get of client (m, c), not a leader, or the response to it.
Concerns(q, m, c) ==
    /\ c # Leader
    /\ \/ q.kind = "get" /\ q.from = m /\ q.port = SourcePort(c)
       \/ q.kind = "response" /\ q.to = m /\ q.chan = c

\* Who sends what to whom, and that nobody waits for another server's answer.
Addressed ==
    /\ \A m \in ServerMachines : \A c \in Channels(m) : asked[m][c] = NoMachine
    /\ \A q \in wire :
        /\ q.kind = "singleton" => IsServer(q.to)
        /\ q.kind = "get" => /\ ~IsServer(q.from) /\ IsServer(q.to)
                             /\ \E c \in Channels(q.from) : q.port = SourcePort(c)
        /\ q.kind = "response" => ~IsServer(q.to) /\ q.chan \in Channels(q.to)
        /\ q.kind = "sync" => q.from \in ClientMachines /\ q.chan = Leader
        /\ \A m \in ClientMachines : \A c \in Channels(m) :
               Concerns(q, m, c) =>
                   asked[m][c] = (IF q.kind = "get" THEN q.to ELSE q.from) /\ asked[m][c] # NoMachine

\* Never two messages at once concern a client.
OneAtATime == \A m \in ClientMachines : \A c \in Channels(m) : \A q, r \in wire :
    Concerns(q, m, c) /\ Concerns(r, m, c) => q = r

ConnectionsInv ==
    ConnectionsTyped /\ BuiltKnows /\ NothingAstray /\ Addressed /\ OneAtATime

-----------------------------------------------------------------------------
(* Machines, channels and ports                                            *)

LEMMA MachineFacts ==
    /\ NumClients \in Nat /\ NumServers \in Nat \ {0}
    /\ ServerThreads \in Nat \ {0} /\ ClientThreads \in Nat \ {0} /\ ClientsPerThread \in Nat \ {0}
    /\ ClientThreads <= ServerThreads
    /\ \A m \in Machines : m \in Nat /\ m # NoMachine
    /\ \A m \in Machines : m \in ServerMachines <=> IsServer(m)
    /\ \A m \in Machines : m \in ClientMachines <=> ~IsServer(m)
    /\ ServerMachines \subseteq Machines /\ ClientMachines \subseteq Machines
<1>1. /\ NumClients \in Nat /\ NumServers \in Nat \ {0}
      /\ ServerThreads \in Nat \ {0} /\ ClientThreads \in Nat \ {0} /\ ClientsPerThread \in Nat \ {0}
      /\ ClientThreads <= ServerThreads
  BY SetupIsSane, ConnectionsAreSane, EveryClientHasServer
<1>2. \A m \in Machines : m \in Nat /\ m # NoMachine
  BY <1>1, ConnectionsAreSane DEF Machines
<1> QED BY <1>1, <1>2 DEF ServerMachines, ClientMachines

LEMMA ChannelFacts ==
    ASSUME NEW m \in Machines, NEW c \in Channels(m)
    PROVE  /\ c = <<c[1], c[2]>>
           /\ c[1] \in 0 .. ServerThreads - 1 /\ c[2] \in 0 .. ClientsPerThread - 1
           /\ c \in (0 .. ServerThreads - 1) \X (0 .. ClientsPerThread - 1)
           /\ <<c[1], 0>> \in (0 .. ServerThreads - 1) \X (0 .. ClientsPerThread - 1)
           /\ c[1] \in Ports /\ SourcePort(c) \in Ports
           /\ SourcePort(c) - ServerThreads = ClientsPerThread * c[1] + c[2]
<1>1. c = <<c[1], c[2]>> /\ c[1] \in 0 .. ServerThreads - 1 /\ c[2] \in 0 .. ClientsPerThread - 1
  <2>1. CASE IsServer(m)
    BY <2>1, MachineFacts DEF Channels
  <2>2. CASE ~IsServer(m)
    BY <2>2, MachineFacts DEF Channels
  <2> QED BY <2>1, <2>2
<1>2. PICK i \in Nat, j \in Nat : /\ i = c[1] /\ j = c[2]
                                  /\ i <= ServerThreads - 1 /\ j <= ClientsPerThread - 1
  BY <1>1, MachineFacts
<1>3. PICK n \in Nat, p \in Nat : n = ServerThreads /\ p = ClientsPerThread
  BY MachineFacts
<1>4. i * p <= (n - 1) * p /\ (n - 1) * p = n * p - p /\ n * p \in Nat /\ i * p \in Nat
  <2>1. i <= n - 1 /\ n - 1 \in Nat
    BY <1>2, <1>3, MachineFacts
  <2> QED BY <1>2, <1>3, <2>1
<1>5. n * (p + 1) = n * p + n
  OBVIOUS
<1>6. SourcePort(c) = n + i * p + j
  BY <1>2, <1>3 DEF SourcePort
<1>7. SourcePort(c) \in 0 .. n * (p + 1) - 1 /\ i \in 0 .. n * (p + 1) - 1
  BY <1>2, <1>3, <1>4, <1>5, <1>6
<1>8. Ports = 0 .. n * (p + 1) - 1
  BY <1>3 DEF Ports
<1>9. SourcePort(c) - ServerThreads = p * i + j
  BY <1>2, <1>3, <1>4, <1>6
<1> QED BY <1>1, <1>2, <1>3, <1>7, <1>8, <1>9

\* Channels of a machine have different source ports.
LEMMA PortsDiffer ==
    ASSUME NEW m \in Machines, NEW c \in Channels(m), NEW d \in Channels(m),
           SourcePort(c) = SourcePort(d)
    PROVE  c = d
<1>1. PICK p \in Nat \ {0}, h \in Nat \ {0} : p = ClientsPerThread /\ h = ServerThreads
  BY MachineFacts
<1>2. PICK i \in Nat, j \in Nat : i = c[1] /\ j = c[2] /\ j < p
  <2>1. c[1] \in 0 .. ServerThreads - 1 /\ c[2] \in 0 .. ClientsPerThread - 1
    BY ChannelFacts
  <2> QED BY <2>1, <1>1
<1>3. PICK k \in Nat, l \in Nat : k = d[1] /\ l = d[2] /\ l < p
  <2>1. d[1] \in 0 .. ServerThreads - 1 /\ d[2] \in 0 .. ClientsPerThread - 1
    BY ChannelFacts
  <2> QED BY <2>1, <1>1
<1>4. SourcePort(c) - ServerThreads = p * i + j
  <2>1. SourcePort(c) - ServerThreads = ClientsPerThread * c[1] + c[2]
    BY ChannelFacts
  <2> QED BY <2>1, <1>1, <1>2
<1>5. SourcePort(d) - ServerThreads = p * k + l
  <2>1. SourcePort(d) - ServerThreads = ClientsPerThread * d[1] + d[2]
    BY ChannelFacts
  <2> QED BY <2>1, <1>1, <1>3
<1>6. (p * i + j) \div p = i /\ (p * i + j) % p = j
  BY <1>1, <1>2, DivOfSum
<1>7. (p * k + l) \div p = k /\ (p * k + l) % p = l
  BY <1>1, <1>3, DivOfSum
<1>8. c[1] = d[1] /\ c[2] = d[2]
  BY <1>2, <1>3, <1>4, <1>5, <1>6, <1>7
<1>9. c = <<c[1], c[2]>> /\ d = <<d[1], d[2]>>
  BY ChannelFacts
<1> QED BY <1>8, <1>9

\* A response goes to the channel whose source port the get came from.
LEMMA ChannelOfPort ==
    ASSUME NEW m \in Machines, NEW c \in Channels(m)
    PROVE  ChannelOf(m, SourcePort(c)) = c
<1>1. \E d \in Channels(m) : SourcePort(d) = SourcePort(c)
  OBVIOUS
<1>2. ChannelOf(m, SourcePort(c)) \in Channels(m)
      /\ SourcePort(ChannelOf(m, SourcePort(c))) = SourcePort(c)
  BY <1>1 DEF ChannelOf
<1> QED BY <1>2, PortsDiffer

LEMMA NeighbourFacts ==
    ASSUME NEW m \in ServerMachines, NumServers > 1
    PROVE  LET n == ((m - NumClients + 1) % NumServers) + NumClients
           IN n \in ServerMachines \ {m}
<1>1. PICK x \in Nat : x = m - NumClients /\ x < NumServers
  BY MachineFacts DEF ServerMachines, IsServer, Machines
<1>2. (x + 1) % NumServers \in 0 .. NumServers - 1 /\ (x + 1) % NumServers # x
  <2>1. CASE x + 1 < NumServers
    <3>1. (NumServers * 0 + (x + 1)) % NumServers = x + 1
      BY <2>1, <1>1, MachineFacts, DivOfSum
    <3> QED BY <2>1, <1>1, <3>1, MachineFacts
  <2>2. CASE x + 1 = NumServers
    <3>1. (NumServers * 1 + 0) % NumServers = 0
      BY MachineFacts, DivOfSum
    <3> QED BY <2>2, <1>1, <3>1, MachineFacts
  <2> QED BY <1>1, <2>1, <2>2, MachineFacts
<1> QED BY <1>1, <1>2, MachineFacts DEF ServerMachines, IsServer, Machines

-----------------------------------------------------------------------------
(* Building the objects                                                    *)

LEMMA LearnKeepsInv ==
    ASSUME ConnectionsInv, NEW m \in Machines, NEW c \in Channels(m), NEW key \in FlowKeys,
           Learn(m, c, key), UNCHANGED <<asked, sync, wire, astray>>
    PROVE  ConnectionsInv'
<1> DEFINE known == flows[m][c] \union {key}
           following == <<c[1] + 1, 0>>
<1>1. flows' = [flows EXCEPT ![m][c] = known]
  BY DEF Learn
<1>2. \A n \in Machines : \A d \in Channels(n) :
          flows'[n][d] = (IF n = m /\ d = c THEN known ELSE flows[n][d])
  BY <1>1 DEF ConnectionsInv, ConnectionsTyped
<1>3. known \subseteq FlowKeys
  BY DEF ConnectionsInv, ConnectionsTyped
<1>4. DOMAIN flows' = Machines /\ \A n \in Machines : flows'[n] \in [Channels(n) -> SUBSET FlowKeys]
  BY <1>1, <1>3 DEF ConnectionsInv, ConnectionsTyped
<1>5. /\ DOMAIN phase' = Machines
      /\ \A n \in Machines : phase'[n] \in [Channels(n) -> Phases]
      /\ \A n \in Machines : \A d \in Channels(n) : ~(n = m /\ d = c) =>
             phase'[n][d] = phase[n][d] \/ phase'[n][d] = "listen"
      /\ phase'[m][c] \in {"built", "work", "done"} => Missing(m, c, known) = {}
  <2>1. CASE Missing(m, c, known) # {}
    <3>1. phase' = [phase EXCEPT ![m][c] = "connect"]
      BY <2>1 DEF Learn, Enter
    <3> QED BY <3>1 DEF ConnectionsInv, ConnectionsTyped, Phases
  <2>2. CASE Missing(m, c, known) = {} /\ IsServer(m) /\ following \in Channels(m)
    <3>1. phase' = [phase EXCEPT ![m][c] = "built", ![m][following] = "listen"]
      BY <2>2 DEF Learn
    <3>2. c # following
      BY ChannelFacts, MachineFacts
    <3> QED BY <3>1, <3>2, <2>2 DEF ConnectionsInv, ConnectionsTyped, Phases
  <2>3. CASE Missing(m, c, known) = {} /\ ~(IsServer(m) /\ following \in Channels(m))
    <3>1. phase' = [phase EXCEPT ![m][c] = "built"]
      BY <2>3 DEF Learn, Enter
    <3> QED BY <3>1, <2>3 DEF ConnectionsInv, ConnectionsTyped, Phases
  <2> QED BY <2>1, <2>2, <2>3
<1>6. BuiltKnows'
  <2>1. \A n \in Machines : \A d \in Channels(n) : flows[n][d] \subseteq flows'[n][d]
    BY <1>2
  <2>2. ASSUME NEW n \in Machines, NEW d \in Channels(n),
               phase'[n][d] \in {"built", "work", "done"}
        PROVE  Missing(n, d, flows'[n][d]) = {}
    <3>1. CASE n = m /\ d = c
      BY <1>2, <1>5, <2>2, <3>1
    <3>2. CASE ~(n = m /\ d = c)
      <4>1. phase[n][d] = phase'[n][d]
        BY <1>5, <2>2, <3>2
      <4> QED BY <2>1, <2>2, <4>1 DEF ConnectionsInv, BuiltKnows, Missing
    <3> QED BY <3>1, <3>2
  <2>3. \A n \in ClientMachines : Unmet(n)' \subseteq Unmet(n)
    <3>1. \A n \in ClientMachines : n \in Machines /\ Leader \in Channels(n)
      BY MachineFacts DEF Channels, Leader
    <3> QED BY <2>1, <3>1 DEF Unmet
  <2> QED BY <2>2, <2>3 DEF ConnectionsInv, BuiltKnows
<1>7. ConnectionsTyped'
  BY <1>4, <1>5 DEF ConnectionsInv, ConnectionsTyped
<1>8. NothingAstray' /\ Addressed' /\ OneAtATime'
  BY DEF ConnectionsInv, NothingAstray, Addressed, OneAtATime, Concerns
<1> QED BY <1>6, <1>7, <1>8 DEF ConnectionsInv

\* What a step does that changes the phases of one machine and nothing else.
LEMMA PhasesKeepInv ==
    ASSUME ConnectionsInv, NEW m \in Machines, NEW f \in [Channels(m) -> Phases],
           phase' = [phase EXCEPT ![m] = f],
           UNCHANGED <<flows, asked, wire, astray, sync>>,
           \A c \in Channels(m) : f[c] \in {"built", "work", "done"} =>
               phase[m][c] \in {"built", "work", "done"}
    PROVE  ConnectionsInv'
<1>1. ConnectionsTyped'
  BY DEF ConnectionsInv, ConnectionsTyped
<1>2. BuiltKnows'
  BY DEF ConnectionsInv, ConnectionsTyped, BuiltKnows, Missing, Unmet
<1>3. NothingAstray' /\ Addressed' /\ OneAtATime'
  BY DEF ConnectionsInv, NothingAstray, Addressed, OneAtATime, Concerns
<1> QED BY <1>1, <1>2, <1>3 DEF ConnectionsInv

LEMMA BuildKeepsInv ==
    ASSUME ConnectionsInv, NEW m \in Machines, Build(m)
    PROVE  ConnectionsInv'
<1>1. CASE MachnetStarts(m)
  <2> DEFINE f == [c \in Channels(m) |-> IF ~IsServer(m) THEN "connect"
                                         ELSE IF c[1] = 0 THEN "listen" ELSE "off"]
  <2>1. f \in [Channels(m) -> Phases]
    BY DEF Phases
  <2>2. phase' = [phase EXCEPT ![m] = f] /\ UNCHANGED <<flows, asked, wire, astray, sync>>
    BY <1>1 DEF MachnetStarts
  <2>3. \A c \in Channels(m) : f[c] \notin {"built", "work", "done"}
    OBVIOUS
  <2> HIDE DEF f
  <2> QED BY <2>1, <2>2, <2>3, PhasesKeepInv
<1>2. CASE StartThreads(m)
  <2> DEFINE f == [c \in Channels(m) |-> "work"]
  <2>1. f \in [Channels(m) -> Phases]
    BY DEF Phases
  <2>2. /\ phase' = [phase EXCEPT ![m] = f] /\ UNCHANGED <<flows, asked, wire, astray, sync>>
        /\ \A c \in Channels(m) : phase[m][c] = "built"
    BY <1>2 DEF StartThreads
  <2> QED BY <2>1, <2>2, PhasesKeepInv
<1>3. ASSUME NEW c \in Channels(m), Listen(m, c) PROVE ConnectionsInv'
  <2>1. <<m, c[1]>> \in FlowKeys
    BY ChannelFacts DEF FlowKeys
  <2> QED BY <1>3, <2>1, LearnKeepsInv DEF Listen
<1>4. ASSUME NEW c \in Channels(m), Connect(m, c) PROVE ConnectionsInv'
  <2>1. PICK r \in Missing(m, c, flows[m][c]) : Learn(m, c, <<r, c[1]>>)
    BY <1>4 DEF Connect
  <2>2. <<r, c[1]>> \in FlowKeys
    BY ChannelFacts, MachineFacts DEF FlowKeys, Missing
  <2> QED BY <1>4, <2>1, <2>2, LearnKeepsInv DEF Connect
<1> QED BY <1>1, <1>2, <1>3, <1>4 DEF Build

-----------------------------------------------------------------------------
(* Sending and receiving                                                   *)

\* A working object finds every server but its own in its map.
LEMMA KnowsServers ==
    ASSUME ConnectionsInv, NEW m \in Machines, NEW c \in Channels(m), Working(m, c),
           NEW s \in ServerMachines \ {m}
    PROVE  <<s, c[1]>> \in flows[m][c]
BY DEF ConnectionsInv, BuiltKnows, Working, Missing

\* A message sent along a flow that is there is on its way, under some number.
LEMMA SendFinds ==
    ASSUME NEW known, NEW key \in known, NEW q, NEW taken, Send(key, known, q, taken)
    PROVE  astray' = astray /\ \E n \in 1 .. MaxAlike :
               wire' = (wire \ taken) \union {[q EXCEPT !.no = n]}
BY DEF Send

LEMMA SendGetKeepsInv ==
    ASSUME ConnectionsInv, NEW m \in ClientMachines, NEW c \in Channels(m),
           NEW s \in ServerMachines, SendGet(m, c, s)
    PROVE  ConnectionsInv'
<1> DEFINE g0 == [kind |-> "get", from |-> m, to |-> s, chan |-> <<c[1], 0>>,
                  port |-> SourcePort(c), no |-> 1]
<1>0. PICK no \in 1 .. MaxAlike :
          astray' = astray /\ wire' = (wire \ {}) \union {[g0 EXCEPT !.no = no]}
  <2>1. Send(<<s, c[1]>>, flows[m][c], g0, {}) /\ <<s, c[1]>> \in flows[m][c]
    BY MachineFacts, KnowsServers DEF SendGet
  <2> HIDE DEF g0
  <2> QED BY <2>1, SendFinds
<1> DEFINE g == [kind |-> "get", from |-> m, to |-> s, chan |-> <<c[1], 0>>,
                 port |-> SourcePort(c), no |-> no]
<1>1. m \in Machines /\ ~IsServer(m) /\ s \in Machines /\ IsServer(s) /\ s # m /\ s # NoMachine
  BY MachineFacts
<1>2. g \in Messages
  BY <1>1, ChannelFacts DEF Messages, Kinds
<1>3. wire' = wire \union {g} /\ astray' = astray
  BY <1>0
<1>4. /\ asked' = [asked EXCEPT ![m][c] = s] /\ asked[m][c] = NoMachine
      /\ UNCHANGED <<phase, flows, sync>>
  BY DEF SendGet, Working
<1>5. \A n \in Machines : \A d \in Channels(n) :
          asked'[n][d] = (IF n = m /\ d = c THEN s ELSE asked[n][d])
  BY <1>1, <1>4 DEF ConnectionsInv, ConnectionsTyped
<1>6. \A q \in wire : ~Concerns(q, m, c)
  BY <1>4 DEF ConnectionsInv, Addressed
<1>7. \A n \in Machines : \A d \in Channels(n) : Concerns(g, n, d) => n = m /\ d = c
  BY <1>1, PortsDiffer DEF Concerns
<1>8. ConnectionsTyped'
  BY <1>1, <1>2, <1>3, <1>4 DEF ConnectionsInv, ConnectionsTyped
<1>9. BuiltKnows' /\ NothingAstray'
  BY <1>3, <1>4 DEF ConnectionsInv, BuiltKnows, NothingAstray, Missing, Unmet
<1>10. Addressed'
  <2>1. \A n \in ServerMachines : \A d \in Channels(n) : asked'[n][d] = NoMachine
    BY <1>1, <1>5, MachineFacts DEF ConnectionsInv, Addressed
  <2>2. ASSUME NEW q \in wire'
        PROVE  /\ q.kind = "singleton" => IsServer(q.to)
               /\ q.kind = "get" => /\ ~IsServer(q.from) /\ IsServer(q.to)
                                    /\ \E d \in Channels(q.from) : q.port = SourcePort(d)
               /\ q.kind = "response" => ~IsServer(q.to) /\ q.chan \in Channels(q.to)
               /\ q.kind = "sync" => q.from \in ClientMachines /\ q.chan = Leader
    BY <1>1, <1>3 DEF ConnectionsInv, Addressed
  <2>3. ASSUME NEW q \in wire', NEW n \in ClientMachines, NEW d \in Channels(n),
               Concerns(q, n, d)
        PROVE  asked'[n][d] = (IF q.kind = "get" THEN q.to ELSE q.from) /\ asked'[n][d] # NoMachine
    <3>1. n \in Machines
      BY MachineFacts
    <3>2. CASE q = g
      BY <3>1, <3>2, <2>3, <1>1, <1>5, <1>7
    <3>3. CASE q # g
      <4>1. q \in wire
        BY <3>3, <2>3, <1>3, <1>4
      <4>2. ~(n = m /\ d = c)
        BY <4>1, <2>3, <1>6
      <4> QED BY <4>1, <4>2, <3>1, <2>3, <1>5 DEF ConnectionsInv, Addressed
    <3> QED BY <3>2, <3>3
  <2> QED BY <2>1, <2>2, <2>3 DEF Addressed, Concerns
<1>11. OneAtATime'
  <2>1. ASSUME NEW n \in ClientMachines, NEW d \in Channels(n), NEW q \in wire', NEW r \in wire',
               Concerns(q, n, d), Concerns(r, n, d)
        PROVE  q = r
    <3>1. n \in Machines
      BY MachineFacts
    <3>2. CASE q \in wire /\ r \in wire
      BY <3>2, <2>1, <1>4 DEF ConnectionsInv, OneAtATime
    <3>3. CASE q = g
      BY <3>1, <3>3, <2>1, <1>3, <1>6, <1>7
    <3>4. CASE r = g
      BY <3>1, <3>4, <2>1, <1>3, <1>6, <1>7
    <3> QED BY <3>2, <3>3, <3>4, <1>3
  <2> QED BY <2>1 DEF OneAtATime, Concerns
<1> QED BY <1>8, <1>9, <1>10, <1>11 DEF ConnectionsInv

\* Of the request's own client, who waits for this server, and of nobody else.
LEMMA ServeGetKeepsInv ==
    ASSUME ConnectionsInv, NEW m \in Machines, NEW c \in Channels(m), NEW q \in wire,
           ServeGet(m, c, q)
    PROVE  ConnectionsInv'
<1>1. /\ q \in Messages /\ q.kind = "get" /\ q.to = m
      /\ ~IsServer(q.from) /\ IsServer(m) /\ q.from \in Machines /\ q.from \in ClientMachines
  <2>1. q \in Messages /\ q.kind = "get" /\ q.to = m /\ ~IsServer(q.from) /\ IsServer(m)
    BY DEF ServeGet, ConnectionsInv, ConnectionsTyped, Addressed
  <2>2. q.from \in Machines
    BY <2>1 DEF Messages
  <2> QED BY <2>1, <2>2, MachineFacts
<1>2. PICK d \in Channels(q.from) : q.port = SourcePort(d)
  BY <1>1 DEF ConnectionsInv, Addressed
<1>3. ChannelOf(q.from, q.port) = d
  BY <1>1, <1>2, ChannelOfPort
<1> DEFINE a0 == [kind |-> "response", from |-> m, to |-> q.from, chan |-> d, port |-> c[1],
                  no |-> 1]
<1>0. PICK no \in 1 .. MaxAlike :
          astray' = astray /\ wire' = (wire \ {q}) \union {[a0 EXCEPT !.no = no]}
  <2> DEFINE known == flows[m][c] \union {<<q.from, q.port>>}
  <2>1. Send(<<q.from, q.port>>, known, a0, {q}) /\ <<q.from, q.port>> \in known
    BY <1>3 DEF ServeGet, ReplyKey
  <2> HIDE DEF a0, known
  <2> QED BY <2>1, SendFinds
<1> DEFINE a == [kind |-> "response", from |-> m, to |-> q.from, chan |-> d, port |-> c[1],
                 no |-> no]
<1>4. a \in Messages
  BY <1>1, ChannelFacts DEF Messages, Kinds
<1>5. wire' = (wire \ {q}) \union {a} /\ astray' = astray /\ UNCHANGED <<phase, flows, asked, sync>>
  BY <1>0 DEF ServeGet
<1>6. d # Leader => Concerns(q, q.from, d)
  BY <1>1, <1>2 DEF Concerns
<1>7. \A n \in Machines : \A e \in Channels(n) :
          Concerns(a, n, e) => n = q.from /\ e = d /\ d # Leader
  BY DEF Concerns
<1>8. d # Leader => asked[q.from][d] = m /\ asked[q.from][d] # NoMachine
  BY <1>1, <1>6 DEF ConnectionsInv, Addressed
<1>9. ConnectionsTyped'
  BY <1>4, <1>5 DEF ConnectionsInv, ConnectionsTyped
<1>10. BuiltKnows' /\ NothingAstray'
  BY <1>5 DEF ConnectionsInv, BuiltKnows, NothingAstray, Missing, Unmet
<1>11. Addressed'
  <2>1. ASSUME NEW r \in wire'
        PROVE  /\ r.kind = "singleton" => IsServer(r.to)
               /\ r.kind = "get" => /\ ~IsServer(r.from) /\ IsServer(r.to)
                                    /\ \E e \in Channels(r.from) : r.port = SourcePort(e)
               /\ r.kind = "response" => ~IsServer(r.to) /\ r.chan \in Channels(r.to)
               /\ r.kind = "sync" => r.from \in ClientMachines /\ r.chan = Leader
    BY <1>1, <1>5 DEF ConnectionsInv, Addressed
  <2>2. ASSUME NEW r \in wire', NEW n \in ClientMachines, NEW e \in Channels(n),
               Concerns(r, n, e)
        PROVE  asked[n][e] = (IF r.kind = "get" THEN r.to ELSE r.from) /\ asked[n][e] # NoMachine
    <3>1. CASE r = a
      BY <3>1, <2>2, <1>7, <1>8, MachineFacts
    <3>2. CASE r # a
      BY <3>2, <2>2, <1>5 DEF ConnectionsInv, Addressed
    <3> QED BY <3>1, <3>2
  <2> QED BY <2>1, <2>2, <1>5 DEF Addressed, Concerns, ConnectionsInv
<1>12. OneAtATime'
  <2>1. ASSUME NEW n \in ClientMachines, NEW e \in Channels(n), NEW r \in wire', NEW t \in wire',
               Concerns(r, n, e), Concerns(t, n, e)
        PROVE  r = t
    <3>1. ASSUME NEW u \in wire \ {q}, Concerns(u, n, e), n = q.from, e = d, d # Leader
          PROVE  FALSE
      BY <3>1, <2>1, <1>6 DEF ConnectionsInv, OneAtATime
    <3>2. CASE r \in wire \ {q} /\ t \in wire \ {q}
      BY <3>2, <2>1 DEF ConnectionsInv, OneAtATime
    <3>3. CASE r = a
      BY <3>1, <3>3, <2>1, <1>5, <1>7, MachineFacts
    <3>4. CASE t = a
      BY <3>1, <3>4, <2>1, <1>5, <1>7, MachineFacts
    <3> QED BY <3>2, <3>3, <3>4, <1>5
  <2> QED BY <2>1, <1>5 DEF OneAtATime, Concerns
<1> QED BY <1>9, <1>10, <1>11, <1>12 DEF ConnectionsInv

LEMMA SendSingletonKeepsInv ==
    ASSUME ConnectionsInv, NEW m \in ServerMachines, NEW c \in Channels(m), SendSingleton(m, c)
    PROVE  ConnectionsInv'
<1> DEFINE n == ((m - NumClients + 1) % NumServers) + NumClients
           g0 == [kind |-> "singleton", from |-> m, to |-> n, chan |-> c, port |-> SourcePort(c),
                  no |-> 1]
<1>1. m \in Machines /\ n \in ServerMachines \ {m} /\ n \in Machines /\ IsServer(n)
  BY MachineFacts, NeighbourFacts DEF SendSingleton
<1>2. <<n, c[1]>> \in flows[m][c]
  <2>1. Working(m, c)
    BY DEF SendSingleton
  <2> HIDE DEF n
  <2> QED BY <1>1, <2>1, KnowsServers
<1>0. PICK no \in 1 .. MaxAlike :
          astray' = astray /\ wire' = (wire \ {}) \union {[g0 EXCEPT !.no = no]}
  <2>1. Send(<<n, c[1]>>, flows[m][c], g0, {})
    BY DEF SendSingleton
  <2> HIDE DEF g0, n
  <2> QED BY <1>2, <2>1, SendFinds
<1> DEFINE g == [kind |-> "singleton", from |-> m, to |-> n, chan |-> c, port |-> SourcePort(c),
                 no |-> no]
<1> HIDE DEF n
<1>3. wire' = wire \union {g} /\ astray' = astray /\ UNCHANGED <<phase, flows, asked, sync>>
  BY <1>0 DEF SendSingleton
<1>4. g \in Messages
  BY <1>1, ChannelFacts DEF Messages, Kinds
<1>5. ConnectionsTyped'
  BY <1>3, <1>4 DEF ConnectionsInv, ConnectionsTyped
<1>6. BuiltKnows' /\ NothingAstray'
  BY <1>3 DEF ConnectionsInv, BuiltKnows, NothingAstray, Missing, Unmet
<1>7. Addressed' /\ OneAtATime'
  BY <1>1, <1>3 DEF ConnectionsInv, Addressed, OneAtATime, Concerns
<1> QED BY <1>5, <1>6, <1>7 DEF ConnectionsInv

LEMMA ReceiveKeepsInv ==
    ASSUME ConnectionsInv, NEW m \in Machines, NEW c \in Channels(m), NEW q \in wire,
           ReceiveSingleton(m, c, q) \/ ReceiveResponse(m, c, q)
    PROVE  ConnectionsInv'
<1>1. CASE ReceiveSingleton(m, c, q)
  <2>1. wire' = wire \ {q} /\ UNCHANGED <<phase, flows, asked, astray, sync>>
    BY <1>1 DEF ReceiveSingleton
  <2>2. ConnectionsTyped' /\ BuiltKnows' /\ NothingAstray'
    BY <2>1 DEF ConnectionsInv, ConnectionsTyped, BuiltKnows, NothingAstray, Missing, Unmet
  <2>3. Addressed' /\ OneAtATime'
    BY <2>1 DEF ConnectionsInv, Addressed, OneAtATime, Concerns
  <2> QED BY <2>2, <2>3 DEF ConnectionsInv
<1>2. CASE ReceiveResponse(m, c, q)
  <2>1. /\ wire' = wire \ {q} /\ asked' = [asked EXCEPT ![m][c] = NoMachine]
        /\ asked[m][c] # NoMachine /\ q.to = m /\ q.chan = c
        /\ UNCHANGED <<phase, flows, astray, sync>>
    BY <1>2 DEF ReceiveResponse, Working
  <2>2. ~IsServer(m) /\ m \in ClientMachines
    BY <2>1, MachineFacts DEF ConnectionsInv, Addressed
  <2>3. c # Leader => Concerns(q, m, c)
    <3>1. q \in Messages /\ q.kind \in Kinds
      BY DEF ConnectionsInv, ConnectionsTyped, Messages
    <3>2. c # Leader => q.kind = "response"
      BY <3>1, <2>1, <2>2 DEF ConnectionsInv, Addressed, Kinds
    <3> QED BY <3>2, <2>1 DEF Concerns
  <2>4. \A r \in wire \ {q} : ~Concerns(r, m, c)
    BY <2>1, <2>2, <2>3 DEF ConnectionsInv, OneAtATime, Concerns
  <2>5. \A n \in Machines : \A d \in Channels(n) :
            asked'[n][d] = (IF n = m /\ d = c THEN NoMachine ELSE asked[n][d])
    BY <2>1 DEF ConnectionsInv, ConnectionsTyped
  <2>6. ConnectionsTyped'
    BY <2>1 DEF ConnectionsInv, ConnectionsTyped
  <2>7. BuiltKnows' /\ NothingAstray'
    BY <2>1 DEF ConnectionsInv, BuiltKnows, NothingAstray, Missing, Unmet
  <2>8. Addressed'
    <3>1. \A n \in ServerMachines : \A d \in Channels(n) : asked'[n][d] = NoMachine
      BY <2>5, MachineFacts DEF ConnectionsInv, Addressed
    <3>2. ASSUME NEW r \in wire \ {q}, NEW n \in ClientMachines, NEW d \in Channels(n),
                 Concerns(r, n, d)
          PROVE  asked'[n][d] = (IF r.kind = "get" THEN r.to ELSE r.from) /\ asked'[n][d] # NoMachine
      <4>1. n \in Machines /\ ~(n = m /\ d = c)
        BY <3>2, <2>4, MachineFacts
      <4> QED BY <3>2, <4>1, <2>5 DEF ConnectionsInv, Addressed
    <3> QED BY <3>1, <3>2, <2>1 DEF ConnectionsInv, Addressed, Concerns
  <2>9. OneAtATime'
    BY <2>1 DEF ConnectionsInv, OneAtATime, Concerns
  <2> QED BY <2>6, <2>7, <2>8, <2>9 DEF ConnectionsInv
<1> QED BY <1>1, <1>2

-----------------------------------------------------------------------------
(* The leaders                                                             *)

LEMMA LeaderFacts ==
    ASSUME NEW m \in ClientMachines
    PROVE  /\ m \in Machines /\ Leader \in Channels(m) /\ ~IsServer(m)
           /\ OtherClients(m) \subseteq ClientMachines
           /\ \A r \in ClientMachines : <<r, 0>> \in FlowKeys
<1>1. m \in Machines /\ ~IsServer(m) /\ Leader \in Channels(m)
  BY MachineFacts DEF Channels, Leader
<1>2. 0 \in Ports
  BY <1>1, ChannelFacts DEF Leader
<1> QED BY <1>1, <1>2, MachineFacts DEF OtherClients, FlowKeys

\* A step that only lets the leader know more and moves its sync on.
LEMMA GatherKeepsInv ==
    ASSUME ConnectionsInv, NEW m \in ClientMachines, NEW key \in FlowKeys,
           flows' \in {flows, [flows EXCEPT ![m][Leader] = @ \union {key}]},
           NEW y \in [stage : Stages, unsent : SUBSET ClientMachines,
                      polled : Nat, acks : SUBSET ClientMachines],
           sync' = [sync EXCEPT ![m] = y],
           y.unsent \subseteq OtherClients(m),
           y.stage \notin {"start", "meet"} => Unmet(m) = {},
           UNCHANGED <<phase, asked, wire, astray>>
    PROVE  ConnectionsInv'
<1>1. m \in Machines /\ Leader \in Channels(m)
  BY LeaderFacts
<1>2. /\ DOMAIN flows' = Machines
      /\ \A n \in Machines : flows'[n] \in [Channels(n) -> SUBSET FlowKeys]
      /\ \A n \in Machines : \A d \in Channels(n) : flows[n][d] \subseteq flows'[n][d]
  <2>1. CASE flows' = flows
    BY <2>1 DEF ConnectionsInv, ConnectionsTyped
  <2>2. CASE flows' = [flows EXCEPT ![m][Leader] = @ \union {key}]
    BY <1>1, <2>2 DEF ConnectionsInv, ConnectionsTyped
  <2> QED BY <2>1, <2>2
<1>3. ConnectionsTyped'
  <2>3. sync' \in [ClientMachines -> [stage : Stages, unsent : SUBSET ClientMachines,
                                      polled : Nat, acks : SUBSET ClientMachines]]
    BY DEF ConnectionsInv, ConnectionsTyped
  <2> QED BY <1>2, <2>3 DEF ConnectionsInv, ConnectionsTyped
<1>4. BuiltKnows'
  <2>1. \A n \in Machines : \A d \in Channels(n) :
            phase'[n][d] \in {"built", "work", "done"} => Missing(n, d, flows'[n][d]) = {}
    BY <1>2 DEF ConnectionsInv, BuiltKnows, Missing
  <2>2. \A n \in ClientMachines : sync'[n] = IF n = m THEN y ELSE sync[n]
    BY DEF ConnectionsInv, ConnectionsTyped
  <2>3. \A n \in ClientMachines : Unmet(n)' \subseteq Unmet(n)
    BY <1>2, LeaderFacts DEF Unmet
  <2> QED BY <2>1, <2>2, <2>3 DEF ConnectionsInv, BuiltKnows
<1>5. NothingAstray' /\ Addressed' /\ OneAtATime'
  BY DEF ConnectionsInv, NothingAstray, Addressed, OneAtATime, Concerns
<1> QED BY <1>3, <1>4, <1>5 DEF ConnectionsInv

\* A leader knows the flow of each request it sends.
LEMMA SendSyncKeepsInv ==
    ASSUME ConnectionsInv, NEW m \in ClientMachines, SendSync(m)
    PROVE  ConnectionsInv'
<1> DEFINE g0(r) == [kind |-> "sync", from |-> m, to |-> r, chan |-> Leader,
                     port |-> SourcePort(Leader), no |-> 1]
<1>1. PICK r \in sync[m].unsent :
          /\ Send(<<r, 0>>, flows[m][Leader], g0(r), {})
          /\ sync' = [sync EXCEPT ![m].unsent = @ \ {r}]
  BY DEF SendSync
<1>2. r \in OtherClients(m) /\ r \in ClientMachines /\ <<r, 0>> \in flows[m][Leader]
  <2>1. sync[m].unsent \subseteq OtherClients(m) /\ Unmet(m) = {}
    BY DEF ConnectionsInv, BuiltKnows, SendSync, Syncing
  <2> QED BY <2>1, LeaderFacts DEF Unmet
<1>3. PICK no \in 1 .. MaxAlike :
          astray' = astray /\ wire' = (wire \ {}) \union {[g0(r) EXCEPT !.no = no]}
  <2> HIDE DEF g0
  <2> QED BY <1>1, <1>2, SendFinds
<1> DEFINE g == [kind |-> "sync", from |-> m, to |-> r, chan |-> Leader,
                 port |-> SourcePort(Leader), no |-> no]
<1>4. wire' = wire \union {g} /\ astray' = astray /\ UNCHANGED <<phase, flows, asked>>
  BY <1>3 DEF SendSync
<1>5. g \in Messages
  BY <1>2, LeaderFacts, ChannelFacts DEF Messages, Kinds
<1>6. \A n \in ClientMachines : /\ sync'[n].unsent \subseteq sync[n].unsent
                                /\ sync'[n].stage = sync[n].stage
  BY <1>1 DEF ConnectionsInv, ConnectionsTyped
<1>7. ConnectionsTyped'
  <2>1. sync' \in [ClientMachines -> [stage : Stages, unsent : SUBSET ClientMachines,
                                      polled : Nat, acks : SUBSET ClientMachines]]
    BY <1>1 DEF ConnectionsInv, ConnectionsTyped
  <2> QED BY <2>1, <1>4, <1>5 DEF ConnectionsInv, ConnectionsTyped
<1>8. BuiltKnows' /\ NothingAstray'
  BY <1>4, <1>6 DEF ConnectionsInv, BuiltKnows, NothingAstray, Missing, Unmet
<1>9. Addressed' /\ OneAtATime'
  BY <1>4 DEF ConnectionsInv, Addressed, OneAtATime, Concerns
<1> QED BY <1>7, <1>8, <1>9 DEF ConnectionsInv

\* A message taken from a leader's channel concerned no other client.
LEMMA PollSyncKeepsInv ==
    ASSUME ConnectionsInv, NEW m \in ClientMachines, NEW q \in wire, PollSync(m, q)
    PROVE  ConnectionsInv'
<1> DEFINE ack == IF q.kind = "sync" THEN {q.from} ELSE {}
<1>1. /\ wire' = wire \ {q} /\ UNCHANGED <<phase, flows, asked, astray>>
      /\ sync' = [sync EXCEPT ![m].polled = @ + 1, ![m].acks = @ \union ack]
      /\ sync[m].polled \in Nat
  BY DEF PollSync, ConnectionsInv, ConnectionsTyped
<1> DEFINE y == [sync[m] EXCEPT !.polled = @ + 1, !.acks = @ \union ack]
<1>2. ack \subseteq ClientMachines
  BY DEF ConnectionsInv, Addressed
<1> HIDE DEF ack
<1>3. /\ sync' \in [ClientMachines -> [stage : Stages, unsent : SUBSET ClientMachines,
                                       polled : Nat, acks : SUBSET ClientMachines]]
      /\ \A n \in ClientMachines : /\ sync'[n].unsent = sync[n].unsent
                                   /\ sync'[n].stage = sync[n].stage
  <2>1. sync[m] \in [stage : Stages, unsent : SUBSET ClientMachines,
                     polled : Nat, acks : SUBSET ClientMachines]
    BY DEF ConnectionsInv, ConnectionsTyped
  <2>2. y \in [stage : Stages, unsent : SUBSET ClientMachines,
               polled : Nat, acks : SUBSET ClientMachines]
        /\ y.unsent = sync[m].unsent /\ y.stage = sync[m].stage
    <3>1. sync[m].polled + 1 \in Nat /\ sync[m].acks \union ack \subseteq ClientMachines
      BY <1>2, <2>1
    <3> QED BY <2>1, <3>1
  <2>3. sync' = [sync EXCEPT ![m] = y]
    BY <1>1 DEF ConnectionsInv, ConnectionsTyped
  <2> HIDE DEF y
  <2> QED BY <2>2, <2>3 DEF ConnectionsInv, ConnectionsTyped
<1>4. ConnectionsTyped'
  BY <1>1, <1>3 DEF ConnectionsInv, ConnectionsTyped
<1>5. BuiltKnows' /\ NothingAstray'
  BY <1>1, <1>3 DEF ConnectionsInv, BuiltKnows, NothingAstray, Missing, Unmet
<1>6. Addressed' /\ OneAtATime'
  BY <1>1 DEF ConnectionsInv, Addressed, OneAtATime, Concerns
<1> QED BY <1>4, <1>5, <1>6 DEF ConnectionsInv

LEMMA LeadersKeepInv ==
    ASSUME ConnectionsInv, NEW m \in ClientMachines, Gather(m)
    PROVE  ConnectionsInv'
<1> DEFINE Syncs == [stage : Stages, unsent : SUBSET ClientMachines,
                     polled : Nat, acks : SUBSET ClientMachines]
<1>0. /\ m \in Machines /\ Leader \in Channels(m) /\ OtherClients(m) \subseteq ClientMachines
      /\ \A r \in ClientMachines : <<r, 0>> \in FlowKeys
      /\ sync[m] \in Syncs /\ sync[m].unsent \subseteq OtherClients(m)
  BY LeaderFacts DEF ConnectionsInv, ConnectionsTyped, BuiltKnows
<1>2. \A st \in Stages : Stage(m, st) => /\ sync' = [sync EXCEPT ![m] = [sync[m] EXCEPT !.stage = st]]
                                         /\ [sync[m] EXCEPT !.stage = st] \in Syncs
  BY <1>0 DEF Stage
<1>3. CASE StartMeeting(m)
  <2> DEFINE y == [sync[m] EXCEPT !.stage = "meet"]
  <2>1. y \in Syncs /\ sync' = [sync EXCEPT ![m] = y] /\ y.unsent = sync[m].unsent
        /\ y.stage = "meet"
    BY <1>0, <1>2, <1>3 DEF StartMeeting, Stages
  <2>2. flows' = [flows EXCEPT ![m][Leader] = @ \union {<<m, 0>>}] /\ <<m, 0>> \in FlowKeys
        /\ UNCHANGED <<phase, asked, wire, astray>>
    BY <1>0, <1>3 DEF StartMeeting
  <2> HIDE DEF y
  <2> QED BY <1>0, <2>1, <2>2, GatherKeepsInv
<1>4. CASE Meet(m)
  <2>1. PICK r \in Unmet(m) : flows' = [flows EXCEPT ![m][Leader] = @ \union {<<r, 0>>}]
    BY <1>4 DEF Meet
  <2>2. <<r, 0>> \in FlowKeys /\ UNCHANGED <<phase, asked, wire, astray>>
    BY <1>0, <1>4 DEF Meet, Unmet
  <2> DEFINE y == sync[m]
  <2>3. y \in Syncs /\ sync' = [sync EXCEPT ![m] = y] /\ y.unsent \subseteq OtherClients(m)
        /\ y.stage = "meet"
    BY <1>0, <1>4 DEF Meet, ConnectionsInv, ConnectionsTyped
  <2> HIDE DEF y
  <2> QED BY <2>1, <2>2, <2>3, GatherKeepsInv
<1>5. ASSUME NEW st \in {"before", "after"}, StartSync(m, st), Unmet(m) = {}
      PROVE  ConnectionsInv'
  <2> DEFINE y == [stage |-> st, unsent |-> OtherClients(m), polled |-> 0, acks |-> {}]
  <2>1. y \in Syncs /\ y.unsent = OtherClients(m)
    BY <1>0 DEF Stages
  <2>2. sync' = [sync EXCEPT ![m] = y] /\ UNCHANGED <<phase, flows, asked, wire, astray>>
    BY <1>5 DEF StartSync
  <2> HIDE DEF y
  <2> QED BY <1>0, <1>5, <2>1, <2>2, GatherKeepsInv
<1>6. CASE StartFirstSync(m)
  BY <1>5, <1>6 DEF StartFirstSync
<1>7. CASE StartSecondSync(m)
  BY <1>5, <1>7 DEF StartSecondSync, ConnectionsInv, BuiltKnows
<1>8. CASE EndSync(m)
  <2>1. PICK st \in {"work", "over"} : Stage(m, st)
    BY <1>8 DEF EndSync
  <2>2. Unmet(m) = {} /\ UNCHANGED <<phase, flows, asked, wire, astray>>
    BY <1>8 DEF EndSync, Syncing, ConnectionsInv, BuiltKnows
  <2>3. st \in Stages
    BY <2>1 DEF Stages
  <2> DEFINE y == [sync[m] EXCEPT !.stage = st]
  <2>4. y \in Syncs /\ sync' = [sync EXCEPT ![m] = y] /\ y.unsent = sync[m].unsent
    BY <1>0, <1>2, <2>1, <2>3
  <2> HIDE DEF y
  <2> QED BY <1>0, <2>2, <2>4, GatherKeepsInv
<1> QED BY <1>3, <1>4, <1>6, <1>7, <1>8, SendSyncKeepsInv, PollSyncKeepsInv DEF Gather

LEMMA FinishKeepsInv ==
    ASSUME ConnectionsInv, NEW m \in Machines, NEW c \in Channels(m), FinishWork(m, c)
    PROVE  ConnectionsInv'
<1> DEFINE f == [phase[m] EXCEPT ![c] = "done"]
<1>1. /\ phase' = [phase EXCEPT ![m][c] = "done"] /\ phase[m][c] = "work"
      /\ UNCHANGED <<flows, asked, sync, wire, astray>>
  BY DEF FinishWork, Enter, Working
<1>2. phase' = [phase EXCEPT ![m] = f] /\ f \in [Channels(m) -> Phases]
  BY <1>1 DEF ConnectionsInv, ConnectionsTyped, Phases
<1>3. \A d \in Channels(m) : f[d] \in {"built", "work", "done"} =>
          phase[m][d] \in {"built", "work", "done"}
  BY <1>1 DEF ConnectionsInv, ConnectionsTyped
<1> HIDE DEF f
<1> QED BY <1>1, <1>2, <1>3, PhasesKeepInv

-----------------------------------------------------------------------------
(* The specification                                                       *)

LEMMA ConnectionsInvariance == ConnectionsSpec => []ConnectionsInv
<1>1. ConnectionsInit => ConnectionsInv
  <2> SUFFICES ASSUME ConnectionsInit PROVE ConnectionsInv
    OBVIOUS
  <2>1. ConnectionsTyped
    BY DEF ConnectionsInit, ConnectionsTyped, Phases, Stages
  <2>2. BuiltKnows /\ NothingAstray /\ OneAtATime
    BY MachineFacts DEF ConnectionsInit, BuiltKnows, NothingAstray, OneAtATime
  <2>3. Addressed
    BY MachineFacts DEF ConnectionsInit, Addressed
  <2> QED BY <2>1, <2>2, <2>3 DEF ConnectionsInv
<1>2. ConnectionsInv /\ [ConnectionsNext]_<<vars, connectionVars>> => ConnectionsInv'
  <2> SUFFICES ASSUME ConnectionsInv, [ConnectionsNext]_<<vars, connectionVars>>
               PROVE  ConnectionsInv'
    OBVIOUS
  <2>1. CASE UNCHANGED connectionVars
    BY <2>1 DEF connectionVars, ConnectionsInv, ConnectionsTyped, BuiltKnows, Missing, Unmet,
                NothingAstray, Addressed, OneAtATime, Concerns
  <2>2. ASSUME NEW m \in Machines, ProcessStep(m) PROVE ConnectionsInv'
    <3>1. CASE Build(m)
      BY <3>1, BuildKeepsInv
    <3>2. CASE ~IsServer(m) /\ Gather(m)
      BY <3>2, MachineFacts, LeadersKeepInv
    <3>3. ASSUME NEW c \in Channels(m), Exchange(m, c) PROVE ConnectionsInv'
      <4>1. ASSUME NEW s \in ServerMachines, ~IsServer(m), SendGet(m, c, s) PROVE ConnectionsInv'
        BY <4>1, MachineFacts, SendGetKeepsInv
      <4>2. CASE IsServer(m) /\ SendSingleton(m, c)
        BY <4>2, MachineFacts, SendSingletonKeepsInv
      <4>3. ASSUME NEW q \in wire, ServeGet(m, c, q) PROVE ConnectionsInv'
        BY <4>3, ServeGetKeepsInv
      <4>4. ASSUME NEW q \in wire, ReceiveSingleton(m, c, q) \/ ReceiveResponse(m, c, q)
            PROVE  ConnectionsInv'
        BY <4>4, ReceiveKeepsInv
      <4> QED BY <3>3, <4>1, <4>2, <4>3, <4>4, FinishKeepsInv DEF Exchange
    <3> QED BY <2>2, <3>1, <3>2, <3>3 DEF ProcessStep
  <2> QED BY <2>1, <2>2 DEF ConnectionsNext, connectionVars
<1> QED BY <1>1, <1>2, PTL DEF ConnectionsSpec

\* Every flow that a get, a response or a singleton is sent along is in the map
\* of the object that sends it, for all numbers of machines and threads.
THEOREM NobodyAstray == ConnectionsSpec => []NothingAstray
<1>1. ConnectionsInv => NothingAstray
  BY DEF ConnectionsInv
<1> QED BY <1>1, ConnectionsInvariance, PTL

\* A message to a client thread comes from the server that the thread waits for.
THEOREM ResponsesAwaited == ConnectionsSpec => []ResponseIsAwaited
<1>1. ConnectionsInv => ResponseIsAwaited
  <2> SUFFICES ASSUME ConnectionsInv, NEW q \in wire, ~IsServer(q.to), q.chan # Leader
               PROVE  q.kind = "response" /\ asked[q.to][q.chan] = q.from
    BY DEF ResponseIsAwaited
  <2>1. q \in Messages /\ q.kind \in Kinds /\ q.to \in ClientMachines
    BY MachineFacts DEF ConnectionsInv, ConnectionsTyped, Messages
  <2>2. q.kind = "response"
    BY <2>1 DEF ConnectionsInv, Addressed, Kinds
  <2>3. q.chan \in Channels(q.to) /\ Concerns(q, q.to, q.chan)
    BY <2>2 DEF ConnectionsInv, Addressed, Concerns
  <2> QED BY <2>1, <2>2, <2>3 DEF ConnectionsInv, Addressed
<1> QED BY <1>1, ConnectionsInvariance, PTL

\* The connections do not disturb the set-up: they implement its specification.
LEMMA SetupUndisturbed == ConnectionsSpec => Spec
<1>1. ConnectionsInit => Init
  BY DEF ConnectionsInit
<1>2. [ConnectionsNext]_<<vars, connectionVars>> => [Next]_vars
  BY DEF ConnectionsNext
<1> QED BY <1>1, <1>2, PTL DEF ConnectionsSpec, Spec

\* Phases, flows, waits, messages and the state of the set-up keep their types.
THEOREM ConnectionsTypes == ConnectionsSpec => []ConnectionsOK
<1>1. TypeOK /\ ConnectionsInv => ConnectionsOK
  BY DEF ConnectionsInv, ConnectionsTyped, ConnectionsOK
<1> QED BY <1>1, ConnectionsInvariance, SetupUndisturbed, TypeCorrect, PTL

=============================================================================
