----------------------------- MODULE KVService -----------------------------
(***************************************************************************)
(* What the store promises its clients.  A question is given at most one   *)
(* answer, the value of its key or bytes that a torn read of that very key *)
(* has brought, and the answer reaches a call of the client at most once.  *)
(* A client that is nobody's leader gets the answer to its question before *)
(* it can ask again.  A leader's call may be interrupted: it returns       *)
(* nothing, and the answer is left for one of its later calls.  A value is *)
(* named by the key it belongs to.  GetPath implements it.                 *)
(***************************************************************************)

CONSTANTS Clients, Keys,
          Leaders,      \* the clients whose calls may be interrupted
          Gets,         \* names of unanswered questions
          ClientOf,     \* ClientOf[g]: the client that asks under g
          Nothing       \* no key

VARIABLES want,         \* want[c]: the key c's call is waiting for
          owed,         \* owed[g]: the key asked under g, until it is answered
          answers,      \* answers[g]: the answer on its way, if any
          torn          \* torn[k]: what torn reads of k have brought

kvars == <<want, owed, answers, torn>>

KInit ==
    /\ want = [c \in Clients |-> Nothing]
    /\ owed = [g \in Gets |-> Nothing]
    /\ answers = [g \in Gets |-> {}]
    /\ torn = [k \in Keys |-> {}]

Ask(c, k, g) ==
    /\ want[c] = Nothing
    /\ ClientOf[g] = c /\ owed[g] = Nothing
    /\ want' = [want EXCEPT ![c] = k]
    /\ owed' = [owed EXCEPT ![g] = k]
    /\ UNCHANGED <<answers, torn>>

Answer(g) ==
    /\ owed[g] # Nothing /\ answers[g] = {}
    /\ \E v \in {owed[g]} \union torn[owed[g]] : answers' = [answers EXCEPT ![g] = {v}]
    /\ UNCHANGED <<want, owed, torn>>

\* The waiting client c is told something.
Return(c) == want[c] # Nothing /\ want' = [want EXCEPT ![c] = Nothing]

\* It is the answer to question g: the one just asked, unless c is a leader.
Hear(c, g) ==
    /\ ClientOf[g] = c /\ answers[g] # {}
    /\ c \in Leaders \/ owed[g] = want[c]
    /\ Return(c)
    /\ owed' = [owed EXCEPT ![g] = Nothing]
    /\ answers' = [answers EXCEPT ![g] = {}]
    /\ UNCHANGED torn

\* It is nothing.
Interrupt(c) ==
    /\ c \in Leaders
    /\ Return(c)
    /\ UNCHANGED <<owed, answers, torn>>

\* Nobody can keep a read from being torn.
Tear(k, v) ==
    /\ torn' = [torn EXCEPT ![k] = @ \union {v}]
    /\ UNCHANGED <<want, owed, answers>>

KNext ==
    \/ \E c \in Clients :
          \/ \E k \in Keys, g \in Gets : Ask(c, k, g)
          \/ \E g \in Gets : Hear(c, g)
          \/ Interrupt(c)
    \/ \E g \in Gets : Answer(g)
    \/ \E k, v \in Keys : Tear(k, v)

KSpec == KInit /\ [][KNext]_kvars

=============================================================================
