----------------------------- MODULE AsyncReads -----------------------------
(***************************************************************************)
(* What KeyValueStorage promises its callers: a read that was submitted is *)
(* answered at most once, with the bytes fetched for that very read.       *)
(* RequestPools is shown to implement it.                                  *)
(***************************************************************************)

CONSTANTS Requests,     \* the calls of KeyValueStorage::read
          NoRequest     \* "nothing yet"

VARIABLES submitted,    \* the calls accepted so far
          answer        \* answer[r]: the read whose bytes r's callback was given

avars == <<submitted, answer>>

AInit ==
    /\ submitted = {}
    /\ answer = [r \in Requests |-> NoRequest]

Submit(r) ==
    /\ r \notin submitted
    /\ submitted' = submitted \union {r}
    /\ UNCHANGED answer

Answer(r) ==
    /\ r \in submitted
    /\ answer[r] = NoRequest
    /\ answer' = [answer EXCEPT ![r] = r]
    /\ UNCHANGED submitted

ANext == \E r \in Requests : Submit(r) \/ Answer(r)

ASpec == AInit /\ [][ANext]_avars

=============================================================================
