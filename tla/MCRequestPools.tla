--------------------------- MODULE MCRequestPools ---------------------------
(***************************************************************************)
(* RequestPools for TLC: more calls than slots, two workers.  The workers  *)
(* of ldc.cpp run execute_pending in a loop, so a worker that finds        *)
(* pending_read_queue empty makes a step that changes nothing.             *)
(***************************************************************************)
EXTENDS RequestPools

EmptyPoll(w) == at[w] = "poll" /\ pending = {} /\ UNCHANGED vars

MCSpec ==
    /\ Init /\ [][Next \/ \E w \in Workers : EmptyPoll(w)]_vars
    /\ Fairness

=============================================================================
