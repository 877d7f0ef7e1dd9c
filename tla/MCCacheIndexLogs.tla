-------------------------- MODULE MCCacheIndexLogs --------------------------
(***************************************************************************)
(* CacheIndexLogs for TLC: two servers, two threads on the first.          *)
(***************************************************************************)
EXTENDS CacheIndexLogs, TLC

CONSTANTS t1, t2, t3

TwoAndOne == t1 :> 0 @@ t2 :> 0 @@ t3 :> 1
OneAndOne == t1 :> 0 @@ t2 :> 1

=============================================================================
