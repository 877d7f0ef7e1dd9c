---------------------------- MODULE MCAccessRate ----------------------------
(* AccessClimb with ten keys: one or all but one accessed, and some skews,  *)
(* plateaus and ties; a remote cache near to or far from the local one.     *)
EXTENDS AccessClimb

McAccessCounts ==
    {[k \in Keys |-> IF k = h THEN 2 ELSE 0] : h \in Keys}
    \union {[k \in Keys |-> IF k = h THEN 0 ELSE 2] : h \in Keys}
    \union {<<10, 9, 8, 7, 6, 5, 4, 3, 2, 1>>, <<1, 1, 1, 1, 1, 1, 1, 1, 1, 20>>,
            <<3, 3, 3, 3, 3, 1, 1, 1, 1, 1>>, <<1, 1, 5, 5, 1, 1, 5, 5, 0, 0>>,
            <<0, 1, 0, 2, 0, 3, 0, 4, 0, 5>>, <<9, 9, 1, 1, 0, 0, 0, 0, 0, 0>>,
            <<1, 2, 4, 8, 16, 32, 64, 1, 2, 4>>, <<0, 0, 3, 3, 3, 3, 0, 0, 0, 0>>,
            <<1, 1, 1, 1, 1, 1, 1, 1, 1, 1>>}
McLatencies == {[cache |-> 1, rdma |-> 2, disk |-> 9], [cache |-> 1, rdma |-> 6, disk |-> 9]}
McNameOrder == <<1, 3, 4, 5, 6, 7, 8, 9, 10, 2>>   \* 1, 10, 2, 3, ..., 9
McFineSteps == <<1, 2, 3>>
=============================================================================
