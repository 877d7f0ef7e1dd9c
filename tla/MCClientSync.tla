---------------------------- MODULE MCClientSync ----------------------------
(* The client machines are interchangeable.  The configuration lists the   *)
(* clients before the servers.                                             *)
EXTENDS ClientSync, TLC

Symmetric == Permutations(Machines)

ClientsThenServers ==
    [i \in 1 .. Cardinality(Machines) + NumNodes |->
        IF i <= Cardinality(Machines) THEN "client" ELSE "server"]

=============================================================================
