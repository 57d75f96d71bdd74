----------------------------- MODULE MCCluster -----------------------------
(* Clients and their servers for Cluster.tla.                              *)
EXTENDS Cluster

CONSTANTS ann, bob

\* Of seven slots, three servers get 0..1, 2..3 and 4..6.
Apart == [x \in Clients |-> IF x = ann THEN 0 ELSE 1]
Together == [x \in Clients |-> 0]
=============================================================================
