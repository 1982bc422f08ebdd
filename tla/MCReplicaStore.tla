--------------------------- MODULE MCReplicaStore ---------------------------
(* Instances of ReplicaStore for TLC. *)
EXTENDS ReplicaStore

\* Every key of at most two bytes below <<1, 0>>, and <<1>>: nesting, siblings,
\* the root key, and a prefix that ends in the largest byte.
NestedKeys == {<< >>, <<0>>, <<0, 0>>, <<0, 1>>, <<1>>}
=============================================================================
