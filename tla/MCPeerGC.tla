------------------------------ MODULE MCPeerGC ------------------------------
(* PeerGC on small instances. *)
EXTENDS PeerGC, TLC

\* Every blob weighs one byte.
UnitSize == [a \in Addr |-> 1]

Symmetry == Permutations(Addr) \cup Permutations(Holder)

=============================================================================
