----------------------------- MODULE MCSlotPeer -----------------------------
(* SlotPeer on small instances. *)
EXTENDS SlotPeer, TLC

CONSTANT Regimes

\* Records of one sequence number, over the predecessors given.
Signed(seq, prevs) ==
  [seq : {seq}, prev : prevs, writer : Writer, regime : Regimes]

\* Every record over every predecessor, sound or not: a first record, one
\* that skips its predecessor, and chains of up to three, in which the second
\* may change the regime.
Firsts == Signed(0, {Zero})
Seconds == Signed(1, Firsts \cup {Zero})
Thirds == {r \in Signed(2, Seconds \cup Firsts) : r.regime = r.prev.regime}
MCRecord == Firsts \cup Seconds \cup Thirds

Symmetry == Permutations(Writer)
=============================================================================
