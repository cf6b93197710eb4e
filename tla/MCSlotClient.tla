---------------------------- MODULE MCSlotClient ----------------------------
EXTENDS SlotClient

V(w, t) == [w |-> w, regime |-> "single", t |-> t]
G == <<V("alice", "g")>>
A == Append(G, V("alice", "a"))
AA == Append(A, V("alice", "a"))
AAA == Append(AA, V("alice", "a"))
B == Append(G, V("alice", "b"))
BB == Append(B, V("alice", "b"))
\* Rostered, but not the slot's writer; a change of regime; not rostered at all.
T == Append(A, V("bob", "t"))
M == Append(A, [w |-> "alice", regime |-> "cas", t |-> "m"])
X == Append(G, V("eve", "x"))

Path(r) == [i \in 1 .. Len(r) |-> SubSeq(r, 1, i)]
MCRecord == {G, A, AA, AAA, B, BB, T, M, X}
MCOffers == {Path(A), Path(AA), Path(BB), <<AA>>, <<T>>, <<A, B>>}
MCHeads == {A, B, BB, M}
MCServed == <<{A, AA, AAA}, {A, B}>>
MCMinted == {[by |-> 3, seq |-> 1, hash |-> X, prev |-> G, ok |-> TRUE]}
=============================================================================
