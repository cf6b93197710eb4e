--------------------------- MODULE MCPeerService ---------------------------
EXTENDS PeerService

MCKeyOf == [c \in {"c1", "c2"} |-> IF c = "c1" THEN "k1" ELSE "k2"]
MCMaxAsks == [c \in {"c1", "c2"} |-> IF c = "c1" THEN 2 ELSE 1]
=============================================================================
