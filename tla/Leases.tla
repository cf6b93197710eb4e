------------------------------- MODULE Leases -------------------------------
(***************************************************************************)
(* A holder's signed lease history and what a peer makes of it             *)
(* (nas-lease/src/set.rs, merkle.rs, record.rs): deltas that chain, and    *)
(* checkpoints that say what set they come to.  Hashes are symbolic: the   *)
(* tuple of what goes in.  Addresses are numbers in their byte order.      *)
(***************************************************************************)
EXTENDS Naturals, Sequences, FiniteSets, SequencesExt

Sorted(S) == CHOOSE s \in [1..Cardinality(S) -> S] : \A i \in 1..Len(s)-1 : s[i] < s[i+1]

\* sort and dedup: a list of addresses as the set it stands for.
Canonicalise(addrs) == Sorted(ToSet(addrs))

-----------------------------------------------------------------------------
\* The Merkle tree: tagged leaves and nodes, an odd node is promoted, the count
\* is hashed in.
Leaf(a) == <<"leaf", a>>
Node(l, r) == <<"node", l, r>>
NextLevel(level) ==
    [i \in 1..(Len(level) + 1) \div 2 |->
       IF 2 * i <= Len(level) THEN Node(level[2*i - 1], level[2*i]) ELSE level[2*i - 1]]
MerkleRoot(addrs) ==
    LET sorted == Canonicalise(addrs)
        L[n \in 0..Len(sorted)] ==
          IF n = 0 THEN [i \in DOMAIN sorted |-> Leaf(sorted[i])]
          ELSE IF Len(L[n-1]) > 1 THEN NextLevel(L[n-1]) ELSE L[n-1]
        top == L[Len(sorted)]
    IN  <<"root", Len(sorted), IF top = <<>> THEN <<>> ELSE top[1]>>

-----------------------------------------------------------------------------
\* A delta names its holder, adds and removes, and chains to the one before;
\* `signed' says whether the signature is the holder's.
Zero == <<>>
ChainHash(d) == <<d.holder, d.seq, d.add, d.remove, d.prev>>
SignDelta(holder, seq, add, remove, prev) ==
    [holder |-> holder, seq |-> seq, add |-> Canonicalise(add), remove |-> Canonicalise(remove),
     prev |-> prev, signed |-> TRUE]
VerifyDelta(d) == d.signed /\ ((d.seq = 0) <=> (d.prev = Zero))

SignCheckpoint(holder, seq, set) ==
    [holder |-> holder, seq |-> seq, root |-> MerkleRoot(set), count |-> Len(Canonicalise(set)), signed |-> TRUE]
Covers(c, set) == c.count = Cardinality(set) /\ c.root = MerkleRoot(Sorted(set))

\* remove after add: what a delta both adds and removes is dropped.
Apply(set, d) == (set \cup ToSet(d.add)) \ ToSet(d.remove)

\* One delta of the replay, with the checkpoints of its number.
Follows(s, d) ==
    /\ VerifyDelta(d)
    /\ s.seq # 0 => d.holder = s.holder
    /\ d.seq = s.seq
    /\ d.prev = s.link
CheckpointHolds(c, d, set) == c.signed /\ c.holder = d.holder /\ Covers(c, set)

Replay(deltas, checkpoints) ==
    LET R[n \in 0..Len(deltas)] ==
          IF n = 0 THEN [ok |-> TRUE, set |-> {}, seq |-> 0, link |-> Zero, holder |-> 0]
          ELSE LET s == R[n-1]
                   d == deltas[n]
                   set == Apply(s.set, d)
               IN  IF /\ s.ok /\ Follows(s, d)
                      /\ \A c \in checkpoints : c.seq = d.seq => CheckpointHolds(c, d, set)
                   THEN [ok |-> TRUE, set |-> set, seq |-> d.seq + 1, link |-> ChainHash(d), holder |-> d.holder]
                   ELSE [s EXCEPT !.ok = FALSE]
    IN  R[Len(deltas)]

-----------------------------------------------------------------------------
\* merkle::root commits to the set: two lists have one root if and only if they
\* list the same addresses, in whatever order and however often.
RootCommitsToSet(list, other) == MerkleRoot(list) = MerkleRoot(other) <=> ToSet(list) = ToSet(other)

\* The history a holder signs: steps are pairs of what is added and removed.
History(holder, steps) ==
    LET H[n \in 0..Len(steps)] ==
          IF n = 0 THEN <<>>
          ELSE Append(H[n-1], SignDelta(holder, n - 1, steps[n].add, steps[n].remove,
                                        IF n = 1 THEN Zero ELSE ChainHash(Last(H[n-1]))))
    IN  H[Len(steps)]

\* What the histories come to: an address is leased when its last mention, in
\* the whole history, added it and did not remove it.
LastMention(deltas, a) ==
    LET m == {i \in DOMAIN deltas : a \in ToSet(deltas[i].add) \cup ToSet(deltas[i].remove)}
    IN  {i \in m : \A j \in m : j <= i}
Leased(deltas) ==
    {a \in UNION {ToSet(deltas[i].add) : i \in DOMAIN deltas} :
       \E i \in LastMention(deltas, a) : a \notin ToSet(deltas[i].remove)}

\* replay accepts the beginnings of what one holder signed and nothing else: of
\* two histories that part, or of two holders, no mixture, gap or repetition; and
\* what it returns is what the last mention of each address says.
ReplayIsTheHistory(histories, given) ==
    LET r == Replay(given, {})
    IN  /\ r.ok <=> \E h \in histories : IsPrefix(given, h)
        /\ r.ok => r.set = Leased(given)

\* A checkpoint that says something else than the deltas up to its number is
\* refused with them, so nothing is compacted to a root its holder's own history
\* contradicts.
CheckpointIsHonest(history, claim, seq) ==
    Replay(history, {SignCheckpoint(1, seq, claim)}).ok
      <=> (seq < Len(history) => ToSet(claim) = Leased(SubSeq(history, 1, seq + 1)))
=============================================================================
