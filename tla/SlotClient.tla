----------------------------- MODULE SlotClient -----------------------------
(***************************************************************************)
(* The library's client of one slot (nas-slots client.rs, SPECS 5.3-5.5)   *)
(* and the relay its evidence comes through (witness.rs, the witness part  *)
(* of peer.rs): what is pinned, what is kept as evidence, when a fork is   *)
(* derived from it and what proof of it can be shown to others.            *)
(*                                                                         *)
(* A record is the sequence of the versions that lead to it, so that       *)
(* record_hash and sig_hash are the record itself (injective) and `prev`   *)
(* is its Front; <<>> is the all-zero predecessor.  A version names its    *)
(* writer and regime.  The peer is not trusted: it offers any of Offers.   *)
(* Observers with a rostered key witness one history each, the others      *)
(* sign anything.                                                          *)
(***************************************************************************)
EXTENDS Naturals, Sequences, SequencesExt, FiniteSets, FiniteSetsExt

CONSTANTS
  Record,         \* everything some writer has signed
  Roster,         \* the writers of the slot
  Regime,         \* the regime of the capability
  Anchor,         \* the record current when the capability was issued
  Offers,         \* the histories the peer may offer
  Heads,          \* and the bare heads
  Trusted,        \* the observers on the client's witness roster, by number
  Served,         \* rostered observer -> the heads it may be served
  Minted,         \* what keys outside the roster sign
  MaxHashes,      \* MAX_HASHES_PER_SEQ
  MaxWitnesses,   \* MAX_WITNESSES, and MAX_WALK_STEPS
  MaxRelayed,     \* MAX_WITNESSES_PER_SLOT
  MaxCrashes,     \* bound: failing writes and restarts
  MaxOffers       \* bound: what the peer offers

VARIABLES
  pin,            \* the accepted record, <<>> when there is none
  last,           \* the last verdict
  degraded,       \* some head was accepted without its history
  evidence,       \* seq -> the sig_hash values seen there
  recordEvidence, \* seq -> the record_hash values seen there
  witnesses,      \* the retained witnesses, in order of arrival
  head,           \* observer -> the record it witnessed last
  relay,          \* the peer's memory: {witness}
  disk,           \* its files, one per (id, seq)
  tmp,            \* the .tmp files a failed write left
  acked,          \* keys whose publication was acknowledged
  crashes, offers

client == <<pin, last, degraded, evidence, recordEvidence, witnesses, offers>>
peer == <<head, relay, disk, tmp, acked, crashes>>
vars == <<client, peer>>

SeqNo(r) == Len(r) - 1
Writer(r) == Last(r).w
RegimeOf(r) == Last(r).regime

\* Roster::get, then SlotRecord::verify under that key: the writer is known and
\* exactly the first record has an all-zero prev.
RecordVerifies(r) == Writer(r) \in Roster /\ ((SeqNo(r) = 0) <=> (Front(r) = <<>>))

Seqs == {SeqNo(r) : r \in Record}

Versions == UNION {ToSet(r) : r \in Record}

\* MAX_HASHES_PER_SEQ is 2 in the code: fewer would not hold a contradiction.
ASSUME ClientAssumption ==
  /\ Record \subseteq Seq(Versions) /\ <<>> \notin Record
  /\ Anchor \in Record /\ Heads \subseteq Record
  /\ \A rs \in Offers : rs \in Seq(Record) /\ rs # <<>>
  /\ Trusted \subseteq Nat /\ Served \in [Trusted -> SUBSET Record]
  /\ \A w \in Minted : w.by \in Nat \ Trusted /\ w.seq \in Nat
  /\ MaxHashes \in Nat \ {0, 1} /\ MaxWitnesses \in Nat

----------------------------------------------------------------------------
(* Witnesses and proofs: witness.rs *)

\* Witness::of_record: one edge of the chain, signed.
Of(o, r) == [by |-> o, seq |-> SeqNo(r), hash |-> r, prev |-> Front(r), ok |-> TRUE]

\* Witness::verify: the genesis rule and the signature by the key it carries.
Verifies(w) == w.ok /\ ((w.seq = 0) <=> (w.prev = <<>>))

\* ForkProof::verify, re-walked by whoever receives the proof.
ProofVerifies(p) ==
  LET up(i) == IF i = 1 THEN p.b.prev ELSE p.link[i - 1].prev
  IN /\ p.a.seq = p.seq /\ Verifies(p.a) /\ Verifies(p.b)
     /\ \/ p.b.seq = p.seq /\ p.link = <<>> /\ p.a.hash # p.b.hash
        \/ /\ p.b.seq > p.seq
           /\ Len(p.link) = p.b.seq - 1 - p.seq /\ Len(p.link) <= MaxWitnesses
           /\ \A i \in DOMAIN p.link :
                Verifies(p.link[i]) /\ p.link[i].seq = p.b.seq - i /\ p.link[i].hash = up(i)
           /\ up(Len(p.link) + 1) # p.a.hash

----------------------------------------------------------------------------
(* What the client derives: client.rs *)

\* add_bounded for each of rs, in order: the first new ones, while there is room.
Added(m, rs, s) ==
  {i \in DOMAIN rs : /\ SeqNo(rs[i]) = s /\ rs[i] \notin m[s]
                     /\ \A j \in 1 .. i - 1 : rs[j] # rs[i]}

\* Mutant: the first hash of a sequence is thought to be enough.
AddFirst(m, rs) ==
  [s \in Seqs |-> IF m[s] # {} \/ Added(m, rs, s) = {} THEN m[s]
                  ELSE {rs[Min(Added(m, rs, s))]}]

AddBounded(m, rs) ==
  [s \in Seqs |->
     LET new == Added(m, rs, s)
         room == {i \in new :
                   Cardinality({j \in new : j < i}) + Cardinality(m[s]) < MaxHashes}
     IN m[s] \cup {rs[i] : i \in room}]

\* edges: the first witness that names a hash.
Named(ws, h) == {i \in DOMAIN ws : ws[i].hash = h}
Edge(ws, h) == ws[Min(Named(ws, h))]

\* walk_to: what `high`, stepped back along the edges of ws, says is at
\* `target`, one edge for each n.  A missing edge proves nothing.
Walk(ws, high, target) ==
  LET stuck == [ok |-> FALSE, hash |-> <<>>, link |-> <<>>]
      back[n \in 0 .. high.seq - 1 - target] ==
        IF n = 0 THEN [ok |-> TRUE, hash |-> high.prev, link |-> <<>>]
        ELSE LET up == back[n - 1] IN
          IF up.ok /\ Named(ws, up.hash) # {} /\ Edge(ws, up.hash).seq = high.seq - n
          THEN [ok |-> TRUE, hash |-> Edge(ws, up.hash).prev,
                link |-> Append(up.link, Edge(ws, up.hash))]
          ELSE stuck
  IN IF high.seq - target > MaxWitnesses THEN stuck ELSE back[high.seq - 1 - target]

Before(x, y) == \E i \in DOMAIN x : x[i] < y[i] /\ \A j \in 1 .. i - 1 : x[j] = y[j]
Least(S) == CHOOSE x \in S : \A y \in (S \ {x}) : Before(x, y)

\* witness_conflict: the lowest sequence, then the nearest `high`, then the
\* order of the loops: <<low.seq, high.seq, high, low>>.
Conflicting(ws) ==
  {p \in (DOMAIN ws) \X (DOMAIN ws) :
     /\ ws[p[1]].seq < ws[p[2]].seq
     /\ LET k == Walk(ws, ws[p[2]], ws[p[1]].seq) IN k.ok /\ k.hash # ws[p[1]].hash}
Conflicts(ws) ==
  {<<ws[p[1]].seq, ws[p[2]].seq, p[2], p[1]>> : p \in Conflicting(ws)}

NoProof == [seq |-> 0, a |-> <<>>, b |-> <<>>, link |-> <<>>]

\* ForkProof::try_new of the first pair that conflicts at one sequence, else
\* try_linked of witness_conflict.
SameSeq(ws) ==
  {p \in (DOMAIN ws) \X (DOMAIN ws) :
     p[1] < p[2] /\ ws[p[1]].seq = ws[p[2]].seq /\ ws[p[1]].hash # ws[p[2]].hash}
Linked(ws) ==
  LET c == Least(Conflicts(ws)) IN
    [seq |-> c[1], a |-> ws[c[4]], b |-> ws[c[3]], link |-> Walk(ws, ws[c[3]], c[1]).link]
ForkProof(ws) ==
  IF SameSeq(ws) # {}
  THEN LET p == Least(SameSeq(ws)) IN
         [seq |-> ws[p[1]].seq, a |-> ws[p[1]], b |-> ws[p[2]], link |-> <<>>]
  ELSE IF Conflicts(ws) # {} /\ ProofVerifies(Linked(ws)) THEN Linked(ws) ELSE NoProof

\* forked: every sequence one of the three sources names; the answer is the
\* least of them, and none when there is none.
ForkedAt ==
  {s \in Seqs : Cardinality(evidence[s]) > 1 \/ Cardinality(recordEvidence[s]) > 1}
    \cup {c[1] : c \in Conflicts(witnesses)}

----------------------------------------------------------------------------
(* What the client accepts: client.rs *)

\* verify_chain, with no handoffs known: the first record hangs from `prev`.
VerifyChain(rs, prev) ==
  \A i \in DOMAIN rs :
    /\ SeqNo(rs[i]) = SeqNo(rs[1]) + i - 1
    /\ RegimeOf(rs[i]) = RegimeOf(rs[1])
    /\ Front(rs[i]) = IF i = 1 THEN prev ELSE rs[i - 1]
    /\ RecordVerifies(rs[i])
    /\ RegimeOf(rs[1]) = "single" => Writer(rs[i]) = Writer(rs[1])

\* observe and observe_record_hash, before any check.
Observed(rs) ==
  /\ evidence' = AddBounded(evidence, rs)
  /\ recordEvidence' = AddBounded(recordEvidence, rs)
  /\ offers < MaxOffers /\ offers' = offers + 1
  /\ UNCHANGED witnesses

Verdict(v) == last' = v /\ UNCHANGED <<pin, degraded>>

\* SlotClient::offer
Offer(rs) ==
  LET r == Last(rs) IN
  /\ Observed(rs)
  /\ UNCHANGED peer
  /\ IF ForkProof(witnesses) # NoProof THEN Verdict("alarm")
     ELSE IF \/ SeqNo(r) < SeqNo(Anchor)
             \/ pin # <<>> /\ SeqNo(r) < SeqNo(pin)
             \/ ~VerifyChain(rs, pin)
             \/ RegimeOf(rs[1]) # Regime
             \/ \E i \in DOMAIN rs : SeqNo(rs[i]) = SeqNo(Anchor) /\ rs[i] # Anchor
          THEN Verdict("rejected")
          ELSE pin' = r /\ last' = "accepted" /\ UNCHANGED degraded

\* Mutant: the height of the pin is not looked at.
OfferHeadOnlyBack(r) ==
  /\ Observed(<<r>>)
  /\ UNCHANGED peer
  /\ IF SeqNo(r) >= SeqNo(Anchor) /\ (SeqNo(r) = SeqNo(Anchor) => r = Anchor)
        /\ RecordVerifies(r) /\ RegimeOf(r) = Regime
     THEN pin' = r /\ last' = "degraded" /\ degraded' = TRUE
     ELSE Verdict("rejected")

\* SlotClient::offer_head_only
OfferHeadOnly(r) ==
  /\ Observed(<<r>>)
  /\ UNCHANGED peer
  /\ IF ForkProof(witnesses) # NoProof THEN Verdict("alarm")
     ELSE IF \/ SeqNo(r) < SeqNo(Anchor)
             \/ SeqNo(r) = SeqNo(Anchor) /\ r # Anchor
             \/ pin # <<>> /\ SeqNo(r) < SeqNo(pin)
             \/ ~RecordVerifies(r)
             \/ RegimeOf(r) # Regime
          THEN Verdict("rejected")
          ELSE pin' = r /\ last' = "degraded" /\ degraded' = TRUE

\* Mutant: the signature is checked and the roster is not.
AdmitsAnyone(w) == Verifies(w)

\* observe_witness: the gates.  (The model has one slot.)
Admits(w) == w.by \in Trusted /\ Verifies(w)

\* Those of ws that pass, in their order (a SelectSeq, written as the recursive
\* function that the proofs unfold).
Admitted(ws) ==
  LET F[i \in 0 .. Len(ws)] ==
        IF i = 0 THEN <<>> ELSE IF Admits(ws[i]) THEN Append(F[i - 1], ws[i]) ELSE F[i - 1]
  IN F[Len(ws)]

Hashes(ws) == [i \in DOMAIN ws |-> ws[i].hash]
Retained(ws) == SubSeq(ws, 1, IF Len(ws) < MaxWitnesses THEN Len(ws) ELSE MaxWitnesses)

\* Mutant: a witness for which there is no room is no evidence either.
ObserveIfRoom(ws) ==
  LET kept == Retained(witnesses \o Admitted(ws)) IN
  /\ recordEvidence' = AddBounded(recordEvidence, Hashes(kept))
  /\ witnesses' = kept

\* observe_witness of each of ws: the hash is evidence, and the witness is
\* retained while there is room, a repeated one again.
ObserveWitnesses(ws) ==
  /\ recordEvidence' = AddBounded(recordEvidence, Hashes(Admitted(ws)))
  /\ witnesses' = Retained(witnesses \o Admitted(ws))

----------------------------------------------------------------------------
(* The relay: peer.rs *)

Key(w) == <<w.by, w.seq>>

\* Peer::witnesses, in the order of its map: w comes after those before it.
Relayed ==
  [i \in 1 .. Cardinality(relay) |->
     CHOOSE w \in relay : Cardinality({v \in relay : Before(Key(v), Key(w))}) = i - 1]

\* The client asks the relay and observes everything it is given.
Poll ==
  /\ relay # {}
  /\ ObserveWitnesses(Relayed)
  /\ UNCHANGED <<pin, last, degraded, evidence, offers, peer>>

Replace(S, w) == {v \in S : Key(v) # Key(w)} \cup {w}

Full(w) ==
  /\ Key(w) \notin {Key(v) : v \in relay}
  /\ Cardinality(relay) >= MaxRelayed

\* publish_witness: written, renamed into place, remembered, acknowledged.
PublishWitness(w) ==
  /\ Verifies(w) /\ ~Full(w)
  /\ disk' = Replace(disk, w)
  /\ tmp' = {v \in tmp : Key(v) # Key(w)}
  /\ relay' = Replace(relay, w)
  /\ acked' = acked \cup {Key(w)}
  /\ UNCHANGED <<client, crashes>>

\* persist_witness fails between the write and the rename.
PublishFails(w) ==
  /\ Verifies(w) /\ ~Full(w)
  /\ crashes < MaxCrashes
  /\ crashes' = crashes + 1
  /\ tmp' = Replace(tmp, w)
  /\ UNCHANGED <<client, head, relay, disk, acked>>

\* load: every file of the directory that decodes and verifies, a .tmp too,
\* in the order the directory lists them.
Restart ==
  /\ crashes < MaxCrashes
  /\ crashes' = crashes + 1
  /\ \E S \in SUBSET (disk \cup tmp) :
       /\ \A v \in disk \cup tmp : \E w \in S : Key(w) = Key(v)
       /\ \A v, w \in S : Key(v) = Key(w) => v = w
       /\ relay' = {v \in S : Verifies(v)}
  /\ UNCHANGED <<client, head, disk, tmp, acked>>

\* A rostered observer witnesses the head of the history it was served; it
\* goes on along one history, skipping what it likes.
Witnesses(o, r) ==
  /\ r # head[o] /\ IsPrefix(head[o], r)
  /\ head' = [head EXCEPT ![o] = r]
  /\ PublishWitness(Of(o, r))

Mints(w) == w \notin relay /\ PublishWitness(w) /\ UNCHANGED head

----------------------------------------------------------------------------
Init ==
  /\ pin = <<>> /\ last = "none" /\ degraded = FALSE
  /\ evidence = [s \in Seqs |-> IF s = SeqNo(Anchor) THEN {Anchor} ELSE {}]
  /\ recordEvidence = [s \in Seqs |-> {}]
  /\ witnesses = <<>>
  /\ head = [o \in Trusted |-> <<>>]
  /\ relay = {} /\ disk = {} /\ tmp = {} /\ acked = {} /\ crashes = 0 /\ offers = 0

Next ==
  \/ \E rs \in Offers : Offer(rs)
  \/ \E r \in Heads : OfferHeadOnly(r)
  \/ Poll
  \/ \E o \in Trusted : \E r \in Served[o] : Witnesses(o, r)
  \/ \E w \in Minted : Mints(w)
  \/ \E o \in Trusted : \E r \in Served[o] : IsPrefix(head[o], r) /\ PublishFails(Of(o, r))
  \/ Restart

Spec == Init /\ [][Next]_vars

----------------------------------------------------------------------------
(* Properties *)

TypeOK ==
  /\ pin \in Record \cup {<<>>} /\ degraded \in BOOLEAN
  /\ Len(witnesses) <= MaxWitnesses
  /\ \A s \in Seqs : Cardinality(evidence[s]) <= MaxHashes

Incompatible(q, r) == ~IsPrefix(q, r) /\ ~IsPrefix(r, q)

\* A proof the client derives convicts: anybody can verify it, both of its
\* witnesses come from observers on the roster, they name records of which
\* neither leads to the other, and, as fork_proof's comment states for a fact,
\* it never needs a link.  No peer and no minted key can cause an alarm.
ProofConvicts ==
  LET p == ForkProof(witnesses) IN
    p # NoProof =>
      /\ ProofVerifies(p) /\ p.link = <<>>
      /\ {p.a.by, p.b.by} \subseteq Trusted
      /\ Incompatible(p.a.hash, p.b.hash)

\* What the retained witnesses show to somebody who knows all ancestry: s is
\* named if some witness sits at s, another above it descends from a different
\* record at s, and each step between is witnessed too.
Shown(s) ==
  \E i, j \in DOMAIN witnesses :
    LET low == witnesses[i].hash  high == witnesses[j].hash IN
      /\ SeqNo(low) = s /\ s <= SeqNo(high)
      /\ SubSeq(high, 1, s + 1) # low
      /\ \A t \in s + 1 .. SeqNo(high) : Named(witnesses, SubSeq(high, 1, t + 1)) # {}

\* forked misses nothing that the retained witnesses show: the walk over edges,
\* which gives up at the first one missing, finds the fork or a lower one.
ForkIsFound == \A s \in Seqs : Shown(s) => \E t \in ForkedAt : t <= s

\* A client that never accepted a bare head stands on a history that goes
\* through the record its capability was anchored to, and that only rostered
\* writers have signed.
PinIsAnchored ==
  pin # <<>> /\ ~degraded =>
    /\ IsPrefix(Anchor, pin)
    /\ \A n \in 1 .. Len(pin) : pin[n].w \in Roster

\* The pin never falls below the anchor and never goes back; it leaves the
\* history it is on only by the verdict that warns of it, and until then it
\* stands on the anchor (offer, offer_head_only).
PinsMoveForward ==
  /\ []PinIsAnchored
  /\ [][pin' # pin =>
          /\ SeqNo(pin') >= SeqNo(Anchor)
          /\ pin # <<>> => SeqNo(pin') >= SeqNo(pin)
          /\ last' = "accepted" => IsPrefix(pin, pin')]_vars

\* A witness that was acknowledged is relayed for ever after: whatever a
\* failing write left beside it, a restart does not lose its observation.
RelayedIsKept == \A k \in acked : \E w \in relay : Key(w) = k

\* Rostered observers that contradict each other at one sequence of the relay.
Contradicted ==
  \E v, w \in relay : {v.by, w.by} \subseteq Trusted /\ v.seq = w.seq /\ v.hash # w.hash

\* What observers gave to the relay is not lost, and where they contradict each
\* other the next poll notices, however full of repeated witnesses the client's
\* list already is; once the evidence parts it stays parted (publish_witness,
\* load, observe_witness).
PollNotices ==
  /\ []RelayedIsKept
  /\ [][/\ Poll /\ Contradicted => ForkedAt' # {}
        /\ ForkedAt # {} => ForkedAt' # {}]_vars

----------------------------------------------------------------------------
(* What the documents say and the code does not do (README, Known limits). *)

\* SPECS 5.1, verify_chain's comment: under single-writer a change of writer
\* is refused when no handoff is known.
SoleWriter ==
  pin # <<>> /\ ~degraded /\ Regime = "single" => \A n \in 1 .. Len(pin) : pin[n].w = pin[1].w
=============================================================================
