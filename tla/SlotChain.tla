------------------------------ MODULE SlotChain -----------------------------
(***************************************************************************)
(* What peers and clients agree a slot's history is (SPECS 5.1 to 5.3):    *)
(* the rule by which a peer admits a record, and the walk by which a       *)
(* client accepts a history.                                               *)
(*                                                                         *)
(* A record carries seq, prev, writer and regime; a signature is valid by  *)
(* construction, for only writers make records.  record_hash is modelled   *)
(* by the record itself, so `prev` is the predecessor record, or Zero.     *)
(***************************************************************************)
EXTENDS Naturals

CONSTANTS
  Record,   \* everything a writer may sign
  Writer,
  Roster,   \* the writers peer and client accept
  MaxSeq,   \* bound: the highest sequence number
  Zero,     \* the all-zero predecessor
  None      \* no record

Seqs == 0 .. MaxSeq
Handoff == [at : Seqs, from : Writer, to : Writer]
History == [Seqs -> Record \cup {None}]

ASSUME RecordAssumption ==
  /\ MaxSeq \in Nat
  /\ Roster \subseteq Writer
  /\ None \notin Record
  /\ \A r \in Record : r.seq \in Seqs /\ r.writer \in Writer

\* SlotHandoff::authorises: one slot, one sequence, one pair of writers.
Authorises(grants, prior, r) ==
  \E h \in grants : h.at = r.seq /\ h.from = prior.writer /\ h.to = r.writer

\* check_genesis: exactly the first record has an all-zero prev.
GenesisRule(r) == (r.seq = 0) <=> (r.prev = Zero)

\* Mutant: any rostered writer may follow any other.
SucceedsUnauthorised(grants, prior, r) == r.prev = prior

\* r may come right after the record `prior`.
Succeeds(grants, prior, r) ==
  /\ r.prev = prior
  /\ prior.regime = "single" /\ prior.writer # r.writer =>
       Authorises(grants, prior, r)

\* r is the next record of h: compare-and-swap on seq, and the chain.
Extends(h, grants, r) ==
  /\ r.writer \in Roster
  /\ GenesisRule(r)
  /\ \A s \in Seqs : h[s] # None <=> s < r.seq
  /\ r.seq > 0 => Succeeds(grants, h[r.seq - 1], r)

\* verify_chain_with_handoffs over the whole of h, from its first record.
\* The writer it carries along is that of the record before.
VerifyChain(h, grants) ==
  \A s \in {t \in Seqs : h[t] # None} :
    /\ h[s].seq = s
    /\ s > 0 => h[s - 1] # None
    /\ h[s].regime = h[0].regime
    /\ h[s].prev = IF s = 0 THEN Zero ELSE h[s - 1]
    /\ h[s].writer \in Roster
    /\ GenesisRule(h[s])
    /\ h[0].regime = "single" /\ s > 0 /\ h[s].writer # h[s - 1].writer =>
         Authorises(grants, h[s - 1], h[s])
=============================================================================
