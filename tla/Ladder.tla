------------------------------- MODULE Ladder -------------------------------
(***************************************************************************)
(* The library's skip walk (nas-slots/src/checkpoint.rs): a ladder of      *)
(* signed checkpoints up to near the head, then records link by link       *)
(* (chain.rs), and the choice of a walk.  A hash is the thing it names, a  *)
(* signature the name of its signer; an operator that can refuse returns   *)
(* a set, {} for an error.                                                 *)
(***************************************************************************)
EXTENDS Naturals, Sequences, FiniteSets, SequencesExt

Zero == <<>>  \* the all-zero link, and no anchor

-----------------------------------------------------------------------------
\* A checkpoint of a record, chained to the one before.
CheckGenesis(c) ==
    /\ (c.prev = Zero) <=> (c.seq = 0)
    /\ c.prev = Zero => c.prev_seq = 0
    /\ c.prev # Zero => c.prev_seq < c.seq
Sign(writer, slot, seq, record, prev_seq, prev) ==
    {c \in {[slot |-> slot, seq |-> seq, record |-> record, prev_seq |-> prev_seq, prev |-> prev,
             writer |-> writer, sig |-> writer]} : CheckGenesis(c)}
OfRecord(writer, r, prev) ==
    Sign(writer, r.slot, r.seq, r, IF prev = Zero THEN 0 ELSE prev.seq, prev)
Verify(c) == CheckGenesis(c) /\ c.sig = c.writer

-----------------------------------------------------------------------------
\* verify_chain_with_handoffs from a link on; a handoff is [slot, at, from, to].
VerifyChain(records, slot, roster, link, handoffs) ==
    /\ records # <<>>
    /\ \A i \in DOMAIN records :
         LET r == records[i]
         IN  /\ r.slot = slot
             /\ r.seq = records[1].seq + i - 1
             /\ r.regime = records[1].regime
             /\ r.prev = IF i = 1 THEN link ELSE records[i-1]
             /\ r.writer \in roster /\ r.sig = r.writer
             /\ r.regime = "single" /\ i > 1 /\ r.writer # records[i-1].writer =>
                  [slot |-> slot, at |-> r.seq, from |-> records[i-1].writer, to |-> r.writer] \in handoffs

\* Mutant: a rung is linked by number, not by hash.
RungFollowsBySeq(cs, i, anchor) ==
    IF i > 1 THEN cs[i].prev_seq = cs[i-1].seq
    ELSE IF anchor = Zero THEN cs[i].seq = 0 ELSE cs[i] = anchor

\* The first rung is the anchor, or at genesis without one; each other rung
\* names the one before, by number and by hash.
RungFollows(cs, i, anchor) ==
    IF i > 1 THEN cs[i].prev_seq = cs[i-1].seq /\ cs[i].prev = cs[i-1]
    ELSE IF anchor = Zero THEN cs[i].seq = 0 ELSE cs[i] = anchor

\* What a walk did, or {}.
Walk(from, head, records, rungs, skipped) ==
    [from_seq |-> from, head |-> head, records |-> records, checkpoints |-> rungs, skipped |-> skipped]
VerifySkipChain(cs, tail, slot, roster, anchor, handoffs) ==
    LET ladder == \A i \in DOMAIN cs :
                    cs[i].slot = slot /\ cs[i].writer \in roster /\ Verify(cs[i]) /\ RungFollows(cs, i, anchor)
        attached == cs # <<>> /\ tail # <<>> => Last(cs).seq = tail[1].seq /\ Last(cs).record = tail[1]
        link == IF cs = <<>> THEN Zero ELSE tail[1].prev
        from == IF cs = <<>> THEN tail[1].seq ELSE cs[1].seq
    IN  CASE cs = <<>> /\ tail = <<>> -> {}
          [] ~ladder \/ ~attached -> {}
          [] tail = <<>> -> {Walk(from, Last(cs).record, 0, Len(cs), Last(cs).seq - from)}
          [] cs = <<>> /\ tail[1].seq # 0 -> {}
          [] OTHER -> IF VerifyChain(tail, slot, roster, link, handoffs)
                      THEN {Walk(from, Last(tail), Len(tail), Len(cs), tail[1].seq - from)}
                      ELSE {}

-----------------------------------------------------------------------------
\* plan_walk over the numbers of the verified rungs.
Gap(a, b) == IF a > b THEN a - b ELSE 0
Usable(from, head, rungs, budget) == {r \in rungs : r >= from /\ r <= head /\ head - r < budget}
PlanWalk(from, head, rungs, budget) ==
    LET span == Gap(head, from)
        usable == Usable(from, head, rungs, budget)
        top == CHOOSE r \in usable : \A q \in usable : q <= r
    IN  IF budget > 0 /\ span < budget THEN [kind |-> "full", top |-> from, skipped |-> 0, records |-> span + 1]
        ELSE IF usable # {} THEN [kind |-> "skip", top |-> top, skipped |-> Gap(top, from),
                                  records |-> Gap(head, top) + 1]
        ELSE [kind |-> "unreachable", top |-> 0, skipped |-> 0, records |-> 0]

-----------------------------------------------------------------------------
\* A history of one writer and the ladder it signs beside it, every `every'
\* records; f names the fork a record belongs to.
Rec(slot, seq, f, prev, writer) ==
    [slot |-> slot, seq |-> seq, tag |-> f, prev |-> prev, writer |-> writer, sig |-> writer, regime |-> "single"]
History(slot, writer, forks) ==
    LET H[n \in 0..Len(forks)] ==
          IF n = 0 THEN <<>>
          ELSE Append(H[n-1], Rec(slot, n - 1, forks[n], IF n = 1 THEN Zero ELSE H[n-1][n-1], writer))
    IN  H[Len(forks)]
Rungs(history, every) ==
    LET C[n \in 0..Len(history)] ==
          IF n = 0 THEN <<>>
          ELSE IF (n - 1) % every # 0 THEN C[n-1]
          ELSE LET prev == IF C[n-1] = <<>> THEN Zero ELSE Last(C[n-1])
               IN  C[n-1] \o SetToSeq(OfRecord(history[n].writer, history[n], prev))
    IN  C[Len(history)]

\* verify_skip_chain: a peer that has everything a writer ever signed, on both
\* sides of a fork and for other slots, and what strangers sign, can only have
\* accepted what belongs to one history: the rungs are consecutive ones of that
\* history's ladder, the records its records up to the head that is reported,
\* a ladder begins at the anchor, and every record from there to the head is
\* counted once, as walked or as skipped.
SkipWalkIsOneHistory(cs, tail, slot, roster, anchor, histories, every) ==
    \A w \in VerifySkipChain(cs, tail, slot, roster, anchor, {}) :
      \E h \in histories :
         /\ \E i \in 0..Len(Rungs(h, every)) : IsPrefix(cs, SubSeq(Rungs(h, every), i + 1, Len(Rungs(h, every))))
         /\ \A i \in DOMAIN tail : h[tail[i].seq + 1] = tail[i]
         /\ h[w.head.seq + 1] = w.head
         /\ cs # <<>> => cs[1] = IF anchor = Zero THEN Rungs(h, every)[1] ELSE anchor
         /\ w.from_seq + w.skipped + (IF tail = <<>> THEN 1 ELSE w.records) = w.head.seq + 1

\* An honest ladder and tail are accepted from every rung a client may hold.
HonestWalkIsAccepted(h, every, slot, roster) ==
    LET rungs == Rungs(h, every)
    IN  \A i, j \in DOMAIN rungs : i <= j =>
          VerifySkipChain(SubSeq(rungs, i, j), SubSeq(h, rungs[j].seq + 1, Len(h)), slot, roster, rungs[i], {}) # {}

\* plan_walk: the walk ends at the head and stays within the budget, what is
\* skipped and what is walked is the whole span, the full walk is taken whenever
\* it fits and otherwise the rung that leaves least to skip back from the head.
PlanReachesHead(from, head, rungs, budget) ==
    LET p == PlanWalk(from, head, rungs, budget)
        span == head - from + 1
    IN  from <= head =>
          /\ p.kind # "unreachable" => p.skipped + p.records = span /\ p.records <= budget
          /\ p.kind = "full" <=> span <= budget
          /\ p.kind = "skip" => p.top \in rungs /\ p.top + p.records = head + 1
          /\ p.kind = "unreachable" => \A r \in rungs \cap from..head : head - r + 1 > budget
          /\ p.kind = "skip" => \A r \in rungs \cap from..head : r <= p.top
=============================================================================
