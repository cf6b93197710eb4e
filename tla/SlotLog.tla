------------------------------ MODULE SlotLog -------------------------------
(***************************************************************************)
(* What an honest peer promises about one slot, with its memory, files and *)
(* restarts out of sight: a log that only grows, one record at a time,     *)
(* each admitted by SlotChain's rule, and handoffs that are never          *)
(* forgotten.                                                              *)
(***************************************************************************)
EXTENDS SlotChain

VARIABLES log, granted

AInit ==
  /\ log = [s \in Seqs |-> None]
  /\ granted = {}

Append(r) ==
  /\ Extends(log, granted', r)
  /\ log' = [log EXCEPT ![r.seq] = r]

Advance ==
  /\ granted' \in SUBSET Handoff
  /\ granted \subseteq granted'
  /\ log' = log \/ \E r \in Record : Append(r)

ASpec == AInit /\ [][Advance]_<<log, granted>>
=============================================================================
