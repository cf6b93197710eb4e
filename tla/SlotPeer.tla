------------------------------ MODULE SlotPeer ------------------------------
(***************************************************************************)
(* One slot of an honest peer: its history in memory, the record files and *)
(* their .tmp siblings, and the handoffs (crates/nas-peer/src/peer.rs).    *)
(*                                                                         *)
(* persist_slot writes <seq>.tmp and renames it; load reads every file of  *)
(* the directory, the .tmp ones too, in no particular order.  An offer     *)
(* that was refused because its write failed can therefore come back as    *)
(* the head after a restart, and so can a handoff.                         *)
(*                                                                         *)
(* serve takes one connection at a time and gives it the peer exclusively, *)
(* so an action is a whole request.  A request refused by the ACL, the     *)
(* roster, a signature or the checks below changes nothing: left out.      *)
(***************************************************************************)
EXTENDS SlotChain, FiniteSets

CONSTANT MaxHandoffs   \* MAX_HANDOFFS_PER_SLOT

ASSUME HandoffAssumption == MaxHandoffs \in Nat

VARIABLES
  slots,          \* the history in memory
  file,           \* <seq>: what its bytes decode to, or None
  tmp,            \* <seq>.tmp: likewise; None for a torn write too
  handoffs,       \* in memory
  handoffsDisk    \* the decodable files, .tmp or not: the name is the content

mem == <<slots, handoffs>>
vars == <<slots, file, tmp, handoffs, handoffsDisk>>

Init ==
  /\ slots = [s \in Seqs |-> None]
  /\ file = [s \in Seqs |-> None]
  /\ tmp = [s \in Seqs |-> None]
  /\ handoffs = {}
  /\ handoffsDisk = {}

-----------------------------------------------------------------------------
(* Disk writes. *)

\* Mutant: the .tmp is copied rather than renamed.
PersistSlotCopies(r) ==
  /\ file' = [file EXCEPT ![r.seq] = r]
  /\ tmp' = [tmp EXCEPT ![r.seq] = r]

PersistSlot(r) ==
  /\ file' = [file EXCEPT ![r.seq] = r]
  /\ tmp' = [tmp EXCEPT ![r.seq] = None]

\* The .tmp was not opened, was torn, or was written and not renamed.
PersistSlotFails(r) ==
  /\ \E left \in {tmp[r.seq], None, r} : tmp' = [tmp EXCEPT ![r.seq] = left]
  /\ UNCHANGED file

PersistHandoff(h) == handoffsDisk' = handoffsDisk \cup {h}

PersistHandoffFails(h) == handoffsDisk' \in {handoffsDisk, handoffsDisk \cup {h}}

\* Mutant: the handoffs are not read back.
LoadWithoutHandoffs ==
  /\ slots' = [s \in Seqs |-> IF file'[s] = None THEN tmp'[s] ELSE file'[s]]
  /\ handoffs' = {}

\* Peer::load.  Where both a record file and its .tmp decode, directory order
\* decides; `pick` is where the .tmp was read last.
Load ==
  /\ \E pick \in SUBSET Seqs :
       slots' = [s \in Seqs |->
                   IF file'[s] = None \/ (tmp'[s] # None /\ s \in pick)
                   THEN tmp'[s] ELSE file'[s]]
  /\ handoffs' = handoffsDisk'

-----------------------------------------------------------------------------
(* Requests. *)

PublishSlot(r) ==
  /\ Extends(slots, handoffs, r)
  /\ PersistSlot(r)
  /\ slots' = [slots EXCEPT ![r.seq] = r]
  /\ UNCHANGED <<handoffs, handoffsDisk>>

PublishSlotFails(r) ==
  /\ Extends(slots, handoffs, r)
  /\ PersistSlotFails(r)
  /\ UNCHANGED <<slots, handoffs, handoffsDisk>>

\* A handoff already held is acknowledged again and changes nothing.
AcceptsHandoff(h) ==
  /\ h.from # h.to
  /\ h \notin handoffs
  /\ Cardinality(handoffs) < MaxHandoffs

PublishHandoff(h) ==
  /\ AcceptsHandoff(h)
  /\ PersistHandoff(h)
  /\ handoffs' = handoffs \cup {h}
  /\ UNCHANGED <<slots, file, tmp>>

PublishHandoffFails(h) ==
  /\ AcceptsHandoff(h)
  /\ PersistHandoffFails(h)
  /\ UNCHANGED <<slots, file, tmp, handoffs>>

-----------------------------------------------------------------------------
(* The process dies, between requests or in the middle of one, and is      *)
(* started again.                                                          *)

Restart ==
  /\ UNCHANGED <<file, tmp, handoffsDisk>>
  /\ Load

CrashInPublishSlot(r) ==
  /\ Extends(slots, handoffs, r)
  /\ PersistSlot(r) \/ PersistSlotFails(r)
  /\ UNCHANGED handoffsDisk
  /\ Load

CrashInPublishHandoff(h) ==
  /\ AcceptsHandoff(h)
  /\ PersistHandoffFails(h)
  /\ UNCHANGED <<file, tmp>>
  /\ Load

Next ==
  \/ \E r \in Record : \/ PublishSlot(r)
                       \/ PublishSlotFails(r)
                       \/ CrashInPublishSlot(r)
  \/ \E h \in Handoff : \/ PublishHandoff(h)
                        \/ PublishHandoffFails(h)
                        \/ CrashInPublishHandoff(h)
  \/ Restart

Spec == Init /\ [][Next]_vars

-----------------------------------------------------------------------------
(* Properties. *)

\* Memory and disk hold records and handoffs at their own sequence numbers.
TypeOK ==
  /\ slots \in History
  /\ file \in History
  /\ tmp \in History
  /\ handoffs \in SUBSET Handoff
  /\ handoffsDisk \in SUBSET Handoff

\* All records that are served have one regime.  record.rs says so, "Declared at
\* slot creation and immutable"; publish_slot does not compare it (README, Known
\* limits), so this is a hypothesis of the next property and no invariant.
RegimeIsImmutable ==
  \A s \in Seqs : slots[s] # None => slots[s].regime = slots[0].regime

\* Whatever was published, failed, torn or reloaded, the history and the
\* handoffs the peer serves pass the client's own walk
\* (verify_chain_with_handoffs), unless a writer changed the regime.
ServedHistoryVerifies ==
  RegimeIsImmutable => VerifyChain(slots, handoffs)

\* A record once served is served unchanged for ever, through failed writes
\* and restarts: publish_slot persists before it inserts, and a .tmp that load
\* reads never replaces another record.
HistoryIsAppendOnly ==
  [][\A s \in Seqs : slots[s] # None => slots'[s] = slots[s]]_vars

\* The peer, files and restarts included, is an append-only log: a step adds
\* at most one record, an admissible one, and forgets no handoff.
Log == INSTANCE SlotLog WITH log <- slots, granted <- handoffs
ImplementsSlotLog == Log!ASpec

-----------------------------------------------------------------------------
(* The inductive invariant. *)

\* A record file holds what memory holds, and has no .tmp beside it.
FilesAreServed ==
  \A s \in Seqs : file[s] # None => slots[s] = file[s] /\ tmp[s] = None

\* A .tmp holds a record already served, or one that may be the next head.
TmpIsHarmless ==
  \A s \in Seqs : tmp[s] # None =>
    \/ slots[s] = tmp[s]
    \/ tmp[s].seq = s /\ Extends(slots, handoffs, tmp[s])

\* Everything served is on disk.
ServedIsDurable ==
  /\ \A s \in Seqs : slots[s] # None => slots[s] \in {file[s], tmp[s]}
  /\ handoffs \subseteq handoffsDisk

\* The history is an unbroken chain of admissible records.
HistoryIsOneChain ==
  \A s \in Seqs : slots[s] # None =>
    /\ slots[s].seq = s
    /\ slots[s].writer \in Roster
    /\ GenesisRule(slots[s])
    /\ s > 0 => slots[s - 1] # None /\ Succeeds(handoffs, slots[s - 1], slots[s])

\* What every step preserves: memory, record files and .tmp files describe one
\* chain, whichever of two files load reads last (publish_slot, persist_slot, load).
IndInv ==
  /\ TypeOK
  /\ FilesAreServed
  /\ TmpIsHarmless
  /\ ServedIsDurable
  /\ HistoryIsOneChain
=============================================================================
