------------------------------ MODULE SlotSync ------------------------------
(***************************************************************************)
(* `nas peer sync` (crates/nas-cli/src/peercmd.rs): the devices of one     *)
(* namespace, each with its pins, against one peer that may fork or roll   *)
(* back its history, and an honest witness node.                           *)
(*                                                                         *)
(* The peer serves one connection at a time and a sync keeps it to the     *)
(* end, so a sync is one action; its writes, to three machines, happen in  *)
(* the order of Writes and the process may stop between any two of them.   *)
(*                                                                         *)
(* A record hash commits to all that was signed below it, so a record is   *)
(* the sequence of those signings: its prev is its Front, and descent is   *)
(* IsPrefix.  Likewise a rung of the checkpoint ladder is the sequence of  *)
(* the records it and the rungs below name.  The devices share the writer  *)
(* key and the witness key; the roster and the ACL admit them.             *)
(*                                                                         *)
(* A sync's pushes and leases are PutBlob, Prove and TakeLease of PeerGC,  *)
(* its outbox replay is Outbox; sync never brings a tree to the device.    *)
(***************************************************************************)
EXTENDS Integers, Sequences, SequencesExt, FiniteSets, FiniteSetsExt

CONSTANTS
  Device,
  Hostilities,    \* what --hostile may ask of the peer
  Interval,       \* CHECKPOINT_INTERVAL
  RetainN,        \* RETAIN_N: how many records a client walks one by one
  Page,           \* records in one reply
  MaxRungs,       \* MAX_CHECKPOINTS_PER_SLOT
  MaxWitnesses,   \* MAX_WITNESSES_PER_SLOT
  MaxPuts,        \* bound: local writes of a device
  MaxSigned,      \* bound: records signed
  MaxStops        \* bound: syncs that stop half-way

ASSUME SyncAssumption ==
  /\ Hostilities \subseteq SUBSET {"fork", "rollback", "withhold"}
  /\ {Interval, Page} \subseteq Nat \ {0}
  /\ {RetainN, MaxRungs, MaxWitnesses, MaxPuts, MaxSigned, MaxStops} \subseteq Nat

VARIABLES
  hostility,   \* of the peer, for good
  main,        \* the peer's history of the slot: a set of records
  alt,         \* the branch a forking peer keeps in memory; {} if there is none
  view,        \* what the next connection is shown: conns % 2
  rungs,       \* the ladder on the peer, whichever branch it is about
  witnesses,   \* the records the witness node relays, at most one per seq
  puts,        \* device -> number of its local writes; 0: it has no HEAD
  pin,         \* device -> state/peer-seq, or Nothing
  cpPin,       \* device -> state/peer-checkpoint, or Nothing
  signed,      \* how many records were signed
  stops,       \* how many syncs stopped half-way
  vouched      \* what the syncs that ended well, with the witness node and
               \* without climbing, settled on

syncVars == <<hostility, main, alt, view, rungs, witnesses, puts, pin, cpPin,
              signed, stops, vouched>>

Nothing == <<>>

\* What a device signs: its whole local tree.  The nonce of the root manifest
\* makes each signing unique.
Signing == [device : Device, puts : 1 .. MaxPuts, nonce : 1 .. MaxSigned]

Seqno(r) == Len(r) - 1
RungSeq(c) == IF c = Nothing THEN -1 ELSE Seqno(Last(c))
Top(branch) == IF branch = {} THEN Nothing ELSE CHOOSE r \in branch :
                 \A q \in branch : Seqno(q) <= Seqno(r)
At(records, s) == {r \in records : Seqno(r) = s}

SyncInit ==
  /\ hostility \in Hostilities
  /\ main = {} /\ alt = {} /\ view = 0 /\ rungs = {}
  /\ witnesses = {}
  /\ puts = [d \in Device |-> 0]
  /\ pin = [d \in Device |-> Nothing]
  /\ cpPin = [d \in Device |-> Nothing]
  /\ signed = 0 /\ stops = 0 /\ vouched = {}

-----------------------------------------------------------------------------
(* What the peer serves on this connection. *)

Forked == "fork" \in hostility /\ view = 1

Branch == IF Forked /\ alt # {} THEN alt ELSE main

\* slot_head: a peer that rolls back serves the record before the last.
SlotHead ==
  LET last == Top(Branch)
  IN IF "rollback" \in hostility /\ Cardinality(Branch) > 1
     THEN Top(Branch \ {last}) ELSE last

SlotHistory(from) ==
  LET upper == Seqno(SlotHead)
  IN {r \in Branch : from <= Seqno(r) /\ Seqno(r) <= upper}

\* publish_slot.  The branch a forking peer adds to starts from the records
\* of the main one that lie below r.
ForkBase(r) == IF alt = {} THEN {q \in main : Seqno(q) < Seqno(r)} ELSE alt

OnMain(r) == ~Forked /\ Front(r) = Top(main)

OnAlt(r) ==
  \/ Forked /\ Front(r) = Top(ForkBase(r))
  \/ /\ "fork" \in hostility /\ ~Forked
     /\ main # {} /\ Seqno(r) # Seqno(Top(main)) + 1
     /\ At(alt, Seqno(r)) = {}

-----------------------------------------------------------------------------
(* What the client accepts. *)

\* verify_skip_chain without a tail: one rung per sequence, each linked to the
\* one below, the lowest to the pinned rung or to the beginning.
VerifyLadder(cs, anchor) ==
  /\ \A b, c \in cs : RungSeq(b) = RungSeq(c) => b = c
  /\ \A c \in cs : LET below == {b \in cs : RungSeq(b) < RungSeq(c)} IN
       IF below = {}
       THEN IF anchor = Nothing THEN RungSeq(c) = 0 ELSE c = anchor
       ELSE /\ Front(c) \in below
            /\ \A b \in below : RungSeq(b) <= RungSeq(Front(c))

\* Mutant: the rungs are asked for from the sequence after the pinned one.
LadderAbovePin(d) == {c \in rungs : RungSeq(c) > RungSeq(cpPin[d])}

\* The rungs served from the pinned one on.
Ladder(d) == {c \in rungs : RungSeq(c) >= RungSeq(cpPin[d])}

Highest(cs) == CHOOSE c \in cs : \A b \in cs : RungSeq(b) <= RungSeq(c)

TopRung(d) == IF Ladder(d) = {} THEN Nothing ELSE Highest(Ladder(d))

\* Pages are asked for until the head or RetainN records have arrived.
Budget == ((RetainN + Page - 1) \div Page) * Page
Fetch(from) ==
  LET h == SlotHistory(from)
  IN {r \in h : Cardinality({q \in h : Seqno(q) < Seqno(r)}) < Budget}

\* verify_chain from its first record, whose own predecessor is not known.
Linked(chain) ==
  \A r \in chain : \/ \A q \in chain : Seqno(r) <= Seqno(q)
                   \/ Front(r) \in chain

Relayed(w) == IF w THEN witnesses ELSE {}

Memories(d, w) == Relayed(w) \cup ({pin[d]} \ {Nothing})

WalkStart(d, w) ==
  Min({Seqno(m) : m \in Memories(d, w)} \cup {Seqno(SlotHead)})

Arrived(d, w) == SlotHead \in Fetch(WalkStart(d, w))

\* plan_walk: the rungs that leave a tail short enough to walk.
Usable(d, w) ==
  LET head == Seqno(SlotHead)
      from == WalkStart(d, w)
  IN {c \in Ladder(d) : /\ from <= RungSeq(c) /\ RungSeq(c) <= head
                        /\ head - RungSeq(c) < RetainN}

Climbed(d, w) == Highest(Usable(d, w))

Chain(d, w) ==
  Fetch(IF Arrived(d, w) THEN WalkStart(d, w) ELSE RungSeq(Climbed(d, w)))

\* The walk reaches the head, linearly or from the highest usable rung.
WalkVerifies(d, w) ==
  /\ \/ Arrived(d, w)
     \/ /\ Seqno(SlotHead) - WalkStart(d, w) >= RetainN
        /\ Usable(d, w) # {}
        /\ LET top == Climbed(d, w)
           IN /\ VerifyLadder({c \in Ladder(d) : RungSeq(c) <= RungSeq(top)},
                              cpPin[d])
              /\ Last(top) \in Chain(d, w)
  /\ LET chain == Chain(d, w) IN Linked(chain) /\ SlotHead \in chain

\* How a memory is checked: against the record walked at its sequence, else
\* the rung there, else (a witness) against the record above.
RungAt(d, s) == {c \in Ladder(d) : RungSeq(c) = s}

Contradicted(d, w, chain, m) ==
  LET here  == At(chain, Seqno(m))
      named == RungAt(d, Seqno(m))
      above == At(chain, Seqno(m) + 1)
  IN IF here # {} THEN m \notin here
     ELSE IF named # {} THEN \A c \in named : Last(c) # m
     ELSE m \in Relayed(w) /\ \E r \in above : Front(r) # m

Unchecked(d, w, m) ==
  LET chain == Chain(d, w) IN
  /\ At(chain, Seqno(m)) = {}
  /\ RungAt(d, Seqno(m)) = {}
  /\ m = pin[d] \/ At(chain, Seqno(m) + 1) = {}

\* Mutant: a memory below the head is not looked for.
MemoriesHoldAtHead(d, w) ==
  \A m \in Memories(d, w) : Seqno(m) = Seqno(SlotHead) => m = SlotHead

\* Mutant: only the witnesses are compared with the chain.
MemoriesHoldForWitnesses(d, w) ==
  LET chain == Chain(d, w)
  IN \A m \in Relayed(w) : ~Contradicted(d, w, chain, m)

MemoriesHold(d, w) ==
  LET chain == Chain(d, w)
  IN \A m \in Memories(d, w) : ~Contradicted(d, w, chain, m)

\* Nothing remembered is above what is served.
NotRolledBack(d, w) ==
  \A m \in Memories(d, w) : Seqno(m) <= Seqno(SlotHead)

LadderVerifies(d) ==
  /\ Ladder(d) = {} => cpPin[d] = Nothing
  /\ VerifyLadder(Ladder(d), cpPin[d])

\* Up to the first write, that of the pinned rung.
LadderAccepted(d, w) == NotRolledBack(d, w) /\ LadderVerifies(d)

\* The whole of what sync asks before it publishes or adopts a head.
HeadAccepted(d, w) ==
  /\ LadderAccepted(d, w)
  /\ SlotHead # Nothing => /\ WalkVerifies(d, w)
                           /\ MemoriesHold(d, w)
                           /\ "withhold" \notin hostility

-----------------------------------------------------------------------------
(* The sync. *)

Tree(d) == <<d, puts[d]>>
TreeOf(r) == <<Last(r).device, Last(r).puts>>

Publishes(d) == puts[d] > 0 /\ (SlotHead = Nothing \/ TreeOf(SlotHead) # Tree(d))

NextRecord(d) ==
  Append(SlotHead, [device |-> d, puts |-> puts[d], nonce |-> signed + 1])

\* The peer takes the record; the sync goes on.
Published(d) == OnMain(NextRecord(d)) \/ OnAlt(NextRecord(d))

\* The record the sync ends with.
Settled(d) == IF Publishes(d) THEN NextRecord(d) ELSE SlotHead

\* A rung is due, and there is a ladder to hang it on.
RungDue(d) ==
  /\ Publishes(d)
  /\ Seqno(NextRecord(d)) % Interval = 0
  /\ TopRung(d) # Nothing \/ Seqno(NextRecord(d)) = 0

NextRung(d) == Append(TopRung(d), NextRecord(d))

\* Checkpoint::of_record signs it and the peer has room for it.
RungTaken(d) ==
  /\ RungSeq(TopRung(d)) < Seqno(NextRecord(d))
  /\ Cardinality(rungs) < MaxRungs

WitnessTaken(d) ==
  \/ At(witnesses, Seqno(Settled(d))) # {}
  \/ Cardinality(witnesses) < MaxWitnesses

\* The writes of a sync, in their order.
Writes == <<"seen rung", "record", "pin", "rung", "own rung", "witness">>

\* Those of them that this sync gets to.
Due(d, w) ==
  LET accepted == HeadAccepted(d, w)
      settled  == accepted /\ (Publishes(d) => Published(d))
      laddered == settled /\ (RungDue(d) => RungTaken(d))
  IN {s \in ToSet(Writes) :
        CASE s = "seen rung" ->
               LadderAccepted(d, w) /\ RungSeq(TopRung(d)) > RungSeq(cpPin[d])
          [] s = "record" -> accepted /\ Publishes(d)
          [] s = "pin" ->
               settled /\ (Publishes(d) \/ Seqno(SlotHead) > Seqno(pin[d]))
          [] s \in {"rung", "own rung"} -> laddered /\ RungDue(d)
          [] s = "witness" ->
               laddered /\ w /\ Settled(d) # Nothing /\ WitnessTaken(d)}

\* fs::write empties a pin file before it fills it: stopped in between, the
\* device has no pin.
MayTear(file, new, done, torn) == IF torn THEN Nothing ELSE IF done THEN new ELSE file

PublishNext(d) ==
  LET r == NextRecord(d) IN
  /\ signed' = signed + 1
  /\ main' = IF OnMain(r) THEN main \cup {r} ELSE main
  /\ alt' = IF OnAlt(r) THEN ForkBase(r) \cup {r}
            ELSE IF Forked THEN ForkBase(r) ELSE alt

Witnessed(r) == {q \in witnesses : Seqno(q) # Seqno(r)} \cup {r}

PinWrites == {"seen rung", "pin", "own rung"}

\* Device d syncs, with the witness node or without.  It makes all its writes,
\* or stops after the first `last`; torn: it was at the next, that of a pin.
Sync(d, w) ==
  LET due   == Due(d, w)
      whole == Len(Writes)
      ends  == {n \in 0 .. whole - 1 : stops < MaxStops /\ Writes[n + 1] \in due}
  IN
  /\ Publishes(d) => signed < MaxSigned
  /\ \E last \in ends \cup {whole}, torn \in BOOLEAN :
    LET done     == due \cap ToSet(SubSeq(Writes, 1, last))
        Does(s)  == s \in done
        Tears(s) == torn /\ s = Writes[last + 1]
    IN
    /\ torn => last \in ends /\ Writes[last + 1] \in PinWrites
    /\ stops' = IF last = whole THEN stops ELSE stops + 1
    /\ view' = 1 - view
    /\ IF Does("record") THEN PublishNext(d)
       ELSE UNCHANGED <<signed, main, alt>>
    /\ pin' = [pin EXCEPT ![d] =
                 MayTear(@, Settled(d), Does("pin"), Tears("pin"))]
    /\ rungs' = IF Does("rung") THEN rungs \cup {NextRung(d)} ELSE rungs
    /\ cpPin' = [cpPin EXCEPT ![d] =
                   IF Does("own rung") THEN NextRung(d)
                   ELSE MayTear(@, TopRung(d), Does("seen rung"),
                                Tears("seen rung") \/ Tears("own rung"))]
    /\ witnesses' = IF Does("witness") THEN Witnessed(Settled(d)) ELSE witnesses
    /\ vouched' = IF Does("witness") /\ (SlotHead = Nothing \/ Arrived(d, w))
                  THEN vouched \cup {Settled(d)} ELSE vouched
    /\ UNCHANGED <<hostility, puts>>

\* A write to the local namespace.
Put(d) ==
  /\ puts[d] < MaxPuts
  /\ puts' = [puts EXCEPT ![d] = @ + 1]
  /\ UNCHANGED <<hostility, main, alt, view, rungs, witnesses, pin, cpPin,
                 signed, stops, vouched>>

\* The peer process starts anew: the second branch was only in memory.
PeerRestart ==
  /\ alt' = {} /\ view' = 0
  /\ UNCHANGED <<hostility, main, rungs, witnesses, puts, pin, cpPin, signed,
                 stops, vouched>>

SyncNext ==
  \/ \E d \in Device : Put(d)
  \/ \E d \in Device, w \in BOOLEAN : Sync(d, w)
  \/ PeerRestart

SyncSpec == SyncInit /\ [][SyncNext]_syncVars

-----------------------------------------------------------------------------
(* Properties. *)

\* Records that were due a rung and got none: the sync that published them
\* stopped, or failed, before it.
RungsLost ==
  Cardinality({r \in main : /\ Seqno(r) % Interval = 0
                            /\ \A c \in rungs : Last(c) # r})

\* An honest peer is accepted by every device, with or without the witness
\* node, whichever writes the syncs before it lost: once the ladder is begun
\* and as long as what is left of it is dense enough.
HonestPeerIsAccepted ==
  /\ hostility = {}
  /\ main # {} => rungs # {}
  /\ (RungsLost + 1) * Interval <= RetainN
  => \A d \in Device, w \in BOOLEAN : HeadAccepted(d, w)

\* The devices share a writer key and never sign two rungs at one sequence, or
\* a second ladder, whichever branches a forking peer shows them and wherever
\* their syncs stop: that would be proof of equivocation against themselves.
LadderIsNeverForked == VerifyLadder(rungs, Nothing)

\* Two syncs that consulted the witness node and walked were never shown
\* histories neither of which continues the other, however the peer forks; and
\* the ladder the devices sign stays one.
VouchedHeadsAgree ==
  /\ \A a, b \in vouched : IsPrefix(a, b) \/ IsPrefix(b, a)
  /\ LadderIsNeverForked

\* A device's pin moves to a record that descends from it, unless the sync
\* climbed or the file was torn.
PinsOnlyExtend ==
  [][\A d \in Device :
       \/ pin'[d] = Nothing
       \/ IsPrefix(pin[d], pin'[d])
       \/ SlotHead # Nothing /\ \E w \in BOOLEAN : ~Arrived(d, w)]_syncVars

-----------------------------------------------------------------------------
(* What the documents say and the code does not do (README, Known limits). *)

\* SPECS 5.5: a client too far behind "falls back to verifying the cap anchor
\* plus the head signature, and raises a warning".
FarBehindIsAWarning ==
  hostility = {} => \A d \in Device, w \in BOOLEAN : HeadAccepted(d, w)

\* The comment on sync's chain walk: all that is remembered "must lie on the
\* chain the peer serves now", save what is reported as unchecked.
CheckedPinsOnlyExtend ==
  [][\A d \in Device :
       \/ pin'[d] = Nothing
       \/ IsPrefix(pin[d], pin'[d])
       \/ \E w \in BOOLEAN : HeadAccepted(d, w) /\ Unchecked(d, w, pin[d])]_syncVars

\* SPECS 7.1: "Concurrent PUTs to different keys both survive".
Holds(r, d, i) == Last(r).device = d /\ i <= Last(r).puts
PutsOfOthersSurvive ==
  hostility = {} =>
    \A r \in main, d \in Device, i \in 1 .. MaxPuts :
      Holds(r, d, i) => Holds(Top(main), d, i)

(* The devices of a namespace are interchangeable. *)
Symmetry == Permutations(Device)
=============================================================================
