------------------------------ MODULE Records ------------------------------
(***************************************************************************)
(* The signed records of nas-tools as bytes: slot versions, handoffs,      *)
(* checkpoints and witnesses (nas-slots), lease deltas and checkpoints     *)
(* (nas-lease), and the context every signature is made under              *)
(* (nas-crypto/src/context.rs, sign.rs).  All fields but the sequence      *)
(* numbers and lists are byte strings.                                     *)
(***************************************************************************)
EXTENDS Fields

NonceLen == 3 \* 24 in the code

IsZero(b) == \A i \in DOMAIN b : b[i] = 0
\* Exactly the first record of a history has an all-zero predecessor.
CheckGenesis(seq, prev) == (seq = 0) <=> IsZero(prev)

Widths(f, w) == Len(f) = Len(w) /\ \A i \in DOMAIN f : Len(f[i]) = w[i]

-----------------------------------------------------------------------------
\* A slot version.
RecordBody(r) == <<r.slot, LE(r.seq, U64), r.root, r.nonce, r.writer, r.prev, <<r.regime>>>>
RegimeOf(v) == {v} \cap {0, 1}
EncodeRecord(r) == {Append(RecordBody(r), r.sig)}
DecodeRecord(f) ==
    IF /\ Widths(f, <<Wide, U64, Wide, NonceLen, Wide, Wide, 1, SigLen>>)
       /\ CheckGenesis(FromLE(f[2]), f[6])
    THEN {[slot |-> f[1], seq |-> FromLE(f[2]), root |-> f[3], nonce |-> f[4], writer |-> f[5],
           prev |-> f[6], regime |-> g, sig |-> f[8]] : g \in RegimeOf(f[7][1])}
    ELSE {}

\* A change of writer.  What is signed names the outgoing writer by the hash of
\* its key; the record carries the key.
\* The hash of a key: here its first bytes, in which the model's keys differ.
KeyId(pk) == SubSeq(pk, 1, Wide)
\* Mutant: the sequence number is not signed.
HandoffBodyAnySeq(h) == <<h.slot, KeyId(h.from_pk), h.to>>

HandoffBody(h) == <<h.slot, LE(h.seq, U64), KeyId(h.from_pk), h.to>>
EncodeHandoff(h) == {<<h.slot, LE(h.seq, U64), h.from_pk, h.to, h.sig>>}
DecodeHandoff(f) ==
    IF Widths(f, <<Wide, U64, KeyLen, Wide, SigLen>>)
    THEN {[slot |-> f[1], seq |-> FromLE(f[2]), from_pk |-> f[3], to |-> f[4], sig |-> f[5]]}
    ELSE {}

\* A rung of the ladder; decode leaves the genesis rule to verify.
CheckpointBody(c) == <<c.slot, LE(c.seq, U64), c.hash, LE(c.prev_seq, U64), c.prev>>
EncodeCheckpoint(c) == {CheckpointBody(c) \o <<c.pk, c.sig>>}
DecodeCheckpoint(f) ==
    IF Widths(f, <<Wide, U64, Wide, U64, Wide, KeyLen, SigLen>>)
    THEN {[slot |-> f[1], seq |-> FromLE(f[2]), hash |-> f[3], prev_seq |-> FromLE(f[4]), prev |-> f[5],
           pk |-> f[6], sig |-> f[7]]}
    ELSE {}

\* An observation of a head and of the edge below it.
WitnessBody(w) == <<w.slot, LE(w.seq, U64), w.hash, w.prev, LE(w.time, U64)>>
EncodeWitness(w) == {<<(w.pk)>> \o WitnessBody(w) \o <<w.sig>>}
DecodeWitness(f) ==
    IF Widths(f, <<KeyLen, Wide, U64, Wide, Wide, U64, SigLen>>) /\ CheckGenesis(FromLE(f[3]), f[5])
    THEN {[pk |-> f[1], slot |-> f[2], seq |-> FromLE(f[3]), hash |-> f[4], prev |-> f[5],
           time |-> FromLE(f[6]), sig |-> f[7]]}
    ELSE {}

-----------------------------------------------------------------------------
\* Lists of addresses, packed end to end; in one order only, each once.
Pack(addrs) == FlattenSeq(addrs)
Unpack(b) ==
    LET addrs == [i \in 1..Len(b) \div Wide |-> SubSeq(b, (i-1) * Wide + 1, i * Wide)]
    IN  IF Len(b) % Wide = 0 /\ Ascending(addrs) THEN {addrs} ELSE {}

DeltaBody(d) == <<LE(d.epoch, U64), LE(d.seq, U64), Pack(d.add), Pack(d.remove), d.prev>>
EncodeDelta(d) == {<<(d.pk)>> \o DeltaBody(d) \o <<d.sig>>}
DecodeDelta(f) ==
    IF /\ Len(f) = 7
       /\ Widths(<<f[1], f[2], f[3], f[6], f[7]>>, <<KeyLen, U64, U64, Wide, SigLen>>)
       /\ CheckGenesis(FromLE(f[3]), f[6])
    THEN {[pk |-> f[1], epoch |-> FromLE(f[2]), seq |-> FromLE(f[3]), add |-> a, remove |-> r,
           prev |-> f[6], sig |-> f[7]] : a \in Unpack(f[4]), r \in Unpack(f[5])}
    ELSE {}

LeaseCpBody(c) == <<LE(c.epoch, U64), LE(c.seq, U64), c.root, LE(c.count, U64), c.prev>>
EncodeLeaseCp(c) == {<<(c.pk)>> \o LeaseCpBody(c) \o <<c.sig>>}
DecodeLeaseCp(f) ==
    IF Widths(f, <<KeyLen, U64, U64, Wide, U64, Wide, SigLen>>) /\ CheckGenesis(FromLE(f[3]), f[6])
    THEN {[pk |-> f[1], epoch |-> FromLE(f[2]), seq |-> FromLE(f[3]), root |-> f[4],
           count |-> FromLE(f[5]), prev |-> f[6], sig |-> f[7]]}
    ELSE {}

-----------------------------------------------------------------------------
(***************************************************************************)
(* Signing.  The contexts keep their spelling up to abbreviation: s is     *)
(* slot, c checkpoint, h handoff, d delete and so on, 45 the dash, the     *)
(* last byte the version.                                                  *)
(***************************************************************************)
SigContext ==
    [Slot |-> <<115, 49>>, Lease |-> <<108, 49>>, LeaseCheckpoint |-> <<99, 49>>,
     SlotCheckpoint |-> <<115, 45, 99, 49>>, Roster |-> <<114, 49>>, Cap |-> <<97, 49>>,
     Witness |-> <<119, 50>>, Retention |-> <<101, 49>>, DeleteRequest |-> <<100, 45, 114, 49>>,
     DeleteApproval |-> <<100, 45, 97, 49>>, DeleteExecution |-> <<100, 45, 101, 49>>,
     Wrap |-> <<112, 49>>, MirrorPublish |-> <<109, 45, 112, 49>>,
     SlotHandoff |-> <<115, 45, 104, 49>>, Patch |-> <<113, 49>>]

Framed(ctx, message) == ctx \o LE(Len(ctx), LenPrefix) \o message

\* The bytes a signature on a statement covers.
Body(kind, r) ==
    CASE kind = "Slot" -> RecordBody(r)
      [] kind = "SlotHandoff" -> HandoffBody(r)
      [] kind = "SlotCheckpoint" -> CheckpointBody(r)
      [] kind = "Witness" -> WitnessBody(r)
      [] kind = "Lease" -> DeltaBody(r)
      [] kind = "LeaseCheckpoint" -> LeaseCpBody(r)
Signed(kind, r) == Framed(SigContext[kind], EncodeFields(Body(kind, r)))

\* What the successor of a record names it by: domain, length, body, signature.
\* Deltas and lease checkpoints share one domain.
HashDomain(kind) ==
    CASE kind = "Slot" -> <<115, 45, 104>> [] kind = "SlotCheckpoint" -> <<115, 45, 99, 45, 104>>
      [] kind \in {"Lease", "LeaseCheckpoint"} -> <<108, 45, 99>>
RecordHash(kind, r) ==
    LET b == EncodeFields(Body(kind, r)) IN HashDomain(kind) \o LE(Len(b), U64) \o b \o r.sig
CheckpointHash(c) == RecordHash("SlotCheckpoint", c)
ChainHash(kind, r) ==
    LET b == EncodeFields(Body(kind, r)) \o r.sig IN HashDomain(kind) \o LE(Len(b), U64) \o b
HashOf(kind, r) == IF kind \in {"Lease", "LeaseCheckpoint"} THEN ChainHash(kind, r) ELSE RecordHash(kind, r)
Hashed == {"Slot", "SlotCheckpoint", "Lease", "LeaseCheckpoint"}

-----------------------------------------------------------------------------
\* The six decoders accept only what their encoders write: a second spelling of
\* a record would be a second hash for one statement.
RecordIsCanonical(kind, r) ==
    CASE kind = "Slot" -> CanonicalAt(r, EncodeRecord, DecodeRecord)
      [] kind = "SlotHandoff" -> CanonicalAt(r, EncodeHandoff, DecodeHandoff)
      [] kind = "SlotCheckpoint" -> CanonicalAt(r, EncodeCheckpoint, DecodeCheckpoint)
      [] kind = "Witness" -> CanonicalAt(r, EncodeWitness, DecodeWitness)
      [] kind = "Lease" -> CanonicalAt(r, EncodeDelta, DecodeDelta)
      [] kind = "LeaseCheckpoint" -> CanonicalAt(r, EncodeLeaseCp, DecodeLeaseCp)

\* What a record says, apart from the key that is found beside it and the
\* signature; a handoff signs its key's hash.
Claims(kind, r) ==
    [n \in DOMAIN r \ {"sig", "pk"} |-> IF n = "from_pk" THEN KeyId(r.from_pk) ELSE r[n]]

\* sign and verify: what is signed for one purpose says nothing else.  Two
\* statements with the same signed bytes are of one kind and claim the same; and
\* no other context in front of a body reads as this one.
StatementIsBound(kind, r, others) ==
    \A o \in others :
      /\ Signed(o.kind, o.r) = Signed(kind, r) => o.kind = kind /\ Claims(o.kind, o.r) = Claims(kind, r)
      /\ \A c \in DOMAIN SigContext :
           Framed(SigContext[c], EncodeFields(Body(o.kind, o.r))) = Signed(kind, r) => c = kind

\* record_hash, checkpoint_hash, chain_hash: a link names one record: two with the
\* same hash input are of one kind, claim the same and carry the same signature.
HashCommitsToRecord(kind, r, others) ==
    kind \in Hashed =>
      \A o \in others :
         o.kind \in Hashed /\ HashOf(o.kind, o.r) = HashOf(kind, r) =>
           o.kind = kind /\ Claims(o.kind, o.r) = Claims(kind, r) /\ o.r.sig = r.sig
=============================================================================
