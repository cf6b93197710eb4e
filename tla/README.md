# NAS-tools: TLA+ specifications

NAS-tools stores encrypted data on peers its owner does not trust. This
directory models the parts of it where a mistake loses data or hides one: what
a peer may delete, what it serves and to whom, what a client believes, what
becomes of writes made offline, of trees, secrets, git histories and documents,
and the formats all of it rests on. TLC checks the models on small instances;
TLAPS proves the main results for all of them.

## The system

| Component | State | Operations | Talks to |
|---|---|---|---|
| Peer, blobs and leases (`nas-peer`, `nas-lease/sweep.rs`, `nas-store/blobs.rs`) | blobs with mtimes; holder → leased set and last-seen; retention floor; executed deletions. Memory and files | put, prove, take and release lease, extend/publish/forget retention, warnings, sweep, load | one request at a time from clients; the operator's sweep; a clock |
| Peer, slots (`nas-peer`, `nas-slots`) | per slot a history seq → record, handoffs, checkpoints, witnesses. Memory and files with `.tmp` siblings | publish and serve each, load | clients |
| Peer, service (`nas-transfer`, `nas-peer/acl.rs`) | roster, access list, the one open connection | handshake, dispatch, rights, timeouts | every client; the operator |
| Client sync (`nas-cli/peercmd.rs`, `nas-slots/checkpoint.rs`, `chain.rs`) | per device: record pin, checkpoint pin, local HEAD | sync: check the served head, ladder and chain, publish, pin, checkpoint, witness | the peer, a witness node |
| SlotClient (`nas-slots/client.rs`, `witness.rs`) | anchor, pin, evidence | offer a chain or a head, collect witnesses, make a fork proof | a relay of witnesses |
| Outbox (`nas-cli/outbox.rs`, `objectcmd.rs`, `nas-store/bucket.rs`) | `state/HEAD`, files in `state/outbox/` | put, rm, list, replay | the gateway, the command line and sync, as processes without a lock |
| Delete trail (`nas-delete`) | requests, approvals, executions | request, approve, execute under a quorum that rises within a rolling window | the peer's retention |
| Object store (`nas-store/tree.rs`, `object.rs`, `chunker.rs`) | chunk and manifest blobs; a restored directory | write (whole and incremental), read, restore | blobs, vault |
| Vault (`nas-vault`, `nas-cli/repo.rs`) | `vault.bin`, its key in keychain or file, wrap records | create, open, rotate, export, change passphrase | the keychain; several processes |
| Git (`nas-cli/gitremote.rs`, `gitcmd.rs`, `mirror.rs`) | oid map, refs, patch queue; rules, receipt, public repository, map, approval | push, fetch, export; dry run, publish | git clones |
| Gateway (`nas-gateway`, `nas-store/cache.rs`) | one request per listener; the shared chunk cache | GET with ranges, PUT, DELETE, PROPFIND; signed or not | the outbox, the object store |
| Documents, leases, formats, keys (`doc.rs`, `nas-lease`, `wire.rs`, `nas-crypto`, ...) | op logs; otherwise none | merge, compact; replay; encode, decode, derive, seal | all of the above |

What is hard here:

- **Memory and disk come apart.** Leases and retention change in memory and
  are written afterwards; slots, handoffs, witnesses and checkpoints are
  written first; `load` reads `.tmp` files too, in directory order; pins, HEAD
  and outbox files are rewritten in place.
- **Time.** Sweep and the rolling window decide by differences of a clock that
  may be set either way.
- **Three machines per sync.** A sync writes to the peer, to the device and to
  the witness node, in an order, and may stop between any two writes.
- **A peer that lies.** `--hostile` modes fork, roll back, withhold and claim
  blobs they do not hold, with records that are all genuinely signed.
- **Processes without locks.** The gateway, `nas put`, `nas peer sync`, git
  helpers and `nas rotate` share a directory.
- **Distance.** Histories outgrow what one reply or one walk can carry.
- **Compaction and tombstones.** Logs forget, and are merged with ones that
  have not.

What makes each component correct:

- *Blobs and leases*: nothing that a client was told is protected disappears
  before its time; every upload gets its grace; a failed write never weakens
  what was acknowledged.
- *Slots*: the history is append-only through crashes and is always one that
  the client's own walk accepts.
- *Service*: nothing is stored for somebody without the right, a push that ends
  well left its blob there, and everyone who connects gets a turn.
- *Sync*: an honest peer is never refused; two clients are never both content
  with rival histories; what a device remembers stays an ancestor of what it
  accepts.
- *SlotClient*: a fork proof convicts only a peer that forked, and a fork the
  evidence shows is found.
- *Outbox*: an acknowledged write is visible, survives any crash, and reaches
  HEAD in the end.
- *Delete trail*: no deletion below its quorum, however it is split up.
- *Object store*: what was written reads back; a restore is complete and stays
  inside its destination.
- *Vault*: no crash or race loses the keys; a passphrase that was replaced
  stays replaced.
- *Git*: a published ref is complete; the mirror publishes nothing excluded and
  only extends.
- *Gateway*: a read is of one version; no write gets round the access list.
- *Formats and keys*: one value, one encoding; no signature, hash or key serves
  two purposes.

## Modules

| Module | Models | Checked by |
|---|---|---|
| `ProtectedStore` | what a garbage-collecting store promises: the abstract specification | refined by `PeerGC` |
| `PeerGC`, `Blobs_proofs` | blob store, leases, retention, sweep | `gc_protect`, TLAPS |
| `SlotChain` | when a record may follow another, and the client's chain walk | used by the next |
| `SlotLog` | an append-only log of admissible records: abstract | refined by `SlotPeer` |
| `SlotPeer`, `Slots_proofs` | one slot of an honest peer in memory and on disk | `slot_chain`, TLAPS |
| `KeyMap` | a map that changes one key at a time: abstract | refined by `Outbox` |
| `Outbox`, `Buckets_proofs` | put, rm and replay as steps of concurrent processes | `outbox`, TLAPS |
| `SlotSync`, `Slots_proofs` | `nas peer sync` of several devices against an untrusted peer | `sync`, TLAPS |
| `DeleteTrail`, `DeleteTrail_proofs` | requests, approvals, `decide`, the recorded trail | `delete_trail`, TLAPS |
| `SlotClient`, `SlotClient_proofs` | the library's client and the witness relay | `slot_client`, TLAPS |
| `PeerService`, `PeerService_proofs` | roster, handshake, dispatch, access list, `push_blob` | `service`, TLAPS |
| `TreeStore`, `Blobs_proofs` | writing and restoring directory trees | `trees`, TLAPS |
| `Vault`, `Vault_proofs` | the secrets of one namespace, file operation by file operation | `vault`, TLAPS |
| `GitRemote`, `GitMirror`, `GitMirror_proofs` | the remote helper; composed with the public mirror | `git`, TLAPS |
| `Gateway`, `Buckets_proofs` | both faces, ranged reads, the cache, racing writers | `gateway`, TLAPS |
| `Fields`, `Wire`, `Records`, `Manifests` | the encoding, messages, signed records, stored tables | `laws` |
| `Keys`, `SigV4`, `Leases`, `Ladder` | key schedule and sealing; request signatures; lease replay; skip walk | `laws` |
| `Chunks`, `Globs`, `WebDav` | chunker, stream and padding; mirror rules; listings | `laws` |
| `DocLog` | documents edited, merged and compacted | `laws` |
| `MC...` | constants, inputs and symmetry of the runs | |

### PeerGC

An action is a whole request handler: the server gives one connection at a
time exclusive use of the peer. `blobs`/`mtime` are the blob files, `leases`
and `leasesDisk` the holders' entries in memory and in their files, and
likewise for retention and executions. A write that fails (`Persist...Fails`)
leaves any subset of the holders' files rewritten; a crash inside a handler is
such a failure followed by `Restart`. `ClockMoves` sets the clock to anything.
The planner of `sweep.rs` is `PlanDelete` with one operator per reason to keep
a blob. Hashes, sizes and encodings are abstracted; `relied`, `relySince`,
`promised`, `handed` and `authorised` record what clients were told.

### SlotChain and SlotPeer

A record is its sequence number, predecessor, writer and regime; its hash is
modelled by the record itself. `Extends` is the admission test of
`publish_slot`, `VerifyChain` the walk of `verify_chain_with_handoffs`: two
pieces of code that have to agree. `file[s]` and `tmp[s]` are the two files of
a sequence number; `PersistSlotFails` leaves the `.tmp` absent, torn or whole,
and `Load` reads both kinds in any order, so a record whose publication was
refused can return as the head after a restart. The proof shows this does no
harm.

### Outbox

Every read or write of a file or of the directory is a step, and nothing locks
the namespace. HEAD is modelled by the manifest it names, a delta by its one
entry. `Fold` is `BucketManifest::merge` of one-key deltas: the higher lamport
wins. The writer id is the same for all processes of a device. `tears` says
whether a write may leave a file that does not decode.

### SlotSync

A sync keeps the peer's only connection from the first request to the last, so
it is one action, with the peer's state fixed while it checks. Its writes are
listed in `Writes`; `Due` says which of them this sync reaches, and `Sync`
performs all or the first few. A stop inside `fs::write` of a pin file leaves
the file empty, which reads as no pin.

A record hash commits to everything below it, so a record is the sequence of
what was signed up to it, its predecessor is its `Front` and descent is
`IsPrefix`; a rung of the ladder is, in the same way, the sequence of the
records it stands on. The definitions follow the code's order: `NotRolledBack`
(pin and witnesses against the served height), `LadderVerifies`, the walk
(`WalkStart`, `Fetch`, `Usable`, `WalkVerifies`), the comparison of every
memory (`Contradicted`, `Unchecked`), then `Publishes`, `RungDue` and the caps.

The peer has the forking, rolling-back and withholding behaviours of
`hostile.rs`; as in `serve`, connections are shown the two branches in turn,
and a restart forgets the second. The witness node is honest. Not here: blobs
and leases pushed on the way (`PeerService`, `PeerGC`), the outbox replay
(`Outbox`), and changes of writer (`SlotPeer`).

### DeleteTrail

The approvers' devices (`LearnOf`, `Approve`, their own clock), outsiders who
sign what they like, and the peer, which judges an execution by `Decide` and
records it with its time. An execution may be assembled by anybody from any
approvals ever signed. A write that fails may leave a whole `.tmp`, which the
next `Restart` reads: the trail then has an execution whose client was told of
an error, and the properties cover it. `reported` is history.

### SlotClient

`Offer` and `OfferHeadOnly` are the two ways a peer can present a slot,
`ObserveWitnesses` a poll of the relay, `PublishWitness`, `PublishFails` and
`Restart` the relay with its files. Evidence is kept per sequence in bounded
sets (`AddBounded`); `Conflicts` walks the known edges between them and
`ForkProof` makes of a conflict what a third party can check. Observers with a
rostered key witness what they were served, others sign anything.

### PeerService

The operator's commands, then per connection the steps of both sides: `Connect`
queues a socket with a claimed key, `Accept` takes it from the queue, `Greet` is
the hello and the handshake that proves the key or ends the connection, then
`Ask`, `Reply` and `Read`, and `Leave` is the peer's read timing out wherever
the client may fall silent: before its hello, between requests, or with an
answer unread. `Handle` dispatches all 23 kinds of request of `wire.rs` and looks up
the right of those that need one; kinds that end alike share an arm (`Submit` for
signed records the store takes or refuses, `Bounded` for lists). `PushBlob` and
`PushReads` are the client that asks, challenges and sends. What a request does to
the store is a set here, and whether the store takes what it brings is a free
choice; the detail is in `PeerGC`, `SlotPeer`, `SlotClient` and `DeleteTrail`.

### TreeStore

`write_dir_incremental` against any earlier address, one chunk or manifest at a
time; chunk and manifest files that are damaged; a rotation that changes every
later address; `read_dir_to` into one destination, name by name in order, over
what earlier restores and stopped restores left, links included.

### Vault

Each command is a sequence of file operations (`open` with its flags, write,
rename, remove) with a process, a kill or a power cut able to come between any
two. Handles (`repo[p]`) are what a process has in memory. A rotation replaces
`vault.bin` with the table its handle has, whatever the file holds by then:
if that is not the table the rotation started from, the other processes are
`overtaken` until they open the vault again. The keeper of the disk may replace the readable part of a wrap record.

### GitRemote and GitMirror

A push is a check, a load of the oid map, a save and a ref update; a patch
export reads and rewrites the queue. The map's pointer, a ref and the queue are
rewritten in place, so a helper killed inside that write leaves the file cut
short (`ImportSaveTorn`, `UpdateRefTorn`, `PatchAppendTorn`): an empty pointer
fails every later push and fetch, a torn ref is not listed, the queue is empty. `torn` and `dropped` record it. `GitMirror` extends it with the mirror:
rules, dry run with its receipt, publish with its gates (removal, derivation
commit by commit, secret scan, map, signed approval), killed anywhere.

### Gateway

Each listener serves one request; a request goes through authentication and
face dispatch, then reads chunk by chunk through the cache, or prepares a delta
from the view it loaded, takes the next number of the outbox (`TakeSeq`) and
writes the file of that number over whatever is there (`WriteFile`). The bucket
is HEAD with the numbered deltas over it; the command line writes the same files
in between, and a sync folds them into HEAD (`Replay`). A replay and the two
reads of a view are one step each here; their own steps are in `Outbox`.
`Upto` is the offset that `read_object_range` counts up chunk by chunk, `PlanOf`
the chunks it decides to open, and `Huge` the `u64::MAX` that a read of a whole
object passes as its end; no object is longer. `Answers` says independently, in
terms of the object's bytes and the request, what an answer has to be, and
`IsPart` what it still is when the range was worked out on another version.

### The pure modules

`Fields` has the one length-prefixed encoding, with a decoder that returns the
set of values its input stands for (empty for an error). `Wire`, `Records` and
`Manifests` are the messages, signed records and tables over it, with every
check of their decoders; widths are scaled down, their order kept. In `Keys`,
`SigV4` and `Leases` hashes are symbolic, injective functions of the
concatenated input, so that two inputs which the code concatenates alike do
collide. `Chunks` has the cut rule over a small gear table, the refilled stream
and the frames; `Globs` the matcher and the rules file; `Ladder` the skip walk
and `plan_walk`; `WebDav` the made-up directories; `DocLog` the document log,
with devices that edit, merge and compact. `MCLaws` poses every input of a
small set to each, and states the laws as invariants of the posed case.

## Runs

| Run | Instance | What holds |
|---|---|---|
| `gc_protect` | 1 blob, 2 holders, clock 0..4, one failing write | acknowledged leases and retention are kept, in memory and after a restart; nothing relied on goes before expiry + notice; every upload gets its grace; implements `ProtectedStore` |
| `slot_chain` | 2 writers, 2 regimes, 3 sequence numbers, every record over sound and unsound predecessors, handoffs, failed writes, crashes | the inductive invariant; unless the regime was changed, what is served passes the client's walk; implements `SlotLog` |
| `outbox` | 1 process at a time, 4 commands, 2 crashes, with and without torn files | no acknowledged write is lost; a replay is invisible (implements `KeyMap`); every write reaches HEAD and the outbox drains |
| `sync` | 2 devices, 5 records, checkpoint interval 2, walk of 4, pages of 2, one stop; five kinds of peer | an honest peer is accepted; vouched heads and ladder are of one history; pins only extend |
| `delete_trail` | 2 requests, authority of 2, 3 keys, window 1, one failing write | quorums are met by holders who waited; a split deletion escalates; the trail is append-only |
| `slot_client` | histories up to sequence 3, 3 observers of which 2 rostered, bounds of 2 hashes and 3 witnesses, one crash | alarms convict; forks are found; pins are anchored and move forward; a poll notices |
| `service` | 2 clients with 2 and 1 requests, 2 keys, 2 subjects, 12 kinds of request that stand for the 23, pushes, 3 modes, 4 operator steps | writes are authorised; pushed blobs are held; every socket is accepted in the end |
| `trees` | 2 names, one a directory, files of 1 and 2 chunks, links, 6 steps | trees read back for ever; restores are exact and stay inside |
| `vault` | 2 processes, 3 modes, 6 secrets, 2 wraps, 1 altered record | keys open the vault; what is sealed can be opened, by the vault on disk unless a rotation of an older table overtook the handle; passphrase changes lose no DEK and bring back no old passphrase |
| `git` | 2 agents, 5 commits with a merge, 2 refs, 3 rule sets, 5 commands, one helper at a time, killed between or inside its writes | what was answered is stored but for what a torn file held; the public repository is clean; histories only extend |
| `gateway` | a TCP and a unix listener, 2 keys, objects of 2, 3 and 1 chunks (3, 3 and 1 bytes), cache of 1, 2 requests, 1 command, 3 boots, 3 outbox files, syncs | reads are exact; writes are allowed |
| `laws` | some 30,000 posed inputs; 2 writers with 2 edits each; a stream read in every way | formats, signatures, keys, chunks, walks, selectors, edits |

Several properties join a few named parts (`TreesAreKept` is `RoundTrip`,
`SavedStaysItself` and `UnchangedCostsNothing`); the parts are stated and
commented where they are defined.

**Why the bounds are enough.** One blob suffices for the protection properties
because every decision of the planner is about one address. The clock range
exceeds grace, expiry and notice together, so every boundary is crossed, in
both directions. Three sequence numbers give a history with a first, a middle
and a last record, which is all that admission and the walk compare; the proofs
remove the bound. In `sync` five records are the fewest for which a device
whose memory is the first record cannot walk and has to climb, and the
interval, the walk and the page keep the proportions of the code's 256, 1024
and 74 as far as they matter: one lost rung leaves the ladder dense enough, and
`HonestPeerIsAccepted` says how many may be lost. Two puts to each of two keys
are enough to have a delta overtaken by, and folded after, a later one. In
`delete_trail` one execution fills the window, so the second is the escalated
one; the proofs remove all its bounds. In `slot_client` the evidence bounds are
below what the observers can say, so that they bite. Two processes, agents,
clients or gateways are what a race needs; the operations of each are long
enough for either to overtake the other at every step.

**Fairness.** In `Outbox`: a command that runs is scheduled (`Continue`), and
the operator reconnects again (`LoadDeltas`); crashes are bounded. In
`PeerService`: the serving loop accepts, answers and, on its read timeout,
leaves. These are the loop of `serve` and the timeout it sets on every socket
before the handshake. Nothing is assumed of a client. The timeout is of one
read, so a client that keeps asking, or sends a frame byte by byte, holds the
loop as long as it likes; `MaxAsks` bounds the first and a frame that arrives
whole or not at all leaves out the second. The sweep is run by an operator, so nothing promises that garbage is
ever collected. Nobody promises that a device syncs again, so `SlotSync` has no
liveness property.

**Deadlock** is checked in `gc_protect`, `slot_chain`, `sync` and
`delete_trail`. The other behaviours end when their bounded commands do.

## Proofs

Proved for all values of the constants, from the assumptions named in the
modules. They say that bounds, sizes and periods are natural numbers, that the
marks for "nothing" and "torn" are no content, and:

- `RecordAssumption` (`SlotChain`): records carry a sequence number and a
  writer;
- `DeleteTrail`: a quorum per kind of scope, finitely many keys and requests;
- `ServiceAssumption`: finitely many subjects, each client with one key;
- `VaultAssumption`: the three modes; the empty passphrase is none;
- `DagAssumption`, `NoneAssumption`: commits come after their parents, and a
  commit that `commit-tree` wrote is something;
- `ClientAssumption` (`SlotClient`): a record is a history that is not empty,
  an unrostered witness has a key that is not on the roster, and at least two
  hashes are kept per sequence, as the code's constant does. With room for one
  hash no fork could be told;
- `SyncAssumption`: the page and the interval of rungs are not zero;
- `TreeAssumption`: there is a name, and a file's content is a sequence of
  chunks;
- `GatewayAssumption`, `SizeAssumption`: a listener is on one transport, a
  chunk is not empty, requests name known keys, no object is longer than
  `Huge`.

- `Blobs_proofs`, of `PeerGC`. `IndInv` joins the type invariant, the two acknowledgement
  invariants, that only decided deletions are on file, and that a blob's mtime
  is the time it was last handed over. The promises to clients are action
  properties about the sweep, and are provable only with it: the planner reads
  memory, so memory must be no weaker than what was promised, and memory is
  reloaded from disk, so the disk must not be either. One lemma per group of
  actions; `SweptIsCollectable` then turns a sweep into the clients' terms.
  Results: `Inductive`, `TypeCorrect`, `LeasesKept`, `RetentionKept`,
  `RelianceHonoured`, `RetentionHonoured`, `GraceHonoured`, and, for a peer
  that does not ignore retention, `Refinement` to `ProtectedStore`.
- `Slots_proofs`, of `SlotPeer`. `IndInv` says that a record file holds what is served and
  has no `.tmp` beside it, that a `.tmp` holds a record already served or one
  that would be admitted next, that all that is served is on disk, and that the
  history is one chain. `TmpIsHarmless` is the part that makes it inductive: it
  is why reading `.tmp` files at start is safe. Results: `Invariance`,
  `ServedHistoryAlwaysVerifies`, `AppendOnly`, and `Implementation` of
  `SlotLog`.
- `DeleteTrail_proofs`. `IndInv` adds to the properties that what is served is
  on disk (so a restart only adds), that a holder's signature means it learned
  of the request and waited (`SignedIsDeliberate`), and that whatever was
  reported is on record at the time reported (`ReportedIsRecorded`), which is
  what lets the window see every earlier report. `CountedAreDeliberate` turns
  the holders `decide` counts into ones who waited; `ReportEscalates` compares
  the reports a behaviour has seen with the window `decide` looks at. Results:
  `Inductive`, `QuorumMet`, `WindowHolds`, `TrailKept`.

- `Buckets_proofs`, of `Outbox`, for commands that do not overlap (`OneProcess`). With two
  processes both results are false, see Known limits. `IndInv` says what each
  command, at each of its steps, may rely on: a write that has read HEAD still
  sees that HEAD, the delta it is about to queue is the next version of its
  key, a replay's folded manifest equals what HEAD and the files hold, and once
  HEAD is saved every file left is `Absorbed`, so a clear cut off half-way, and
  the replay after it, change nothing. `Kept` is the property over the files
  that decode; without it a torn file would end the induction. The fold is over
  a set in no given order, so its lemmas (`merge` is a maximum by lamport) come
  first. Results: `AckedIsKept`, and `RefinesKeyMap`: `KeyMap` is implemented
  step by step, a replay being a stutter.
- `SlotClient_proofs`. `IndInv` adds to the anchored pin that retained
  witnesses are genuine, that each is in the evidence of its sequence or that
  sequence is parted already (`WitnessIsEvidence`: the two structures have
  bounds of their own, and this is what they agree on), and that an
  acknowledged witness is in a file that is no `.tmp` and the only one served
  under its key. The walk over edges is shown to return the ancestor of a
  record, or nothing at the first missing edge; alarms and found forks follow
  from the two halves of that lemma. Results: `Inductive`, `AlarmsConvict`,
  `ForksAreFound`, `PinsForward`, `PollsNotice`.
- `PeerService_proofs`. `IndInv` ties the open connection to the key its
  handshake proved, the rights in the peer's memory to those in its directory
  (granted, never taken back), and the answer a client holds to the file it was
  given for; a client reads its answer steps later. Results:
  `WritesAuthorised`, `PushHolds`.
- `Vault_proofs`. A namespace is unborn, or has a vault, or has wrap records,
  and `IndInv` describes the files, handles and commands of each. Its core: all
  contents a power cut may leave of `vault.bin` are sealed under one key with a
  committed table (`VaultDisk`), a rotating handle can go back to its old table
  (`VaultHandle`), and the last told wrap record stays whole, below every
  record on its way (`ToldStays`). A second invariant on top of it
  (`DiskFollows`, lemma `TablesFollow`) says that `vault.bin` has every
  generation of each handle that is not overtaken, also in the middle of its
  rotation. Of the highest wrap record the result says whose it is if it opens,
  not that it opens: a change killed inside its write leaves it torn. Results: `KeysOpen`, `SealedOpens`,
  `PassphraseHolds`.
- `GitMirror_proofs`. For a helper at a time (`Exclusive`; without it
  `AnsweredIsStored` is false, see Known limits): between reading the oid map
  and moving the ref nobody replaced either (`PushHolds`), and a number enters
  the patch queue once (`QueueHolds`). A kill inside a write is excepted only
  for what that file held: the refs when the map's pointer is empty, the lines
  of a queue that was cut, the one ref. For the mirror, without that condition:
  the public repository is one derivation, past the scan it has no secret, and
  an approval names a scanned commit (`MirrorInv`). That a public history
  follows the private one is shown for any commit graph by taking the least
  commit for which it fails. Results: `AnsweredHolds`, `CleanHolds`,
  `RepublishHolds`, `HistoriesExtend`.
- `Slots_proofs`, of `SlotSync`. `SyncInv` says that each branch of the peer is
  one history (or the two records that a forking peer which also rolls back is
  left with), that the rungs the devices signed are one rising ladder, that the
  witness node still has every record vouched for, and that all that is
  remembered of an honest peer is in its history. A sync that walked has its
  memories below the head it walked to, so two that consulted the node settle
  on one history. `HonestAccepted` counts: if the walk from the pin does not
  arrive, then a rung lies within `RetainN` of the head, or more records would
  have lost their rung than syncs were stopped. Results: `SyncInductive`,
  `HonestAccepted`, `VouchedAgree`, `PinsExtend`.
- `Blobs_proofs`, of `TreeStore`. `TreeInv` says that every root manifest is of
  some tree and its subdirectories have their manifests, that what a write
  returned is of the tree it was given, that the names a restore has passed are
  as the manifest says, and that nothing was written through a link. A write
  goes through the subdirectories one by one and stores what it needs even if
  it stops; that is shown for the least name at which it would fail. Results:
  `TreeInductive`, `RestoresAreExact`, `StoreKeepsTrees`.
- `Buckets_proofs`, of `Gateway`. `GwInv` says that requests are well formed
  and one about to write was let through (`OpsFine`), that where keys can only
  be created every delta, in the outbox or under way, makes its key or has lost
  to what HEAD has (`StoreFine`, with `FitsIn`), which no overwriting of a
  number disturbs, that a cached file is in
  a queue, and in the own queue of the gateway that can open it (`CacheFine`),
  and that what a read has so far is the beginning of its range of one object
  the key held meanwhile, with a plan that leads to the end (`AsksFine`). The
  object may be replaced between the steps of a read, so the range is related
  to the size it was measured against and the bytes to the object that was
  loaded; they are the bytes asked for of one object when both are of one
  length. That no step changes what a key holds follows from `StoreFine`, except
  for a step that writes over a number in use (`Reuses`). `PlanLeads` shows that the plan gives the clamped range without gap
  or overlap, by the least round at which it would not; the bound of the cache
  is an injection of its files into gateways and places of their queues.
  Results: `GatewayInductive`, `ReadsExact`, `WritesAllowed`.

A recursive function of a model is shown to satisfy its equation, and a fact
about all its arguments is shown for the least argument that would lack it:
`LeastNat` or `LeastPlace`, from the well-founded order of the naturals, stands in for
induction.

Only model-checked:

- liveness (`OutboxDrains`, `NobodyWaitsForever`), which is out of the prover's
  reach;
- the laws of the pure modules: what their recursive operators compute for
  every input needs induction over data.

## Known limits

What a text of the repository says and the code does not do. The definitions
are in the modules, each beside the properties that hold; TLC refutes each with
the run's configuration changed as shown.

| Definition | Change of the configuration | What happens |
|---|---|---|
| `PeerGC!ReturningHolderIsToldWhatWent` | `gc_protect` with 2 blobs, 1 holder, `Grace`, `LeaseExpiry`, `Notice` 0, `MaxLeasedBytes` 1, `MaxTime` 1, `MaxFaults` 0 | `sweep_warnings` (peer.rs:1029) plans over what is left, so a holder back after the window is not "told what went" (peer.rs:1022, SPECS.md:851) |
| `PeerGC!QuotaIsEnforced` | the same | an address swept while leased, and uploaded again by another client, takes its holder above `max_leased_bytes` (peer.rs:947, SPECS.md:858) |
| `SlotPeer!RegimeIsImmutable` | none | `publish_slot` does not compare regimes (peer.rs:1331); record.rs:42 says "Declared at slot creation and immutable". After such a record every client's walk fails |
| `AckedWriteIsKept` | `outbox` with `Writer = {gateway}`, `Syncer = {sync}`, `MaxWrites` 2, `MaxCrashes` 0 | `Outbox::clear` removes deltas it never folded (outbox.rs:147); SPECS.md:783 promises queued writes are replayed |
| `SlotSync!CheckedPinsOnlyExtend` | `sync` with `Hostilities = {{"fork"}}`, `Interval` 1, `RetainN` 2, `Page` 1, `MaxPuts` 2, `MaxSigned` 6, `MaxStops` 0 | one ladder serves both branches, and a climb takes a rung of the other branch as evidence that a pin is on this one (peercmd.rs:1568 against :1394) |
| `SlotSync!PutsOfOthersSurvive` | `sync` with `Hostilities = {{}}`, `MaxSigned` 3 | a device publishes its tree over another's without merging (peercmd.rs:1699, SPECS.md:892) |
| `SlotSync!FarBehindIsAWarning` | `sync` with `Hostilities = {{}}`, `MaxSigned` 6 | a first sync that stops before its rung leaves a slot without a ladder, and far enough on an honest peer is refused for good (peercmd.rs:1489, SPECS.md:768) |
| `SlotClient!SoleWriter` | none | a walk from a pin starts with no writer (chain.rs:145), so a rostered writer takes a single-writer slot over without a handoff, against chain.rs:120 |
| `Vault!GenerationsAreKept` | none | two processes that opened one vault both rotate, and the second rename (repo.rs:733, :352) drops the generation the first one seals under; vault.rs:22 and :229 say past generations are kept |
| `GitRemote!AnsweredSurvivesTearing` | none | a helper killed inside `fs::write` (gitcmd.rs:126, :135, :883) leaves an empty map pointer, which stops every push and fetch, a queue without the lines before it, or a ref that is not listed, so that the next push is not checked against it |
| `Gateway!RangesAreOfOneVersion` | none | a range is worked out on the length `head` saw and served from the version loaded next (s3.rs:230-236): replaced in between by one of another length, it is not the range asked for of either |
| `Gateway!AppendOnlyAlwaysKeeps` | none | `next_seq` reads the directory and `enqueue` writes the file (outbox.rs:47-67), so two processes take one number and the second write drops the first's delta: a key that was there is not |
| `AnsweredIsStored` | `git` with `Exclusive` FALSE, `MaxCmds` 4 | two helpers load and save the oid map, and one push's objects are lost (gitcmd.rs:253, SPECS.md:962) |

Smaller ones, met while modelling and stated in the properties' conditions:

- merging a log from before a deletion into a compacted one brings the deleted
  text back (doc.rs:225), so that logs with the same edits show the same text
  only while none was compacted, more narrowly than doc.rs:3 says, and a count of
  clock entries wraps (doc.rs:293);
- ids order the writer first (doc.rs:30, :164), so what a device types is not
  directly behind its character where a higher writer inserted there;
  `TypedTogether` says exactly where it is;
- `working_view` reads HEAD and then the outbox (outbox.rs:121-123): a sync that
  ends in between hides its deltas from that one read;
- sweep.rs:18-20 still says that a deduplicated put keeps the old upload time;
  blobs.rs:155-170 moves it, and `EveryUploadGetsGrace` is about that;
- a recorded S3 request can be sent again for ever: its date is not compared
  with the clock (sigv4.rs:261);
- brackets in a mirror rule stand for themselves (mirror.rs:151), and the
  publish gate asks for a receipt, not for one of these rules (mirror.rs:800);
- a lease checkpoint numbered beyond the last delta is never looked at
  (set.rs:144);
- a key spelled like a directory hides the keys below it from a mount
  (dav.rs:221);
- `verify_skip_chain` with no rungs does not look at the anchor
  (checkpoint.rs:565);
- `for_profile` clamps the average along with the maximum (chunker.rs:135);
- witnesses and rungs are never dropped: at their caps the relay refuses new
  ones (peer.rs:684, :1062);
- a rotation killed before its rename leaves a sibling that refuses every later
  rotation, and a torn wrap record is the only one tried (repo.rs:349, :534);
- a damaged blob on the peer cannot be repaired by pushing it again
  (peercmd.rs:945);
- files are renamed into place without a sync to disk (peer.rs:1134).

## Not modelled

Cryptography is ideal: only a key's owner signs, a hash names one value, a box
opens under its key. The contents of the gear table, HTTP parsing beyond the
request line, headers and ranges, message filtering and wording, the drills and
the argument parsing keep no state the properties tell apart. A machine that
loses its disk cache is modelled for the vault only; elsewhere "crash" is the
death of a process. Tombstone collection in a bucket by epoch, the checkpoint
relay's files, `git am`, and pins in the older format without a hash are left
out. `PROJECT.json` lists every component with its status.

## Plan

Done: every module above with its run; proofs for `PeerGC`, `SlotPeer`,
`DeleteTrail`, `Outbox`, `SlotClient`, `PeerService`, `Vault`, `GitRemote`,
`GitMirror`, `SlotSync`, `TreeStore` and `Gateway`. Left, in order of
importance:

1. The checkpoint relay's files, composed with `SlotSync` in place of its ideal
   witness node, and tombstone collection.
2. `DeleteTrail` composed with the retention of `PeerGC`.
