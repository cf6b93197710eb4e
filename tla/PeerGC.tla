------------------------------- MODULE PeerGC -------------------------------
(***************************************************************************)
(* The part of a peer that keeps or destroys blobs: the blob store, the    *)
(* leases, the retention floor and the sweep (crates/nas-peer/src/peer.rs, *)
(* crates/nas-lease/src/sweep.rs, crates/nas-store/src/blobs.rs).          *)
(*                                                                         *)
(* The server runs one request at a time against one `&mut Peer`, so an    *)
(* action is a whole handler.  What interleaves is the order of requests   *)
(* of several holders, the peer's clock (which may jump either way), the   *)
(* operator's sweep, failing writes and restarts.  Leases and retention    *)
(* are changed in memory first and written out after, so a write that      *)
(* fails leaves the two apart until the next one succeeds or the process   *)
(* restarts.  A crash in the middle of a handler is a failing write        *)
(* followed by Restart.                                                    *)
(*                                                                         *)
(* relied, relySince, promised, handed and authorised are history: what    *)
(* the clients were told, against which the peer's behaviour is judged.    *)
(***************************************************************************)
EXTENDS Integers, FiniteSets, FiniteSetsExt

CONSTANTS
  Addr,             \* blob addresses
  Holder,           \* lease holders (one per authenticated subject)
  Request,          \* deletion requests a quorum may approve
  Size,             \* bytes of each blob, [Addr -> Nat]
  Grace,            \* GcPolicy.grace
  LeaseExpiry,      \* GcPolicy.lease_expiry
  Notice,           \* GcPolicy.notice
  MaxLeasedBytes,   \* GcPolicy.max_leased_bytes
  IgnoreRetention,  \* Hostility.ignore_retention
  MaxTime,          \* bound: the clock shows 0 .. MaxTime
  MaxFaults         \* bound: how many writes fail in a behaviour

ASSUME ConstantsAssumption ==
  /\ Size \in [Addr -> Nat]
  /\ {Grace, LeaseExpiry, Notice, MaxLeasedBytes, MaxTime, MaxFaults} \subseteq Nat
  /\ IgnoreRetention \in BOOLEAN

VARIABLES
  blobs, mtime,                      \* the blob files and their mtimes
  leases, leasesDisk,                \* Peer.leases and leases/<holder>
  retention, retentionDisk,          \* Peer.retention and the retention file
  executions, executionsDisk,        \* Peer.delete_executions and its files
  now,                               \* the peer's clock
  faults,                            \* failed writes so far
  relied, relySince,                 \* what each holder may rely on, counted from
  promised,                          \* addresses acknowledged as retained
  handed,                            \* when each blob was last put or proven
  authorised                         \* requests whose quorum was met

blobVars == <<blobs, mtime, handed>>
leaseVars == <<leases, leasesDisk, relied, relySince>>
floorVars == <<retention, retentionDisk, promised>>
trailVars == <<executions, executionsDisk, authorised>>
vars == <<blobVars, leaseVars, floorVars, trailVars, now, faults>>

LeaseEntry == [set : SUBSET Addr, seen : Nat]

\* Timestamp::saturating_since: a clock that went back reads as no time at all.
SaturatingSince(earlier) == IF now > earlier THEN now - earlier ELSE 0

Earlier(s, t) == IF s < t THEN s ELSE t

Init ==
  /\ blobs = {}
  /\ mtime = [a \in Addr |-> 0]
  /\ leases = [h \in Holder |-> [set |-> {}, seen |-> 0]]
  /\ leasesDisk = leases
  /\ retention = {}
  /\ retentionDisk = {}
  /\ executions = {}
  /\ executionsDisk = {}
  /\ now = 0
  /\ faults = 0
  /\ relied = [h \in Holder |-> {}]
  /\ relySince = [h \in Holder |-> 0]
  /\ promised = {}
  /\ handed = [a \in Addr |-> 0]
  /\ authorised = {}

-----------------------------------------------------------------------------
(* A write to disk that fails.                                             *)

WriteFails == faults < MaxFaults /\ faults' = faults + 1
WriteSucceeds == UNCHANGED faults

-----------------------------------------------------------------------------
(* Blobs.                                                                  *)

\* Mutant: a put of a blob already held returns without touching it.
PutBlobWithoutTouch(a) ==
  /\ blobs' = blobs \cup {a}
  /\ mtime' = IF a \in blobs THEN mtime ELSE [mtime EXCEPT ![a] = now]
  /\ handed' = [handed EXCEPT ![a] = now]
  /\ UNCHANGED <<leaseVars, floorVars, trailVars, now, faults>>

\* BlobStore::put: a new blob, and one already held, both end present with
\* the mtime moved to now.
PutBlob(a) ==
  /\ blobs' = blobs \cup {a}
  /\ mtime' = [mtime EXCEPT ![a] = now]
  /\ handed' = [handed EXCEPT ![a] = now]
  /\ UNCHANGED <<leaseVars, floorVars, trailVars, now, faults>>

\* BlobStore::prove: answering a proof of possession touches the blob too,
\* because the client skips its upload on the strength of it.
Prove(a) ==
  /\ a \in blobs
  /\ mtime' = [mtime EXCEPT ![a] = now]
  /\ handed' = [handed EXCEPT ![a] = now]
  /\ UNCHANGED <<blobs, leaseVars, floorVars, trailVars, now, faults>>

-----------------------------------------------------------------------------
(* Leases.                                                                 *)

\* Peer::blob_sizes has only blobs that are present, so a leased address
\* that was swept weighs nothing.
LeasedBytes(S) == MapThenSumSet(LAMBDA a : Size[a], S \cap blobs)

\* Mutant: the files are written before the memory is replaced.
PersistLeasesTooEarly == WriteSucceeds /\ leasesDisk' = leases

\* Peer::persist_leases rewrites every holder's file in turn; when one write
\* fails the files before it are already replaced.
PersistLeases ==
  /\ WriteSucceeds
  /\ leasesDisk' = leases'

PersistLeasesFails ==
  /\ WriteFails
  /\ \E W \in SUBSET Holder :
       leasesDisk' = [h \in Holder |-> IF h \in W THEN leases'[h] ELSE leasesDisk[h]]

\* Mutant: a lease is granted over a blob the peer does not hold.
TakeLeaseUnheld(h, S) ==
  /\ LeasedBytes(leases[h].set \cup S) <= MaxLeasedBytes
  /\ leases' = [leases EXCEPT ![h] = [set |-> @.set \cup S, seen |-> now]]
  /\ PersistLeases
  /\ relied' = [relied EXCEPT ![h] = @ \cup S]
  /\ relySince' = [relySince EXCEPT ![h] = now]
  /\ UNCHANGED <<blobVars, floorVars, trailVars, now>>

\* Peer::take_lease.  The union with what is already leased is weighed as a
\* whole; the memory is replaced, then the files.
TakeLease(h, S) ==
  /\ S \subseteq blobs
  /\ LeasedBytes(leases[h].set \cup S) <= MaxLeasedBytes
  /\ leases' = [leases EXCEPT ![h] = [set |-> @.set \cup S, seen |-> now]]
  /\ \/ /\ PersistLeases
        /\ relied' = [relied EXCEPT ![h] = @ \cup S]
        /\ relySince' = [relySince EXCEPT ![h] = now]
     \/ /\ PersistLeasesFails
        /\ relySince' = [relySince EXCEPT ![h] = Earlier(@, now)]
        /\ UNCHANGED relied
  /\ UNCHANGED <<blobVars, floorVars, trailVars, now>>

\* Peer::release_lease.  A holder never seen is one with an empty set here.
\* Whatever the answer, the client no longer relies on what it released.
ReleaseLease(h, S) ==
  /\ leases' = [leases EXCEPT ![h] = [set |-> @.set \ S, seen |-> now]]
  /\ relied' = [relied EXCEPT ![h] = @ \ S]
  /\ \/ /\ PersistLeases
        /\ relySince' = [relySince EXCEPT ![h] = now]
     \/ /\ PersistLeasesFails
        /\ relySince' = [relySince EXCEPT ![h] = Earlier(@, now)]
  /\ UNCHANGED <<blobVars, floorVars, trailVars, now>>

-----------------------------------------------------------------------------
(* Retention.                                                              *)

\* Peer::persist_retention after the memory has changed: acknowledged, or
\* failed with the old file in place.
PersistRetention == WriteSucceeds /\ retentionDisk' = retention'
PersistRetentionFails == WriteFails /\ UNCHANGED retentionDisk

\* Peer::extend_retention and Peer::publish_retention end the same way.
StoreRetention(new, asked) ==
  /\ retention' = new
  /\ \/ PersistRetention /\ promised' = promised \cup asked
     \/ PersistRetentionFails /\ UNCHANGED promised
  /\ UNCHANGED <<blobVars, leaseVars, trailVars, now>>

ExtendRetention(S) == StoreRetention(retention \cup S, S)

\* The complete set is offered; an honest peer takes only a superset.
PublishRetention(S) ==
  /\ IgnoreRetention \/ retention \subseteq S
  /\ StoreRetention(S, S)

\* Peer::forget_retention: any recorded execution opens it, for any addresses.
ForgetRetention(S, r) ==
  /\ r \in executions
  /\ retention' = retention \ S
  /\ promised' = promised \ S
  /\ PersistRetention \/ PersistRetentionFails
  /\ UNCHANGED <<blobVars, leaseVars, trailVars, now>>

\* Peer::execute_delete once `decide` has answered Execute: written first,
\* inserted after.  A write that fails may leave its .tmp, which load reads.
ExecuteDelete(r) ==
  /\ authorised' = authorised \cup {r}
  /\ \/ /\ WriteSucceeds
        /\ executions' = executions \cup {r}
        /\ executionsDisk' = executionsDisk \cup {r}
     \/ /\ WriteFails
        /\ r \notin executions
        /\ executionsDisk' \in {executionsDisk, executionsDisk \cup {r}}
        /\ UNCHANGED executions
  /\ UNCHANGED <<blobVars, leaseVars, floorVars, now>>

-----------------------------------------------------------------------------
(* The sweep.                                                              *)

\* Mutant: no notice window after expiry.
ExpiringNever(h) == FALSE /\ h \in Holder

\* Holder::status.
Active(h) == SaturatingSince(leases[h].seen) <= LeaseExpiry
Expiring(h) ==
  /\ ~Active(h)
  /\ SaturatingSince(leases[h].seen) <= LeaseExpiry + Notice

Leasers(a) == {h \in Holder : a \in leases[h].set}

\* The floor Peer::sweep hands to plan_sweep.
SweepFloor == IF IgnoreRetention THEN {} ELSE retention

\* plan_sweep, blob by blob: kept by the floor, by its age, by an active
\* lease; what is left is kept only while a leaser is inside its notice.
KeptByFloor(a) == a \in SweepFloor
KeptByAge(a) == SaturatingSince(mtime[a]) < Grace
KeptByActive(a) == \E h \in Leasers(a) : Active(h)
KeptByExpiring(a) == \E h \in Leasers(a) : Expiring(h)

AtRisk(a) == a \in blobs /\ ~KeptByFloor(a) /\ ~KeptByAge(a) /\ ~KeptByActive(a)

PlanDelete == {a \in blobs : AtRisk(a) /\ ~KeptByExpiring(a)}

\* plan_sweep's warnings, as Peer::sweep_warnings answers a holder, planned
\* over the peer's own floor.
SweepWarnings(h) ==
  {a \in leases[h].set :
     a \in blobs /\ a \notin retention /\ ~KeptByAge(a) /\ ~KeptByActive(a)}

\* Peer::delete_blob refuses a retained blob a second time.
MayDelete(a) == IgnoreRetention \/ a \notin retention

\* Peer::sweep: the whole plan, or what was removed before one removal failed.
Sweep ==
  /\ PlanDelete # {}
  /\ \E D \in SUBSET PlanDelete :
       /\ \A a \in D : MayDelete(a)
       /\ \/ D = PlanDelete /\ WriteSucceeds
          \/ D # PlanDelete /\ WriteFails
       /\ blobs' = blobs \ D
  /\ UNCHANGED <<mtime, handed, leaseVars, floorVars, trailVars, now>>

-----------------------------------------------------------------------------
(* The environment: the process restarts, the clock moves.                 *)

\* Peer::load.
Restart ==
  /\ leases' = leasesDisk
  /\ retention' = retentionDisk
  /\ executions' = executionsDisk
  /\ UNCHANGED <<blobVars, leasesDisk, relied, relySince, retentionDisk, promised,
                 executionsDisk, authorised, now, faults>>

\* SystemClock::now may be set forward or back between two requests.
ClockMoves ==
  /\ now' \in 0 .. MaxTime
  /\ UNCHANGED <<blobVars, leaseVars, floorVars, trailVars, faults>>

Next ==
  \/ \E a \in Addr : PutBlob(a) \/ Prove(a)
  \/ \E h \in Holder, S \in SUBSET Addr : TakeLease(h, S) \/ ReleaseLease(h, S)
  \/ \E S \in SUBSET Addr : ExtendRetention(S) \/ PublishRetention(S)
  \/ \E S \in SUBSET Addr, r \in Request : ForgetRetention(S, r)
  \/ \E r \in Request : ExecuteDelete(r)
  \/ Sweep
  \/ Restart
  \/ ClockMoves

Spec == Init /\ [][Next]_vars

-----------------------------------------------------------------------------
(* Properties.                                                             *)

\* Every variable keeps its shape.
TypeOK ==
  /\ blobs \subseteq Addr
  /\ mtime \in [Addr -> Nat]
  /\ leases \in [Holder -> LeaseEntry]
  /\ leasesDisk \in [Holder -> LeaseEntry]
  /\ retention \subseteq Addr
  /\ retentionDisk \subseteq Addr
  /\ executions \subseteq Request
  /\ executionsDisk \subseteq Request
  /\ now \in Nat
  /\ faults \in Nat
  /\ relied \in [Holder -> SUBSET Addr]
  /\ relySince \in [Holder -> Nat]
  /\ promised \subseteq Addr
  /\ handed \in [Addr -> Nat]
  /\ authorised \subseteq Request

\* An acknowledged lease is in memory and on disk, stamped no earlier than
\* the holder may count from, through failed writes, other holders' writes
\* and restarts (take_lease, release_lease, persist_leases, load).
AcknowledgedLeasesAreKept ==
  \A h \in Holder : relied[h] # {} =>
    \A e \in {leases[h], leasesDisk[h]} :
      relied[h] \subseteq e.set /\ relySince[h] <= e.seen

\* An acknowledged retention is in force and on disk until a recorded
\* execution lowers it, whatever was written or lost in between
\* (extend_retention, publish_retention, forget_retention, load).
AcknowledgedRetentionIsKept ==
  ~IgnoreRetention => promised \subseteq retention \cap retentionDisk

\* No quorum, no execution: a restart that reads half-finished files never
\* makes a request count as executed that was not decided (execute_delete).
ExecutionsWereDecided == executions \cup executionsDisk \subseteq authorised

\* What every step preserves: the state has its type, acknowledged leases and
\* retentions are in memory and on disk through failed writes and restarts, no
\* execution counts that was not decided, and a file's time is the last time a
\* client handed the blob over (take_lease, publish_retention, load, touch).
IndInv ==
  /\ TypeOK
  /\ AcknowledgedLeasesAreKept
  /\ AcknowledgedRetentionIsKept
  /\ ExecutionsWereDecided
  /\ mtime = handed

\* A blob some client was told is leased goes only after that client has
\* been silent for longer than expiry and notice together (SPECS 6.3: "the
\* peer must not sweep a holder's set until expiry + notice").
RelianceOutlivesNotice ==
  [][\A a \in blobs \ blobs', h \in Holder :
       a \in relied[h] => SaturatingSince(relySince[h]) > LeaseExpiry + Notice]_vars

\* A blob whose retention was acknowledged is not removed by an honest peer,
\* restarts and failed writes included, unless a deletion request met its
\* quorum first (SPECS 6.3: "never swept without an authenticated forget").
RetainedBlobsStay ==
  [][~IgnoreRetention => (blobs \ blobs') \cap promised = {}]_vars

\* Every upload gets its grace: a sweep never takes a blob inside Grace of
\* the last time any client handed it over, deduplicated uploads and
\* answered proofs included (SPECS 6.2).
EveryUploadGetsGrace ==
  [][\A a \in blobs \ blobs' : SaturatingSince(handed[a]) >= Grace]_vars

\* What the peer does with memory, files, restarts and its planner is the
\* collector ProtectedStore describes.
Abstract == INSTANCE ProtectedStore WITH
              Window <- LeaseExpiry + Notice, held <- blobs, claim <- relied,
              since <- relySince, floor <- promised

ImplementsProtectedStore == Abstract!ASpec

-----------------------------------------------------------------------------
(* What the documents say and the code does not do (README, Known limits). *)

\* SPECS 6.3 and the comment on Peer::sweep_warnings: a holder back after
\* the window "is told what went".  The plan is made over the inventory,
\* which no longer has what went.
ReturningHolderIsToldWhatWent ==
  \A h \in Holder, a \in Addr :
    a \in leases[h].set /\ a \notin blobs => a \in SweepWarnings(h)

\* SPECS 6.4: "The peer enforces max_leased_bytes per holder_pk".
QuotaIsEnforced ==
  \A h \in Holder : LeasedBytes(leases[h].set) <= MaxLeasedBytes
=============================================================================
