------------------------------- MODULE Outbox -------------------------------
(***************************************************************************)
(* Offline writes of one device: put and rm stage one-key deltas in        *)
(* state/outbox/, replay folds them onto state/HEAD and clears the outbox  *)
(* (crates/nas-cli/src/outbox.rs and objectcmd.rs, nas-store/src/bucket.rs,*)
(* nas-cli/src/repo.rs).                                                   *)
(*                                                                         *)
(* Each command is a process of its own (the gateway, `nas put`, `nas peer *)
(* sync`) and nothing locks the namespace, so the file operations of two   *)
(* processes interleave; each read or write of a file or of the directory  *)
(* is a step.  HEAD names a content-addressed manifest and is modelled by  *)
(* the manifest.  The writer id is the namespace's slot identity, the same *)
(* for every process, so (lamport, writer_id) orders by lamport alone.  An *)
(* entry's id tells writes apart.  ACL refusals change nothing: left out.  *)
(***************************************************************************)
EXTENDS Naturals, Sequences, FiniteSets

CONSTANTS
  Key,
  Writer,       \* processes that put and rm: the gateway, `nas put`, `nas rm`
  Syncer,       \* processes that replay: `nas peer sync`
  None,         \* no file
  Torn,         \* a file whose bytes do not decode
  MaxWrites,    \* bound: put and rm commands in a behaviour
  MaxCrashes    \* bound: processes killed in a behaviour

ASSUME BoundsAssumption == MaxWrites \in Nat /\ MaxCrashes \in Nat

\* An entry of the bucket manifest, and the one-key delta a file holds.
Entry == [lamport : Nat, id : Nat, live : BOOLEAN]
Delta == [key : Key, entry : Entry]

\* The marks are no content.
ASSUME MarksAssumption ==
  None # Torn /\ None \notin Delta /\ Torn \notin Delta /\ Torn \notin [Key -> Entry]

VARIABLES
  head,         \* the manifest state/HEAD names, or Torn
  box,          \* <n>.nasb: the delta in it, Torn, or None
  job,          \* what each process is in the middle of
  began,        \* history: key and acknowledged writes when each write began
  acked,        \* history: writes reported as done
  crashes,      \* processes killed so far
  tears         \* whether fs::write may leave a file torn (crash, disk full)

vars == <<head, box, job, began, acked, crashes, tears>>

Proc == Writer \cup Syncer

\* One file per write is as many as there can be.
Numbers == 1 .. MaxWrites

Absent == [lamport |-> 0, id |-> 0, live |-> FALSE]
Idle == [step |-> "idle"]

Init ==
  /\ head = [k \in Key |-> Absent]
  /\ box = [n \in Numbers |-> None]
  /\ job = [p \in Proc |-> Idle]
  /\ began = <<>>
  /\ acked = {}
  /\ crashes = 0
  /\ tears \in BOOLEAN

-----------------------------------------------------------------------------
(* Manifests. *)

Files == {n \in Numbers : box[n] # None}
Readable == \A n \in Numbers : box[n] # Torn

\* Mutant: the delta of the earliest file wins whatever its version.
FoldEarliest(base, files) ==
  [k \in Key |->
     LET ns == {n \in Numbers : files[n] # None /\ files[n].key = k}
     IN  IF ns = {} THEN base[k]
         ELSE files[CHOOSE n \in ns : \A m \in ns : n <= m].entry]

\* Outbox::fold with BucketManifest::merge: the highest lamport of a key wins;
\* of equal ones the base, then the file sorted first, stands.
Fold(base, files) ==
  [k \in Key |->
     LET ns == {n \in Numbers : files[n] # None /\ files[n].key = k}
         L(n) == files[n].entry.lamport
     IN  IF \E n \in ns : L(n) > base[k].lamport
         THEN files[CHOOSE n \in ns : \A m \in ns : L(m) < L(n) \/ (L(m) = L(n) /\ n <= m)].entry
         ELSE base[k]]

\* What ls, get and the gateway show.
WorkingView == Fold(head, box)

-----------------------------------------------------------------------------
(* put and rm. *)

\* The one-key delta of a put (live) or an rm, on top of what was read.
Staged(view, j) ==
  [key |-> j.key,
   entry |-> [lamport |-> view[j.key].lamport + 1, id |-> j.id, live |-> j.live]]

\* working_view, first half: the published head.
ReadHead(p, k, live) ==
  /\ p \in Writer
  /\ job[p] = Idle
  /\ head # Torn
  /\ Len(began) < MaxWrites
  /\ began' = Append(began, [key |-> k, before |-> acked])
  /\ job' = [job EXCEPT ![p] =
               [step |-> "read", key |-> k, live |-> live, base |-> head,
                id |-> Len(began) + 1]]
  /\ UNCHANGED <<head, box, acked, crashes, tears>>

\* working_view, second half: the outbox.  A file that does not decode fails
\* the command, and so does rm of a key that is not live.
ReadOutbox(p) ==
  /\ job[p].step = "read"
  /\ LET view == Fold(job[p].base, box)
         ok == Readable /\ (job[p].live \/ view[job[p].key].live)
     IN  job' = [job EXCEPT ![p] =
                   IF ok THEN [step |-> "staged", delta |-> Staged(view, job[p])]
                         ELSE Idle]
  /\ UNCHANGED <<head, box, began, acked, crashes, tears>>

\* Outbox::next_seq: one past the highest file.
NextSeq(p) ==
  /\ job[p].step = "staged"
  /\ \E n \in Numbers :
       /\ \A m \in Files : m < n
       /\ n = 1 \/ n - 1 \in Files
       /\ job' = [job EXCEPT ![p] =
                    [step |-> "numbered", delta |-> job[p].delta, n |-> n]]
  /\ UNCHANGED <<head, box, began, acked, crashes, tears>>

\* Outbox::enqueue writes the file, whatever is there, and the command
\* reports success.
WriteDelta(p) ==
  /\ job[p].step = "numbered"
  /\ box' = [box EXCEPT ![job[p].n] = job[p].delta]
  /\ acked' = acked \cup {job[p].delta.entry.id}
  /\ job' = [job EXCEPT ![p] = Idle]
  /\ UNCHANGED <<head, began, crashes, tears>>

WriteDeltaTorn(p) ==
  /\ tears
  /\ job[p].step = "numbered"
  /\ box' = [box EXCEPT ![job[p].n] = Torn]
  /\ job' = [job EXCEPT ![p] = Idle]
  /\ UNCHANGED <<head, began, acked, crashes, tears>>

-----------------------------------------------------------------------------
(* replay_into_head. *)

LoadDeltas(p) ==
  /\ p \in Syncer
  /\ job[p] = Idle
  /\ Readable
  /\ Files # {}
  /\ job' = [job EXCEPT ![p] = [step |-> "loaded", deltas |-> box]]
  /\ UNCHANGED <<head, box, began, acked, crashes, tears>>

\* Mutant: a replay that would not change HEAD has nothing left to do.
FoldUnlessSame(p) ==
  /\ job[p].step = "loaded"
  /\ job' = [job EXCEPT ![p] =
               IF head = Torn \/ Fold(head, job[p].deltas) = head THEN Idle
               ELSE [step |-> "folded", merged |-> Fold(head, job[p].deltas)]]
  /\ UNCHANGED <<head, box, began, acked, crashes, tears>>

\* load_published_head; a HEAD that is no address fails the replay.
FoldOntoHead(p) ==
  /\ job[p].step = "loaded"
  /\ job' = [job EXCEPT ![p] =
               IF head = Torn THEN Idle
               ELSE [step |-> "folded", merged |-> Fold(head, job[p].deltas)]]
  /\ UNCHANGED <<head, box, began, acked, crashes, tears>>

\* Mutant: the outbox is listed and cleared with no head saved.
SaveNothing(p) ==
  /\ job[p].step = "folded"
  /\ job' = [job EXCEPT ![p] = [step |-> "saved"]]
  /\ UNCHANGED <<head, box, began, acked, crashes, tears>>

SavePublished(p) ==
  /\ job[p].step = "folded"
  /\ head' = job[p].merged
  /\ job' = [job EXCEPT ![p] = [step |-> "saved"]]
  /\ UNCHANGED <<box, began, acked, crashes, tears>>

SavePublishedTorn(p) ==
  /\ tears
  /\ job[p].step = "folded"
  /\ head' = Torn
  /\ job' = [job EXCEPT ![p] = Idle]
  /\ UNCHANGED <<box, began, acked, crashes, tears>>

\* Outbox::clear lists the directory and removes what it listed, one by one
\* in directory order; a file already gone is an error that ends it.
ListFiles(p) ==
  /\ job[p].step = "saved"
  /\ job' = [job EXCEPT ![p] =
               IF Files = {} THEN Idle ELSE [step |-> "clearing", todo |-> Files]]
  /\ UNCHANGED <<head, box, began, acked, crashes, tears>>

RemoveFile(p) ==
  /\ job[p].step = "clearing"
  /\ \E n \in job[p].todo :
       /\ box' = [box EXCEPT ![n] = None]
       /\ job' = [job EXCEPT ![p] =
                    IF box[n] = None \/ job[p].todo = {n} THEN Idle
                    ELSE [step |-> "clearing", todo |-> job[p].todo \ {n}]]
  /\ UNCHANGED <<head, began, acked, crashes, tears>>

-----------------------------------------------------------------------------
\* A process dies between two steps; what it had only read is gone.
Crash(p) ==
  /\ job[p] # Idle
  /\ crashes < MaxCrashes
  /\ job' = [job EXCEPT ![p] = Idle]
  /\ crashes' = crashes + 1
  /\ UNCHANGED <<head, box, began, acked, tears>>

\* A command that was started goes on.
Continue(p) ==
  \/ ReadOutbox(p) \/ NextSeq(p) \/ WriteDelta(p) \/ WriteDeltaTorn(p)
  \/ FoldOntoHead(p) \/ SavePublished(p) \/ SavePublishedTorn(p)
  \/ ListFiles(p) \/ RemoveFile(p)

Next ==
  \E p \in Proc :
    \/ \E k \in Key, live \in BOOLEAN : ReadHead(p, k, live)
    \/ LoadDeltas(p)
    \/ Continue(p)
    \/ Crash(p)

Spec == Init /\ [][Next]_vars

\* A running command is scheduled, and the operator reconnects again.
Fairness == \A p \in Proc : WF_vars(Continue(p)) /\ WF_vars(LoadDeltas(p))
FairSpec == Spec /\ Fairness

-----------------------------------------------------------------------------
(* Properties. *)

\* e, at write i's key, is write i or one that did not finish before i began.
Honours(e, i) == e.id # 0 /\ e.id \notin began[i].before

\* "Local listing reads the published HEAD merged with those deltas"
\* (outbox.rs): if no write tears a file, whatever replays, crashes and other
\* commands do, the working view can be read and shows each acknowledged write or a later one.
AckedWriteIsVisible ==
  ~tears =>
    \A i \in acked : /\ head # Torn
                     /\ Readable
                     /\ Honours(WorkingView[began[i].key], i)

\* A torn delta hides the outbox but costs nothing that was acknowledged: as
\* long as HEAD can be read, HEAD and the files that decode still hold each
\* acknowledged write or a later one.
AckedWriteIsStored ==
  head # Torn =>
    LET decodable == [n \in Numbers |-> IF box[n] = Torn THEN None ELSE box[n]]
    IN  \A i \in acked : Honours(Fold(head, decodable)[began[i].key], i)

\* No acknowledged put or rm is lost: not to a replay, whole or cut off
\* (replay_into_head), not to a crash, not to a later command, not to a torn file.
AckedWriteIsKept == AckedWriteIsVisible /\ AckedWriteIsStored

\* Replay on reconnect: every acknowledged write, or a later one, reaches the
\* published head, and the outbox is emptied in the end, also when a replay
\* died after saving HEAD and before clearing (replay_into_head, clear).
OutboxDrains ==
  /\ (Files # {} /\ ~tears) ~> Files = {}
  /\ \A i \in Numbers :
       (i \in acked /\ ~tears) ~> (i \in acked /\ head # Torn /\ Honours(head[began[i].key], i))

\* What is shown changes only by a put or rm, in one step and on one key:
\* reads, replays and crashes in the middle of a replay are invisible.
\* A file that does not decode shows nothing: those behaviours are left out.
View == INSTANCE KeyMap WITH map <- IF tears THEN [k \in Key |-> Absent] ELSE WorkingView
ImplementsKeyMap == View!MSpec
=============================================================================
