------------------------------ MODULE Gateway ------------------------------
(***************************************************************************)
(* The localhost gateway: the S3 and WebDAV faces of a bucket              *)
(* (nas-gateway, LocalBuckets of nas-cli/src/objectcmd.rs), the ranged     *)
(* read of nas-store/src/object.rs and the sealed chunk cache of           *)
(* nas-store/src/cache.rs, with the command line writing the same bucket.  *)
(*                                                                         *)
(* A gateway serves one connection at a time, so it is one process with    *)
(* one request; several gateways (a unix socket and a TCP port) share the  *)
(* cache directory.  The bucket is the working view of one device: what    *)
(* state/HEAD names, and over it the numbered deltas of state/outbox.  A   *)
(* write reads the view in one step, takes the next free number in another *)
(* and writes the file of that number in a third, whatever is there by     *)
(* then.  A sync folds the outbox into HEAD between the steps of others:   *)
(* its own steps, and a file cut off halfway, are those of Outbox.         *)
(*                                                                         *)
(* The view reads HEAD and then the directory; here that is one step, so   *)
(* a sync that folds a delta away between the two reads, and hides it from *)
(* that one view, is left out.                                             *)
(***************************************************************************)
EXTENDS WebDav, FiniteSetsExt

CONSTANTS Tcp, Unix,     \* gateways by transport
          Cli,           \* the command line
          Keys, Objects, \* keys, and objects as sequences of chunk addresses
          ChunkLen,      \* plaintext length of each chunk
          Requests,      \* requests clients send
          Acls,          \* access lists: NoAcl or the device's rights
          NoAcl,         \* model value: nothing granted, the owner proceeds
          Cap,           \* chunks a cache keeps
          Huge,          \* u64::MAX, the end of a read with no range
          MaxReqs, MaxCmds, MaxBoots, MaxFiles, \* bounds
          Unset,         \* model value: no key, no range header, no range
          Gone           \* model value: tombstone or absent

Gws == Tcp \cup Unix
Actors == Gws \cup {Cli}
Chunks == DOMAIN ChunkLen
Seqs == 1..MaxFiles
Ranges == [kind : {"bad", "suffix", "open", "closed"}, a : Nat, b : Nat]

ASSUME GatewayAssumption ==
    /\ Tcp \cap Unix = {} /\ Cli \notin Gws /\ IsFiniteSet(Gws)
    /\ ChunkLen \in [Chunks -> Nat \ {0}] /\ Cap \in Nat /\ Huge \in Nat /\ MaxFiles \in Nat
    /\ Objects \subseteq Seq(Chunks) /\ Gone \notin Objects
    /\ Unset \notin Keys /\ Unset \notin Ranges
    /\ \A r \in Requests : r.key \in Keys \cup {Unset} /\ r.range \in Ranges \cup {Unset}
    /\ \A rights \in SUBSET {"read", "append", "write"} : NoAcl # rights

VARIABLES acl,     \* the device's access list
          published, \* what state/HEAD names: key -> [lamport, object]
          outbox,  \* <number>.nasb: [key, entry], or Gone where there is no file
          op,      \* what every actor is doing
          during,  \* objects the requested key held while each request ran
          files,   \* cache directory: chunk -> boot whose key sealed it, 0 none
          order,   \* each gateway's LRU queue
          boot,    \* each gateway's boot, 0 when down
          boots, reqs, cmds

gwVars == <<acl, published, outbox, op, during, files, order, boot, boots, reqs, cmds>>
store == <<published, outbox>>
disk == <<files, order, boot, boots>>

AtRest == [at |-> "idle"]

GwInit ==
    /\ acl \in Acls
    /\ published = [k \in Keys |-> [lamport |-> 0, object |-> Gone]]
    /\ outbox = [n \in Seqs |-> Gone]
    /\ op = [a \in Actors |-> AtRest]
    /\ during = [g \in Gws |-> {}]
    /\ files = [c \in Chunks |-> 0]
    /\ order = [g \in Gws |-> <<>>]
    /\ boot = [g \in Gws |-> 0]
    /\ boots = 0 /\ reqs = 0 /\ cmds = 0

\* ---- the working view ----

\* Mutant: the later of two equal clocks wins.
OverridesEqual(new, have) == new.lamport >= have.lamport

\* Per-key last writer wins; one device, so an equal clock keeps what is there.
Overrides(new, have) == new.lamport > have.lamport

FilesOf(k) == {n \in Seqs : outbox[n] # Gone /\ outbox[n].key = k}

\* What folding HEAD and the deltas in the order of their numbers leaves of a
\* key: the one entry that overrode all before it and that none after it did.
IsLast(k, n) ==
    /\ Overrides(outbox[n].entry, published[k])
    /\ \A i \in FilesOf(k) :
          /\ i < n => Overrides(outbox[n].entry, outbox[i].entry)
          /\ i > n => ~Overrides(outbox[i].entry, outbox[n].entry)
EntryOf(k) ==
    IF \E n \in FilesOf(k) : IsLast(k, n)
    THEN outbox[CHOOSE n \in FilesOf(k) : IsLast(k, n)].entry
    ELSE published[k]
bucket == [k \in Keys |-> EntryOf(k)]

Live(k) == bucket[k].object
LiveKeys == {k \in Keys : Live(k) # Gone}

\* ---- the cache ----

\* ChunkCache::open: a fresh key; what does not open under it is removed.
Sweep(fs, b) == [c \in Chunks |-> IF fs[c] = b THEN b ELSE 0]

Open(g) ==
    /\ boot[g] = 0 /\ boots < MaxBoots
    /\ boots' = boots + 1
    /\ boot' = [boot EXCEPT ![g] = boots + 1]
    /\ files' = Sweep(files, boots + 1)
    /\ order' = [order EXCEPT ![g] = <<>>]
    /\ UNCHANGED <<acl, store, op, during, reqs, cmds>>

Kill(g) ==
    /\ boot[g] # 0
    /\ boot' = [boot EXCEPT ![g] = 0]
    /\ op' = [op EXCEPT ![g] = AtRest]
    /\ during' = [during EXCEPT ![g] = {}]
    /\ UNCHANGED <<acl, store, files, order, boots, reqs, cmds>>

\* VecDeque::retain of what is not c, and c at the end.
Retain(q, c) ==
    LET Kept[i \in 0..Len(q)] ==
          IF i = 0 THEN <<>> ELSE IF q[i] = c THEN Kept[i - 1] ELSE Append(Kept[i - 1], q[i])
    IN  Kept[Len(q)]
Touch(q, c) == Append(Retain(q, c), c)

\* put: at the end of the queue; over the cap, the front and its file go.
CachePut(g, c) ==
    LET q == Touch(order[g], c)
        over == IF Len(q) > Cap THEN Len(q) - Cap ELSE 0
        out == {q[i] : i \in 1..over}
    IN  /\ files' = [x \in Chunks |-> IF x \in out THEN 0 ELSE IF x = c THEN boot[g] ELSE files[x]]
        /\ order' = [order EXCEPT ![g] = SubSeq(q, over + 1, Len(q))]

\* ---- ranges ----

\* What the first n chunks of an object take.
Upto(m, n) ==
    LET Sum[i \in 0..Len(m)] == IF i = 0 THEN 0 ELSE Sum[i - 1] + ChunkLen[m[i]]
    IN  Sum[n]
Size(m) == Upto(m, Len(m))
Whole == <<0, Huge>>

\* No object is as long as the end that stands for `to its end'.
ASSUME SizeAssumption == \A m \in Objects : Size(m) <= Huge

Lesser(x, y) == IF x < y THEN x ELSE y

\* Mutant: the end of a range is taken for an end that is not included.
ParseByteRangeInclusive(r, total) ==
    IF total = 0 \/ r.kind = "bad" THEN Unset
    ELSE IF r.kind = "suffix"
         THEN IF r.a = 0 THEN Unset ELSE <<total - Lesser(r.a, total), total>>
    ELSE IF r.a >= total \/ (r.kind = "closed" /\ r.b < r.a) THEN Unset
    ELSE <<r.a, IF r.kind = "open" THEN total ELSE Lesser(r.b, total)>>
\* parse_byte_range: start and exclusive end, or Unset.
ParseByteRange(r, total) ==
    IF total = 0 \/ r.kind = "bad" THEN Unset
    ELSE IF r.kind = "suffix"
         THEN IF r.a = 0 THEN Unset ELSE <<total - Lesser(r.a, total), total>>
    ELSE IF r.a >= total \/ (r.kind = "closed" /\ r.b < r.a) THEN Unset
    ELSE <<r.a, IF r.kind = "open" THEN total ELSE Lesser(r.b + 1, total)>>

\* get_range clamps to the object it loads, not to the one head measured.
Clamp(rng, size) ==
    LET s == Lesser(rng[1], size)
        e == Lesser(rng[2], size)
    IN  <<s, IF e < s THEN s ELSE e>>

Offset(m, i) == Upto(m, i - 1)
Overlaps(m, i, rng) == Offset(m, i) + ChunkLen[m[i]] > rng[1] /\ Offset(m, i) < rng[2]

\* read_object_range: the chunks to open, and what of each is copied.
PlanOf(m, rng) ==
    IF rng[1] >= rng[2] THEN <<>> ELSE
    LET part(i) == [chunk |-> m[i],
                    from |-> IF rng[1] > Offset(m, i) THEN rng[1] - Offset(m, i) ELSE 0,
                    to |-> Lesser(rng[2] - Offset(m, i), ChunkLen[m[i]])]
        Plan[i \in 0..Len(m)] ==
          IF i = 0 THEN <<>>
          ELSE IF Overlaps(m, i, rng) THEN Append(Plan[i - 1], part(i)) ELSE Plan[i - 1]
    IN  Plan[Len(m)]

\* The bytes of a chunk, each named by where it is.
Slice(p) == [n \in 1..(IF p.from < p.to THEN p.to - p.from ELSE 0) |-> <<p.chunk, p.from + n - 1>>]

\* ---- a request ----

Dav(r) == r.method \in {"OPTIONS", "PROPFIND"} \/ r.auth \in {"basic", "badbasic"}

\* handle_stream: the status of a refusal, 0 when let through.
Refusal(g, r) ==
    IF r.large THEN 413
    ELSE IF g \in Unix THEN 0
    ELSE IF Dav(r) THEN IF r.auth = "basic" THEN 0 ELSE 401
    ELSE IF r.auth = "sigv4" THEN 0 ELSE 403

\* dispatch of the two faces: the first step of the handler, or the status.
Step(name) == [at |-> name, status |-> 0]
Status(code) == [at |-> "reply", status |-> code]
ReadHandler(r) ==
    CASE r.method = "GET" /\ r.key # Unset -> Step(IF r.range = Unset THEN "load" ELSE "head")
      [] r.method = "HEAD" -> Step(IF r.key = Unset THEN "list" ELSE "size")
      [] OTHER -> Status(405)
S3Handler(r) ==
    CASE r.method = "GET" /\ r.key = Unset -> Step("list")
      [] r.method = "PUT" /\ r.key # Unset -> Step("put")
      [] r.method = "DELETE" /\ r.key # Unset -> Step("delete")
      [] OTHER -> ReadHandler(r)
DavHandler(r) ==
    CASE r.method = "OPTIONS" -> Status(200)
      [] r.method = "PROPFIND" -> Step("propfind")
      [] OTHER -> ReadHandler(r)
Handler(r) == IF Dav(r) THEN DavHandler(r) ELSE S3Handler(r)

Fresh(r) == [at |-> "reply", req |-> r, status |-> 0, out |-> <<>>, fetched |-> {},
             rng |-> Whole, total |-> 0, left |-> <<>>]

Accept(g) ==
    /\ boot[g] # 0 /\ op[g] = AtRest /\ reqs < MaxReqs
    /\ reqs' = reqs + 1
    /\ \E r \in Requests :
          LET next == IF Refusal(g, r) # 0 THEN Status(Refusal(g, r)) ELSE Handler(r)
          IN  /\ op' = [op EXCEPT ![g] = [Fresh(r) EXCEPT !.at = next.at, !.status = next.status]]
              /\ during' = [during EXCEPT ![g] = IF r.key = Unset THEN {} ELSE {Live(r.key)}]
    /\ UNCHANGED <<acl, store, files, order, boot, boots, cmds>>

Answer(g) ==
    /\ op[g].at = "reply"
    /\ op' = [op EXCEPT ![g] = AtRest]
    /\ during' = [during EXCEPT ![g] = {}]
    /\ UNCHANGED <<acl, store, files, order, boot, boots, reqs, cmds>>

At(g, step) == g \in Gws /\ op[g].at = step
Respond(g, status) == op' = [op EXCEPT ![g].at = "reply", ![g].status = status]
Quiet == UNCHANGED <<acl, store, during, files, order, boot, boots, reqs, cmds>>

\* head of an object, and the listing of a bucket.
SizeOf(g) ==
    /\ At(g, "size")
    /\ Respond(g, IF Live(op[g].req.key) = Gone THEN 404 ELSE 200)
    /\ Quiet

List(g) == At(g, "list") /\ Respond(g, 200) /\ Quiet

PropfindStep(g) ==
    /\ At(g, "propfind")
    /\ Respond(g, IF op[g].req.key = Unset \/ Exists(LiveKeys, op[g].req.key) THEN 207 ELSE 404)
    /\ Quiet

\* write_object_get with a Range header asks head first ...
Measure(g) ==
    /\ At(g, "head")
    /\ LET m == Live(op[g].req.key)
           rng == ParseByteRange(op[g].req.range, Size(m))
       IN  IF m = Gone THEN Respond(g, 404)
           ELSE IF rng = Unset THEN Respond(g, 416)
           ELSE op' = [op EXCEPT ![g].at = "load", ![g].rng = rng, ![g].total = Size(m)]
    /\ Quiet

\* ... and get and get_range load the bucket (again), then read by chunks.
Load(g) ==
    /\ At(g, "load")
    /\ LET m == Live(op[g].req.key)
           rng == Clamp(op[g].rng, Size(m))
           status == IF op[g].req.range = Unset THEN 200 ELSE 206
       IN  IF m = Gone THEN Respond(g, 404)
           ELSE op' = [op EXCEPT ![g].at = IF PlanOf(m, rng) = <<>> THEN "reply" ELSE "read",
                                 ![g].left = PlanOf(m, rng), ![g].status = status]
    /\ Quiet

\* open_chunk_plain: from the cache when it opens under this boot's key, else
\* from the store, checked, and into the cache.
ReadChunk(g) ==
    /\ At(g, "read")
    /\ LET p == Head(op[g].left)
           rest == Tail(op[g].left)
           hit == files[p.chunk] = boot[g]
       IN  /\ op' = [op EXCEPT ![g].at = IF rest = <<>> THEN "reply" ELSE "read",
                               ![g].left = rest, ![g].out = @ \o Slice(p),
                               ![g].fetched = IF hit THEN @ ELSE @ \cup {p.chunk}]
           /\ IF hit THEN /\ order' = [order EXCEPT ![g] = Touch(@, p.chunk)]
                          /\ UNCHANGED files
              ELSE CachePut(g, p.chunk)
    /\ UNCHANGED <<acl, store, during, boot, boots, reqs, cmds>>

\* ---- writes, of the S3 face and of the command line ----

\* check_right: creating needs append or write, the rest needs write.
MayCreate == acl = NoAcl \/ acl \cap {"append", "write"} # {}
MayWrite == acl = NoAcl \/ "write" \in acl

\* What put and rm leave to be enqueued: the clock is that of the view loaded.
Pending(k, m) == [at |-> "enqueue", key |-> k,
                  entry |-> [lamport |-> bucket[k].lamport + 1, object |-> m]]

\* put: load the view, check the right it calls for, then write.
PutNext(k, m, denied) ==
    IF (Live(k) # Gone /\ MayWrite) \/ (Live(k) = Gone /\ MayCreate) THEN Pending(k, m) ELSE denied

\* delete: the right first, then the view.
DeleteNext(k, denied, missing) ==
    IF ~MayWrite THEN denied ELSE IF Live(k) = Gone THEN missing ELSE Pending(k, Gone)

PutStep(g) ==
    /\ At(g, "put")
    /\ \E m \in Objects :
          op' = [op EXCEPT ![g] = PutNext(@.req.key, m, [@ EXCEPT !.at = "reply", !.status = 403])]
    /\ Quiet

DeleteStep(g) ==
    /\ At(g, "delete")
    /\ op' = [op EXCEPT ![g] = DeleteNext(@.req.key, [@ EXCEPT !.at = "reply", !.status = 403],
                                                     [@ EXCEPT !.at = "reply", !.status = 404])]
    /\ Quiet

\* nas put and nas rm.
CliStart ==
    /\ op[Cli] = AtRest /\ cmds < MaxCmds
    /\ cmds' = cmds + 1
    /\ \E k \in Keys :
          \/ \E m \in Objects : op' = [op EXCEPT ![Cli] = PutNext(k, m, AtRest)]
          \/ op' = [op EXCEPT ![Cli] = DeleteNext(k, AtRest, AtRest)]
    /\ UNCHANGED <<acl, store, during, files, order, boot, boots, reqs>>

\* A request for a key, which a write is no longer.
Asking(o) == o.at \notin {"idle", "enqueue", "write"}

\* enqueue: one past the highest number in the directory ...
TakeSeq(a) ==
    /\ op[a].at = "enqueue"
    /\ \E n \in Seqs :
          /\ \A i \in Seqs : outbox[i] # Gone => i < n
          /\ \A i \in Seqs : i = n - 1 => outbox[i] # Gone
          /\ op' = [op EXCEPT ![a] = [at |-> "write", key |-> @.key, entry |-> @.entry, seq |-> n]]
    /\ Quiet

\* ... and that file is written, over another process's delta if it has one.
WriteFile(a) ==
    /\ op[a].at = "write"
    /\ outbox' = [outbox EXCEPT ![op[a].seq] = [key |-> op[a].key, entry |-> op[a].entry]]
    /\ published' = published
    /\ op' = [op EXCEPT ![a] = AtRest]
    /\ during' = [g \in Gws |-> IF Asking(op[g]) /\ op[g].req.key # Unset
                                THEN during[g] \cup {Live(op[g].req.key)'} ELSE during[g]]
    /\ UNCHANGED <<acl, files, order, boot, boots, reqs, cmds>>

\* replay_into_head, by nas peer sync.
Replay ==
    /\ \E n \in Seqs : outbox[n] # Gone
    /\ published' = bucket
    /\ outbox' = [n \in Seqs |-> Gone]
    /\ UNCHANGED <<acl, op, during, files, order, boot, boots, reqs, cmds>>

GwNext ==
    \/ \E g \in Gws :
          \/ Open(g) \/ Kill(g) \/ Accept(g) \/ Answer(g)
          \/ SizeOf(g) \/ List(g) \/ PropfindStep(g)
          \/ Measure(g) \/ Load(g) \/ ReadChunk(g)
          \/ PutStep(g) \/ DeleteStep(g)
    \/ CliStart
    \/ \E a \in Actors : TakeSeq(a) \/ WriteFile(a)
    \/ Replay

GwSpec == GwInit /\ [][GwNext]_gwVars

\* ---- Properties ----

\* The bytes of an object: those of its chunks, one after the other.
BytesOf(m) ==
    LET Bytes[i \in 0..Len(m)] ==
          IF i = 0 THEN <<>>
          ELSE Bytes[i - 1] \o [n \in 1..ChunkLen[m[i]] |-> <<m[i], n - 1>>]
    IN  Bytes[Len(m)]

\* What a range asks of an object `total' long: positions from 0.
Wanted(r, total, i) ==
    CASE r = Unset -> TRUE
      [] r # Unset -> CASE r.kind = "suffix" -> i + r.a >= total /\ i < total
                       [] r.kind = "open"   -> r.a <= i /\ i < total
                       [] r.kind = "closed" -> r.a <= i /\ i <= r.b /\ i < total

\* A body is the bytes asked for, all of them and in order.
Answers(out, m, r, total) ==
    LET b == BytesOf(m)
    IN  \E s \in 0..Len(b) :
          /\ {i \in 1..Len(b) : Wanted(r, total, i - 1)} = (s + 1)..(s + Len(out))
          /\ \A n \in 1..Len(out) : out[n] = b[s + n]

\* A body is a run of an object's bytes.
IsPart(out, m) ==
    \E s \in 0..Size(m) : s + Len(out) <= Size(m) /\ \A n \in 1..Len(out) : out[n] = BytesOf(m)[s + n]

Replying(g) == op[g].at = "reply"
OneLength(objects) == \A x, y \in objects : Size(x) = Size(y)

\* A read is of one version: the body of a 200 or a 206 is a run of the bytes of
\* an object the key held at one moment of the request, and just the bytes asked
\* for of it, whatever was put, deleted, cached, evicted or swept meanwhile; and
\* 404 is said only if the key was at some moment not there.  A range is worked
\* out on the length head saw, so it is exact where the versions the key held
\* during the request were of one length.
ReadsOneVersion ==
    \A g \in Gws : Replying(g) /\ op[g].req.method = "GET" /\ op[g].req.key # Unset =>
        LET o == op[g]
            held == during[g] \ {Gone}
        IN  /\ o.status \in {200, 206} =>
                  \E m \in held :
                     /\ IsPart(o.out, m)
                     /\ o.req.range = Unset \/ OneLength(held) =>
                           Answers(o.out, m, o.req.range, Size(m))
            /\ o.status = 404 => Gone \in during[g]

\* The same of every ranged read, which the code does not give: a range counted
\* from the end of one version is served from another one of another length.
\* Kept for the README's known limits.
RangesAreOfOneVersion ==
    \A g \in Gws : Replying(g) /\ op[g].req.method = "GET" /\ op[g].status = 206 =>
        \E m \in during[g] \ {Gone} : Answers(op[g].out, m, op[g].req.range, Size(m))

\* A ranged read costs the range: a chunk fetched from the store holds at
\* least one byte of the answer.
FetchesOnlyTheRange ==
    \A g \in Gws : Replying(g) =>
        op[g].fetched \subseteq {op[g].out[i][1] : i \in DOMAIN op[g].out}

\* The cache directory is bounded, across gateways that share it, kills and
\* restarts: at most Cap files for each gateway.
CacheIsBounded ==
    Cardinality({c \in Chunks : files[c] # 0}) <= Cap * Cardinality(Gws)

\* A read is exact and costs what it asks for: one version, no chunk outside the
\* range, and a cache that stays within its bound (read_object_range, cache).
ReadsAreExact == ReadsOneVersion /\ FetchesOnlyTheRange /\ CacheIsBounded

\* A write of a number that is not above all the files there are: two processes
\* took one number, or a sync emptied the outbox between the two steps.
Reuses ==
    /\ outbox' # outbox
    /\ \E a \in Actors : /\ op[a].at = "write" /\ op'[a] = AtRest
                         /\ \E n \in Seqs : outbox[n] # Gone /\ n >= op[a].seq

\* With append and no write, what a key holds stays: no put or delete, of the
\* gateways or of the command line and however they interleave with each other
\* and with syncs, changes it, except by writing over a number in use.
AppendOnlyKeeps ==
    [][acl = {"append"} /\ ~Reuses => \A k \in LiveKeys : bucket'[k] = bucket[k]]_gwVars

\* The same without the exception, which a number taken before the file is
\* written does not give.  Kept for the README's known limits.
AppendOnlyAlwaysKeeps ==
    [][acl = {"append"} => \A k \in LiveKeys : bucket'[k] = bucket[k]]_gwVars

\* The mount is read-only and TCP is signed: a gateway only prepares a write
\* for a request that no Basic login or WebDAV verb made, and on TCP only for
\* one with a signature.
WritesAreSigned ==
    [][\A g \in Gws : op[g].at # "enqueue" /\ op'[g].at = "enqueue" =>
         /\ op[g].req.auth \notin {"basic", "badbasic"}
         /\ g \in Tcp => op[g].req.auth = "sigv4"]_gwVars

\* Whatever faces, verbs and processes a write goes through, it is one the
\* access list and the listener's authentication allow (dispatch, require).
WritesAreAllowed == AppendOnlyKeeps /\ WritesAreSigned
=============================================================================
