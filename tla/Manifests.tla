----------------------------- MODULE Manifests -----------------------------
(***************************************************************************)
(* The stored tables of nas-tools as bytes: object manifests, bucket and   *)
(* directory manifests, the root manifest, the git object index,           *)
(* document logs (nas-store) and the access list (nas-peer/src/acl.rs).    *)
(***************************************************************************)
EXTENDS Fields

U16 == 2
OidLen == 3            \* 20 in the code
Version == 1
Magic == [Manifest |-> <<77>>, Bucket |-> <<66>>, Dir |-> <<68>>, Git |-> <<71>>, Acl |-> <<65>>,
          Doc |-> <<79>>]

TheOnly(S) == CHOOSE x \in S : TRUE
SumOf(s) == LET S[i \in 0..Len(s)] == IF i = 0 THEN 0 ELSE S[i-1] + s[i] IN S[Len(s)]

-----------------------------------------------------------------------------
\* An object: how it is sealed and padded, its size, its chunks.
ChunkRow == 3 * Wide + U32
EncodeChunk(c) == c.addr \o c.ck \o c.pt \o LE(c.len, U32)
EncodeManifest(m) ==
    {<<Magic.Manifest, LE(Version, U16), <<m.scheme>>, <<m.padding>>, <<m.kind>>, m.name,
       LE(m.size, U64), FlattenSeq([i \in DOMAIN m.chunks |-> EncodeChunk(m.chunks[i])]), m.meta>>}

ChunkBytes(m) == SumOf([i \in DOMAIN m.chunks |-> m.chunks[i].len])
Validate(m) == ChunkBytes(m) = m.size

DecodeChunk(b) ==
    [addr |-> SubSeq(b, 1, Wide), ck |-> SubSeq(b, Wide + 1, 2 * Wide),
     pt |-> SubSeq(b, 2 * Wide + 1, 3 * Wide), len |-> FromLE(SubSeq(b, 3 * Wide + 1, ChunkRow))]
Rows(b) == [i \in 1..Len(b) \div ChunkRow |-> DecodeChunk(SubSeq(b, (i-1) * ChunkRow + 1, i * ChunkRow))]
ChunkTable(b) == IF Len(b) % ChunkRow = 0 THEN {Rows(b)} ELSE {}
DecodeManifest(f) ==
    IF /\ Len(f) = 9 /\ f[1] = Magic.Manifest /\ f[2] = LE(Version, U16)
       /\ f[3] \in {<<0>>, <<1>>, <<2>>} /\ f[4] \in {<<0>>, <<1>>, <<2>>} /\ f[5] \in {<<0>>, <<1>>}
       /\ Len(f[7]) = U64
    THEN {m \in {[scheme |-> f[3][1], padding |-> f[4][1], kind |-> f[5][1], name |-> f[6],
                  size |-> FromLE(f[7]), meta |-> f[9], chunks |-> c] : c \in ChunkTable(f[8])} :
            Validate(m)}
    ELSE {}

\* An object inside a larger table is its encoding as one field.
ManifestField(m) == EncodeFields(TheOnly(EncodeManifest(m)))
FieldManifest(b) == UNION {DecodeManifest(f) : f \in DecodeFields(b)}

-----------------------------------------------------------------------------
(***************************************************************************)
(* Tables of entries.  Entries are written in the order of their names and *)
(* read only in that order; `Groups' cuts what follows the head into       *)
(* entries of n fields.                                                    *)
(***************************************************************************)
Whole(f, head, n) == Len(f) >= head /\ (Len(f) - head) % n = 0
Groups(f, head, n) ==
    [i \in 1..(Len(f) - head) \div n |-> SubSeq(f, head + (i-1) * n + 1, head + i * n)]
Names(groups) == [i \in DOMAIN groups |-> groups[i][1]]
\* Every entry read: {} when one of them is refused.
ReadAll(groups, Read(_)) ==
    LET vals == [i \in DOMAIN groups |-> Read(groups[i])]
    IN  IF \E i \in DOMAIN vals : vals[i] = {} THEN {}
        ELSE {[k \in ToSet(Names(groups)) |->
                 TheOnly(vals[CHOOSE i \in DOMAIN groups : groups[i][1] = k])]}
WriteAll(table, Write(_, _)) ==
    LET keys == InOrder(DOMAIN table)
    IN  FlattenSeq([i \in DOMAIN keys |-> Write(keys[i], table[keys[i]])])
InTheirOrder(groups) == Ascending(Names(groups))
InAnyOrder(groups) == Cardinality(ToSet(Names(groups))) = Len(groups)

\* A bucket: per key a version, its writer, and an object or a tombstone.
SafeKey(k) == k # <<>> /\ 0 \notin ToSet(k)
BucketEntry(k, e) ==
    <<k, LE(e.lamport, U64), e.writer, <<IF e.object = {} THEN 1 ELSE 0>>,
      IF e.object = {} THEN <<>> ELSE ManifestField(TheOnly(e.object))>>
ReadBucketEntry(g) ==
    IF ~(SafeKey(g[1]) /\ Len(g[2]) = U64 /\ Len(g[3]) = Wide) THEN {}
    ELSE LET e(objects) == [lamport |-> FromLE(g[2]), writer |-> g[3], object |-> objects]
         IN  CASE g[4] = <<1>> /\ g[5] = <<>> -> {e({})}
               [] g[4] = <<0>> /\ g[5] # <<>> -> {e({m}) : m \in FieldManifest(g[5])}
               [] OTHER -> {}
EncodeBucket(b) ==
    IF \E k \in DOMAIN b : ~SafeKey(k) THEN {}
    ELSE {<<Magic.Bucket, <<Version>>>> \o WriteAll(b, BucketEntry)}
DecodeBucket(f) ==
    IF /\ Whole(f, 2, 5) /\ f[1] = Magic.Bucket /\ f[2] = <<Version>>
       /\ InTheirOrder(Groups(f, 2, 5))
    THEN ReadAll(Groups(f, 2, 5), ReadBucketEntry) ELSE {}

\* A directory: per name a file, a directory with the id its keys derive from,
\* or a link.  46 is the dot, 47 and 92 the slashes.
SafeName(n) == n \notin {<<>>, <<46>>, <<46, 46>>} /\ ToSet(n) \cap {0, 47, 92} = {}
DirEntry(n, e) ==
    CASE e.kind = "file" -> <<n, <<0>>, ManifestField(TheOnly(e.object))>>
      [] e.kind = "dir" -> <<n, <<1>>, e.addr \o e.id>>
      [] e.kind = "link" -> <<n, <<2>>, e.target>>
Entry(kind) == [kind |-> kind, object |-> {}, addr |-> <<>>, id |-> <<>>, target |-> <<>>]
ReadDirEntry(g) ==
    CASE ~SafeName(g[1]) -> {}
      [] g[2] = <<0>> -> {[Entry("file") EXCEPT !.object = {m}] : m \in FieldManifest(g[3])}
      [] g[2] = <<1>> /\ Len(g[3]) > Wide ->
           {[Entry("dir") EXCEPT !.addr = SubSeq(g[3], 1, Wide), !.id = SubSeq(g[3], Wide + 1, Len(g[3]))]}
      [] g[2] = <<2>> /\ g[3] # <<>> -> {[Entry("link") EXCEPT !.target = g[3]]}
      [] OTHER -> {}
EncodeDir(d) ==
    IF \E n \in DOMAIN d : ~SafeName(n) \/ (d[n].kind = "link" /\ d[n].target = <<>>) THEN {}
    ELSE {<<(Magic.Dir)>> \o WriteAll(d, DirEntry)}
SiblingIds(d) == {n \in DOMAIN d : d[n].kind = "dir"}
DistinctIds(d) == \A m, n \in SiblingIds(d) : d[m].id = d[n].id => m = n
DecodeDir(f) ==
    IF Whole(f, 1, 3) /\ f[1] = Magic.Dir /\ InTheirOrder(Groups(f, 1, 3))
    THEN {d \in ReadAll(Groups(f, 1, 3), ReadDirEntry) : DistinctIds(d)} ELSE {}

\* The root manifest: which directory, under which generation of secrets.
EncodeRoot(r) == {<<(<<Version>>), r.tree, LE(r.generation, U32)>>}
DecodeRoot(f) ==
    IF Len(f) = 3 /\ f[1] = <<Version>> /\ Len(f[2]) = Wide /\ Len(f[3]) = U32
    THEN {[tree |-> f[2], generation |-> FromLE(f[3])]} ELSE {}

\* The git index: per object id where it is, its kind 1..4 and its size.
GitEntry(oid, e) == <<oid, e.addr, <<e.kind>>, LE(e.size, U32)>>
ReadGitEntry(g) ==
    IF Len(g[1]) = OidLen /\ Len(g[2]) = Wide /\ g[3] \in {<<1>>, <<2>>, <<3>>, <<4>>} /\ Len(g[4]) = U32
    THEN {[addr |-> g[2], kind |-> g[3][1], size |-> FromLE(g[4])]} ELSE {}
EncodeOidMap(t) == {<<Magic.Git, <<Version>>>> \o WriteAll(t, GitEntry)}
DecodeOidMap(f) ==
    IF /\ Whole(f, 2, 4) /\ f[1] = Magic.Git /\ f[2] = <<Version>>
       /\ InTheirOrder(Groups(f, 2, 4))
    THEN ReadAll(Groups(f, 2, 4), ReadGitEntry) ELSE {}

\* The access list: per subject its rights 0..6, ascending.
Rights == 0..6
ByteOrder(S) == CHOOSE s \in [1..Cardinality(S) -> S] : \A i \in 1..Len(s)-1 : s[i] < s[i+1]
AclEntry(subject, rights) == <<subject, ByteOrder(rights)>>
ReadAclEntry(g) ==
    IF /\ g[1] # <<>> /\ \A i \in DOMAIN g[1] : g[1][i] < 128
       /\ ToSet(g[2]) \subseteq Rights /\ \A i \in 1..Len(g[2])-1 : g[2][i] < g[2][i+1]
    THEN {ToSet(g[2])} ELSE {}
EncodeAcl(a) == {<<(Magic.Acl)>> \o WriteAll(a, AclEntry)}
DecodeAcl(f) ==
    IF Whole(f, 1, 2) /\ f[1] = Magic.Acl /\ InTheirOrder(Groups(f, 1, 2))
    THEN ReadAll(Groups(f, 1, 2), ReadAclEntry) ELSE {}

\* A document log: the clock, with the number of its writers in front, and the
\* operations in the order of their ids.  What is a scalar value and what is not
\* is as in the code: the surrogates are not.
DocOp(id, o) ==
    <<id[1], LE(id[2], U64), <<o.kind>>, o.ref[1], LE(o.ref[2], U64),
      IF o.kind = 1 THEN LE(o.ch, U32) ELSE <<>>>>
BelowId(p, q) == LessBytes(p[1], q[1]) \/ (p[1] = q[1] /\ p[2] < q[2])
IdsInOrder(ids) == \A i \in 1..Len(ids)-1 : BelowId(ids[i], ids[i+1])
EncodeDoc(d) ==
    LET ids == CHOOSE s \in [1..Cardinality(DOMAIN d.ops) -> DOMAIN d.ops] : IdsInOrder(s)
    IN  {<<Magic.Doc, <<Version>>, LE(Cardinality(DOMAIN d.clock), U64)>>
           \o WriteAll(d.clock, LAMBDA w, n : <<w, LE(n, U64)>>)
           \o FlattenSeq([i \in DOMAIN ids |-> DocOp(ids[i], d.ops[ids[i]])])}
IsChar(b) == Len(b) = U32 /\ FromLE(b) \notin 55296..57343
OpOk(g) ==
    /\ Len(g[1]) = Wide /\ Len(g[2]) = U64 /\ Len(g[4]) = Wide /\ Len(g[5]) = U64
    /\ (g[3] = <<1>> /\ IsChar(g[6])) \/ (g[3] = <<2>> /\ g[6] = <<>>)
OpOf(g) == [kind |-> g[3][1], ref |-> <<g[4], FromLE(g[5])>>, ch |-> IF g[3] = <<1>> THEN FromLE(g[6]) ELSE 0]
IdOf(g) == <<g[1], FromLE(g[2])>>
\* Where the operations start: the doubling wraps where overflow is not checked.
ClockEnd(f) == 3 + ((2 * FromLE(f[3])) % 256^U64)
DocTable(f, clock, ops) ==
    IF /\ \A i \in DOMAIN clock : Len(clock[i][1]) = Wide /\ Len(clock[i][2]) = U64
       /\ InAnyOrder(clock)
       /\ \A i \in DOMAIN ops : OpOk(ops[i])
    THEN {[clock |-> [w \in ToSet(Names(clock)) |->
                        FromLE((CHOOSE c \in ToSet(clock) : c[1] = w)[2])],
           ops |-> [id \in {IdOf(ops[i]) : i \in DOMAIN ops} |->
                      OpOf(CHOOSE g \in ToSet(ops) : IdOf(g) = id)]]}
    ELSE {}
DocHead(f) == Len(f) >= 3 /\ f[1] = Magic.Doc /\ f[2] = <<Version>> /\ Len(f[3]) = U64
DecodeDoc(f) ==
    IF DocHead(f) /\ Whole(f, ClockEnd(f), 6)
    THEN LET ops == Groups(f, ClockEnd(f), 6)
         IN  IF IdsInOrder([i \in DOMAIN ops |-> <<ops[i][1], FromLE(ops[i][2])>>])
             THEN DocTable(f, Groups(SubSeq(f, 1, ClockEnd(f)), 3, 2), ops) ELSE {}
    ELSE {}

-----------------------------------------------------------------------------
\* Every table is read only as it would have been written: no ragged tail, no
\* second order of entries, no unused byte, no value outside its range.
TableIsCanonical(kind, v) ==
    CASE kind = "Manifest" -> CanonicalAt(v, EncodeManifest, DecodeManifest)
      [] kind = "Bucket" -> CanonicalAt(v, EncodeBucket, DecodeBucket)
      [] kind = "Dir" -> CanonicalAt(v, EncodeDir, DecodeDir)
      [] kind = "Root" -> CanonicalAt(v, EncodeRoot, DecodeRoot)
      [] kind = "Git" -> CanonicalAt(v, EncodeOidMap, DecodeOidMap)
      [] kind = "Acl" -> CanonicalAt(v, EncodeAcl, DecodeAcl)

\* No table is taken for another: what one decoder reads, at an encoding or near
\* it, every other refuses.  A namespace in plaintext mode has nothing else to
\* tell a bucket from a directory by.
EncodingsOf(kind, v) ==
    CASE kind = "Manifest" -> EncodeManifest(v) [] kind = "Bucket" -> EncodeBucket(v)
      [] kind = "Dir" -> EncodeDir(v) [] kind = "Root" -> EncodeRoot(v)
      [] kind = "Git" -> EncodeOidMap(v) [] kind = "Acl" -> EncodeAcl(v)
Readers(f) ==
    {k \in {"Manifest", "Bucket", "Dir", "Root", "Git", "Acl", "Doc"} :
       CASE k = "Manifest" -> DecodeManifest(f) # {} [] k = "Bucket" -> DecodeBucket(f) # {}
         [] k = "Dir" -> DecodeDir(f) # {} [] k = "Root" -> DecodeRoot(f) # {}
         [] k = "Git" -> DecodeOidMap(f) # {} [] k = "Acl" -> DecodeAcl(f) # {}
         [] k = "Doc" -> DecodeDoc(f) # {}}
TableIsItself(kind, v) ==
    \A e \in EncodingsOf(kind, v) : Readers(e) = {kind} /\ \A f \in Near(e) : Readers(f) \subseteq {kind}

\* DocLog::encode and decode: a log reads back as it was written; and whatever is
\* read near that says what its bytes say, operation by operation and clock by
\* clock.  (Which order the clock is in is not checked, nor its count when the
\* doubling wraps: two spellings of one log exist.)
DocReadsBack(v) ==
    \A f \in EncodeDoc(v) :
       /\ DecodeDoc(f) = {v}
       /\ \A g \in Near(f) : \A w \in DecodeDoc(g) : \A h \in EncodeDoc(w) :
            LET tail(x) == SubSeq(x, Len(x) - 6 * Cardinality(DOMAIN w.ops) + 1, Len(x))
                clock(x) == ToSet(Groups(SubSeq(x, 1, Len(x) - 6 * Cardinality(DOMAIN w.ops)), 3, 2))
            IN  Len(g) = Len(h) /\ tail(g) = tail(h) /\ clock(g) = clock(h)
=============================================================================
