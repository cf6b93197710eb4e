----------------------------- MODULE TreeStore -----------------------------
(***************************************************************************)
(* The object store: a directory is written as chunks and manifests        *)
(* (tree.rs, object.rs, manifest.rs over blobs.rs) and restored from them, *)
(* while blob files go bad, writes stop half way, the convergence secret   *)
(* is rotated, and one destination sees several revisions restored.        *)
(*                                                                         *)
(* Encryption is ideal: a chunk's address stands for its content and the   *)
(* generation it was sealed under; a sealed manifest has a fresh address   *)
(* every time and opens only under its directory's key.  Trees are two     *)
(* levels deep.  Names are numbered as the directory sorts them.           *)
(***************************************************************************)
EXTENDS Naturals, Sequences

CONSTANTS
  N,          \* names in the root directory: 1..N
  SubName,    \* names in a subdirectory
  Content,    \* files, each the sequence of chunks the chunker cuts it into
  Sealed,     \* FALSE in transit-only: plaintext blobs, addressed by content
  MaxGen,     \* bound: rotations
  MaxOps      \* bound: commands and accidents

VARIABLES
  src,        \* the directory to store
  dst,        \* the directory restored into
  chunks,     \* chunk blobs: [ok, bad] sets of addresses
  roots,      \* root manifests, by address: [dm, ok]
  subs,       \* manifests of subdirectories, by address: [key, dm, ok]
  gen,        \* the generation new chunks are sealed under
  saved,      \* what write_dir returned: [addr, prev, tree, gen]
  rest,       \* the restore under way, or None
  escaped,    \* something was written through a link
  ops

treeVars == <<src, dst, chunks, roots, subs, gen, saved, rest, escaped, ops>>

\* The chunks files are cut into.
Chunk == UNION {{f[i] : i \in DOMAIN f} : f \in Content}

ASSUME TreeAssumption ==
  /\ N \in Nat \ {0} /\ Sealed \in BOOLEAN /\ MaxGen \in Nat
  /\ Content \subseteq Seq(Chunk)

Name == 1..N
None == [next |-> 0]

\* Leaves and nodes of a directory on disk.  A link points out of the tree.
Leaf(k, f) == [kind |-> k, file |-> f]
Gone == Leaf("none", <<>>)
Leaves == {Gone, Leaf("link", <<>>)} \cup {Leaf("file", f) : f \in Content}
NoSub == [s \in SubName |-> Gone]
Node(l, sub) == [kind |-> l.kind, file |-> l.file, sub |-> sub]
Nodes ==
  {Node(l, NoSub) : l \in Leaves} \cup {Node(Leaf("dir", <<>>), u) : u \in [SubName -> Leaves]}
Empty == [n \in Name |-> Node(Gone, NoSub)]

TreeInit ==
  /\ src = Empty /\ dst = Empty
  /\ chunks = [ok |-> {}, bad |-> {}]
  /\ roots = <<>> /\ subs = <<>>
  /\ gen = 0 /\ saved = <<>> /\ rest = None /\ escaped = FALSE /\ ops = 0

Command == ops < MaxOps /\ ops' = ops + 1

----------------------------------------------------------------------------
(* Writing: TreeStore::write_dir_incremental *)

\* ObjectWriter::write: a reference per chunk, addressed under the generation.
Refs(file) == [i \in DOMAIN file |-> [c |-> file[i], gen |-> gen]]
RangeOf(s) == {s[i] : i \in DOMAIN s}
ChunksOf(t, cut) ==
  UNION {RangeOf(Refs(t[n].file)) \cup UNION {RangeOf(Refs(t[n].sub[s].file)) : s \in SubName} :
           n \in 1..cut}

\* Mutant: what is there already is taken as it is.
PutChunksOnce(new) == [ok |-> chunks.ok \cup (new \ chunks.bad), bad |-> chunks.bad]

\* BlobStore::put: what is there already is verified, and written again.
PutChunks(new) == [ok |-> chunks.ok \cup new, bad |-> chunks.bad \ new]

\* put_dir_manifest: a fresh nonce, or the address of the same plaintext.
PutRoot(dm) ==
  LET same == {i \in DOMAIN roots : roots[i].dm = dm} IN
    IF ~Sealed /\ same # {}
    THEN LET i == CHOOSE i \in same : TRUE IN [at |-> i, blobs |-> [roots EXCEPT ![i].ok = TRUE]]
    ELSE [at |-> Len(roots) + 1, blobs |-> Append(roots, [dm |-> dm, ok |-> TRUE])]
PutSub(bs, key, dm) ==
  LET same == {i \in DOMAIN bs : bs[i].dm = dm} IN
    IF ~Sealed /\ same # {}
    THEN LET i == CHOOSE i \in same : TRUE IN [at |-> i, blobs |-> [bs EXCEPT ![i].ok = TRUE]]
    ELSE [at |-> Len(bs) + 1, blobs |-> Append(bs, [key |-> key, dm |-> dm, ok |-> TRUE])]

\* read_dir_manifest: the blob is intact and, when sealed, opens under the key.
SubOpens(bs, at, key) == at \in DOMAIN bs /\ bs[at].ok /\ (Sealed => bs[at].key = key)

SubManifest(sub) ==
  [s \in SubName |-> [kind |-> sub[s].kind, refs |-> Refs(sub[s].file)]]

\* An old manifest that opens and says the same is kept; any other is written.
Keeps(bs, at, key, dm) == SubOpens(bs, at, key) /\ bs[at].dm = dm

\* The children of names 1..n: where their manifests are.
Children(old) ==
  LET After[n \in 0..N] ==
        IF n = 0 THEN [at |-> <<>>, blobs |-> subs]
        ELSE LET s == After[n - 1]
                 dm == SubManifest(src[n].sub)
                 was == IF old[n].kind = "dir" THEN old[n].addr ELSE 0
                 put == IF Keeps(s.blobs, was, n, dm) THEN [at |-> was, blobs |-> s.blobs]
                        ELSE PutSub(s.blobs, n, dm)
             IN  IF src[n].kind # "dir" THEN [s EXCEPT !.at = Append(@, 0)]
                 ELSE [at |-> Append(s.at, put.at), blobs |-> put.blobs]
  IN After

NoEntries == [n \in Name |-> [kind |-> "none", refs |-> <<>>, addr |-> 0]]

\* The whole write, or one that stops after the names up to cut.
WriteDirIncremental(prev, cut) ==
  /\ Command
  /\ LET opens == prev \in DOMAIN roots /\ roots[prev].ok
         old == IF opens THEN roots[prev].dm ELSE NoEntries
         kids == Children(old)
         dm == [n \in Name |-> [kind |-> src[n].kind, refs |-> Refs(src[n].file),
                                addr |-> kids[N].at[n]]]
         put == IF opens /\ old = dm THEN [at |-> prev, blobs |-> roots] ELSE PutRoot(dm)
     IN
     /\ chunks' = PutChunks(ChunksOf(src, cut))
     /\ subs' = kids[cut].blobs
     /\ IF cut < N THEN UNCHANGED <<roots, saved>>
        ELSE /\ roots' = put.blobs
             /\ saved' = Append(saved, [addr |-> put.at, prev |-> prev, tree |-> src, gen |-> gen])
  /\ UNCHANGED <<src, dst, gen, rest, escaped>>

----------------------------------------------------------------------------
(* Reading: read_dir_manifest, read_object *)

\* read_object: chunk after chunk, up to the first that does not verify.
Good(refs) ==
  LET bad == {i \in DOMAIN refs : refs[i] \notin chunks.ok} IN
    IF bad = {} THEN Len(refs) ELSE (CHOOSE i \in bad : \A j \in bad : i <= j) - 1
Plain(refs) == [i \in 1..Good(refs) |-> refs[i].c]
ReadsLeaf(e) == Leaf(e.kind, Plain(e.refs))

ReadNode(n, e) ==
  Node(ReadsLeaf(e),
       IF e.kind # "dir" THEN NoSub ELSE [s \in SubName |-> ReadsLeaf(subs[e.addr].dm[s])])
ReadTree(at) == [n \in Name |-> ReadNode(n, roots[at].dm[n])]

Whole(e) == Good(e.refs) = Len(e.refs)
Intact(at) ==
  /\ at \in DOMAIN roots /\ roots[at].ok
  /\ \A n \in Name : LET e == roots[at].dm[n] IN
       /\ Whole(e)
       /\ e.kind = "dir" => /\ SubOpens(subs, e.addr, n)
                            /\ \A s \in SubName : Whole(subs[e.addr].dm[s])

----------------------------------------------------------------------------
(* Restoring: TreeStore::read_dir_to.  What a call of the system does to a   *)
(* name is [ok, node, through].                                             *)

Did(ok, node, through) == [ok |-> ok, node |-> node, through |-> through]

\* File::create and write: a link is followed, a directory refused.
CreateFile(old, refs) ==
  CASE old.kind = "link" -> Did(Good(refs) = Len(refs), old, TRUE)
    [] old.kind = "dir" -> Did(FALSE, old, FALSE)
    [] OTHER -> Did(Good(refs) = Len(refs), Node(Leaf("file", Plain(refs)), NoSub), FALSE)

\* Mutant: a name that is taken is left alone.
MakeSymlinkQuiet(old) ==
  IF old.kind = "none" THEN Did(TRUE, Node(Leaf("link", <<>>), NoSub), FALSE) ELSE Did(TRUE, old, FALSE)

\* make_symlink: a file is replaced; anything else there is the system's error.
MakeSymlink(old) ==
  IF old.kind \in {"none", "file"} THEN Did(TRUE, Node(Leaf("link", <<>>), NoSub), FALSE)
  ELSE Did(FALSE, old, FALSE)

\* A link left by an earlier restore is removed, never written through.
Unlinked(old) == IF old.kind = "link" THEN Node(Gone, NoSub) ELSE old

RestoreLeaf(old, e) ==
  CASE e.kind = "none" -> Did(TRUE, old, FALSE)
    [] e.kind = "file" -> CreateFile(Unlinked(old), e.refs)
    [] e.kind = "link" -> MakeSymlink(Unlinked(old))

\* create_dir_all follows a link too; a file is in its way.
RestoreDir(old, n, e) ==
  LET here == Unlinked(old)
      kids == [s \in SubName |-> RestoreLeaf(Node(here.sub[s], NoSub), subs[e.addr].dm[s])]
  IN IF ~SubOpens(subs, e.addr, n) \/ here.kind = "file" THEN Did(FALSE, here, FALSE)
     ELSE Did(\A s \in SubName : kids[s].ok,
              IF here.kind = "link" THEN here
              ELSE Node(Leaf("dir", <<>>),
                        [s \in SubName |-> Leaf(kids[s].node.kind, kids[s].node.file)]),
              here.kind = "link" \/ \E s \in SubName : kids[s].through)

ReadDirTo(at) ==
  /\ Command
  /\ rest = None
  /\ at \in DOMAIN roots /\ roots[at].ok
  /\ rest' = [next |-> 1, addr |-> at, dm |-> roots[at].dm]
  /\ UNCHANGED <<src, dst, chunks, roots, subs, gen, saved, escaped>>

\* One entry; the first error ends the restore and leaves what it had done.
RestoreEntry ==
  /\ rest # None
  /\ LET n == rest.next
         e == rest.dm[n]
         r == IF e.kind = "dir" THEN RestoreDir(dst[n], n, e) ELSE RestoreLeaf(dst[n], e)
     IN /\ dst' = [dst EXCEPT ![n] = r.node]
        /\ escaped' = (escaped \/ r.through)
        /\ rest' = IF r.ok /\ n < N THEN [rest EXCEPT !.next = n + 1]
                   ELSE IF r.ok THEN [next |-> N + 1, addr |-> rest.addr] ELSE None
  /\ UNCHANGED <<src, chunks, roots, subs, gen, saved, ops>>
Done == rest.next = N + 1
Restoring == rest.next \in Name
Return == Done /\ rest' = None /\ UNCHANGED <<src, dst, chunks, roots, subs, gen, saved, escaped, ops>>

----------------------------------------------------------------------------
(* The owner and the disk *)

Edit(n, node) ==
  /\ Command
  /\ src[n] # node
  /\ src' = [src EXCEPT ![n] = node]
  /\ UNCHANGED <<dst, chunks, roots, subs, gen, saved, rest, escaped>>

\* rotate_convergence: chunks written from now on have other addresses.
Rotate ==
  /\ Command
  /\ Sealed /\ gen < MaxGen
  /\ gen' = gen + 1
  /\ UNCHANGED <<src, dst, chunks, roots, subs, saved, rest, escaped>>

DamageChunk(c) ==
  /\ Command
  /\ c \in chunks.ok
  /\ chunks' = [ok |-> chunks.ok \ {c}, bad |-> chunks.bad \cup {c}]
  /\ UNCHANGED <<src, dst, roots, subs, gen, saved, rest, escaped>>
DamageManifest ==
  /\ Command
  /\ \/ \E i \in DOMAIN roots : roots[i].ok /\ roots' = [roots EXCEPT ![i].ok = FALSE] /\ UNCHANGED subs
     \/ \E i \in DOMAIN subs : subs[i].ok /\ subs' = [subs EXCEPT ![i].ok = FALSE] /\ UNCHANGED roots
  /\ UNCHANGED <<src, dst, chunks, gen, saved, rest, escaped>>

TreeNext ==
  \/ \E n \in Name, node \in Nodes : Edit(n, node)
  \/ \E prev \in 0..Len(roots), cut \in Name : WriteDirIncremental(prev, cut)
  \/ \E at \in DOMAIN roots : ReadDirTo(at)
  \/ Restoring /\ RestoreEntry
  \/ Return
  \/ Rotate
  \/ \E c \in chunks.ok : DamageChunk(c)
  \/ DamageManifest

TreeSpec == TreeInit /\ [][TreeNext]_treeVars

----------------------------------------------------------------------------
(* Properties *)

\* A write that returns an address has stored exactly the tree, readable from
\* there, whatever was damaged before: what had gone bad is written again.
LastIsReadable ==
  saved # <<>> => Intact(saved[Len(saved)].addr) /\ ReadTree(saved[Len(saved)].addr) = saved[Len(saved)].tree
RoundTrip == [][saved' # saved => LastIsReadable']_treeVars

\* An address keeps its meaning: later writes, rotations and damage elsewhere
\* never make it read as another tree.
SavedStaysItself ==
  \A i \in DOMAIN saved : Intact(saved[i].addr) => ReadTree(saved[i].addr) = saved[i].tree

\* Writing an unchanged tree against the address it has stores nothing and
\* returns that address.
UnchangedCostsNothing ==
  [][saved' # saved =>
       LET s == saved'[Len(saved')] IN
         \A i \in DOMAIN saved :
           /\ saved[i].addr = s.prev /\ Intact(s.prev)
           /\ saved[i].tree = s.tree /\ saved[i].gen = s.gen
           => s.addr = s.prev /\ roots' = roots /\ subs' = subs /\ chunks' = chunks]_treeVars

\* The store keeps trees: what a write returned reads back as that tree then and
\* ever after, whatever went bad before or was written, rotated or damaged
\* elsewhere since, and what is there already is not stored again
\* (write_dir_incremental, BlobStore::put).
TreesAreKept == RoundTrip /\ []SavedStaysItself /\ UnchangedCostsNothing

\* A restore writes below its destination and nowhere else, whatever links an
\* earlier revision left there.
RestoreStaysInside == ~escaped

\* A restored name is what the tree says, with every entry of a directory.
Matches(node, want) ==
  /\ node.kind = want.kind /\ node.file = want.file
  /\ \A s \in SubName : want.sub[s] # Gone => node.sub[s] = want.sub[s]

\* A restore that succeeds has put every entry of the tree in place, over
\* whatever an earlier revision left there, and none writes elsewhere
\* (read_dir_to, make_symlink).
RestoreIsExact ==
  /\ RestoreStaysInside
  /\ Done => \A i \in DOMAIN saved : saved[i].addr = rest.addr =>
       \A n \in Name : saved[i].tree[n].kind # "none" => Matches(dst[n], saved[i].tree[n])
=============================================================================
