-------------------------------- MODULE Keys --------------------------------
(***************************************************************************)
(* The key schedule of nas-tools (nas-crypto/src/keys.rs, sign.rs and      *)
(* nas-vault/src/derive.rs).  Hashes are symbolic and collision-free: a    *)
(* byte string is a sequence of tokens, the output of a hash the bracketed *)
(* sequence of what went in, so that two inputs the code concatenates to   *)
(* the same bytes have the same output here too.  An authenticated cipher  *)
(* is ideal: a box opens under its key, nonce and associated data only.    *)
(***************************************************************************)
EXTENDS Naturals, Sequences, FiniteSets, SequencesExt

\* derive_key and keyed_hash of BLAKE3.
Kdf(context, input) == <<"kdf", context, "(">> \o input \o <<")">>
KeyedHash(key, input) == <<"keyed", "(">> \o key \o <<"|">> \o input \o <<")">>

\* What a data key is for.
Context == [dir |-> "dir/v1", manifest |-> "dir/manifest/v1", root |-> "root/v1",
            ns_root |-> "ns/root/v1", convergence |-> "ns/convergence/v1", slot |-> "ns/slot/v1"]

FromDek(dek) ==
    [root_secret |-> Kdf(Context.ns_root, dek), convergence |-> Kdf(Context.convergence, dek),
     slot_seed |-> Kdf(Context.slot, dek)]

\* Who signs: one key pair per role, all from the slot seed.
RoleContext == [Slot |-> "role/slot/v1", Lease |-> "role/lease/v1", Witness |-> "role/witness/v1",
                Transport |-> "role/transport/v1"]
IdentityOf(seed, role) == Kdf(RoleContext[role], seed)

-----------------------------------------------------------------------------
\* Directories: the root's secret from the namespace's, a child's from its
\* parent's and the id the parent's table gives it.
DirRoot(root_secret) == Kdf(Context.dir, root_secret)
Child(secret, dir_id) == Kdf(Context.dir, secret \o dir_id)
DirAt(root_secret, path) ==
    LET D[n \in 0..Len(path)] == IF n = 0 THEN DirRoot(root_secret) ELSE Child(D[n-1], path[n])
    IN  D[Len(path)]

\* A key knows how its nonce is chosen.
ChunkKey(cs, plaintext) == [bytes |-> KeyedHash(cs, plaintext), policy |-> "Derived"]
ManifestKey(dir) == [bytes |-> Kdf(Context.manifest, dir), policy |-> "Random"]
WrappingKey(bytes) == [bytes |-> bytes, policy |-> "Random"]
RootKey(root_secret, seq) == Kdf(Context.root, Append(root_secret, seq))

-----------------------------------------------------------------------------
\* The cipher.
Box(key, nonce, plain, aad) == [key |-> key, nonce |-> nonce, plain |-> plain, aad |-> aad]
Unbox(box, key, nonce, aad) ==
    IF box.key = key /\ box.nonce = nonce /\ box.aad = aad THEN {box.plain} ELSE {}

\* What is stored: the box, behind its nonce when the nonce was drawn.
Stored(carried, box) == [carried |-> carried, box |-> box]

DerivedNonce(key) == KeyedHash(key, <<"nonce/chunk/v1">>)
SealChunk(cs, plain, aad) ==
    LET k == ChunkKey(cs, plain).bytes IN {Stored(<<>>, Box(k, DerivedNonce(k), plain, aad))}

\* Mutant: a derived key seals any plaintext.
SealAnyKey(key, plain, aad, draw) ==
    IF key.policy = "Derived" THEN {Stored(<<>>, Box(key.bytes, DerivedNonce(key.bytes), plain, aad))}
    ELSE {Stored(draw, Box(key.bytes, draw, plain, aad))}

\* Seal refuses a derived key: nothing ties its bytes to this plaintext.
Seal(key, plain, aad, draw) ==
    IF key.policy = "Derived" THEN {} ELSE {Stored(draw, Box(key.bytes, draw, plain, aad))}

RootAad(slot, seq) == <<"aad/root", slot, seq>>

\* A root's nonce goes into its slot record, not into the blob.
SealRoot(key, plain, aad, draw) == {Stored(<<>>, Box(key, draw, plain, aad))}
OpenRoot(key, nonce, sealed, aad) ==
    IF sealed.carried = <<>> THEN Unbox(sealed.box, key, nonce, aad) ELSE {}

\* A chunk key a manifest carries opens and cannot seal.
ExposeDerived(key) == IF key.policy = "Derived" THEN {key.bytes} ELSE {}
OpenChunk(bytes, sealed, aad) ==
    IF sealed.carried = <<>> THEN Unbox(sealed.box, bytes, DerivedNonce(bytes), aad) ELSE {}

Open(key, sealed, aad) ==
    IF key.policy = "Derived" THEN OpenChunk(key.bytes, sealed, aad)
    ELSE IF sealed.carried = <<>> THEN {}
    ELSE Unbox(sealed.box, key.bytes, sealed.carried, aad)

-----------------------------------------------------------------------------
(***************************************************************************)
(* The calls a program can make.  A call is a record                       *)
(*   [op, cs, plain, aad, key, secret, slot, seq, draw]                         *)
(* where key is any key it can have, chunk keys included, and draw the     *)
(* random nonce this call gets.                                            *)
(***************************************************************************)
Sealings(c) ==
    CASE c.op = "chunk" -> SealChunk(c.cs, c.plain, c.aad)
      [] c.op = "key"   -> Seal(c.key, c.plain, c.aad, c.draw)
      [] c.op = "root"  -> SealRoot(RootKey(c.secret, c.seq), c.plain, RootAad(c.slot, c.seq), c.draw)

\* The rule of keys.rs: whatever two calls a program makes, if they use one key
\* with one nonce they seal the same plaintext, so no keystream covers two.
KeystreamIsNeverReused(a, b) ==
    \A x \in Sealings(a), y \in Sealings(b) :
       x.box.key = y.box.key /\ x.box.nonce = y.box.nonce => x.box.plain = y.box.plain

\* seal, seal_chunk, seal_root and their opens: every sealed object opens with
\* the key and data it was sealed with, and with no other key, sequence number,
\* recorded nonce or purpose; a bucket is not opened as a directory.
OpensOnlyWhatItSealed(a, b) ==
    \A x \in Sealings(a) :
       /\ a.op = "root" =>
            OpenRoot(RootKey(b.secret, b.seq), b.draw, x, RootAad(b.slot, b.seq))
              = IF b.secret = a.secret /\ b.slot = a.slot /\ b.seq = a.seq /\ b.draw = a.draw
                THEN {a.plain} ELSE {}
       /\ a.op = "key" => Open(b.key, x, b.aad) = IF b.key = a.key /\ b.aad = a.aad THEN {a.plain} ELSE {}
       /\ a.op = "chunk" => \A k \in ExposeDerived(b.key) :
            OpenChunk(k, x, b.aad)
              = IF b.key = ChunkKey(a.cs, a.plain) /\ b.aad = a.aad THEN {a.plain} ELSE {}

\* DirSecret::child: who holds a directory's secret computes the manifest keys
\* of the directories at and below it, and of no other; ids may repeat anywhere
\* in the tree, or continue one another.
SubtreeReachesDownOnly(root_secret, path, other) ==
    LET n == Len(other) - Len(path)
        below(q) == LET B[i \in 0..Len(q)] == IF i = 0 THEN DirAt(root_secret, path) ELSE Child(B[i-1], q[i])
                    IN  ManifestKey(B[Len(q)])
    IN  (\E i \in 0..Len(other) : below(SubSeq(other, i + 1, Len(other))) = ManifestKey(DirAt(root_secret, other)))
          <=> IsPrefix(path, other)

\* Two derivations that differ in purpose, namespace or input never give one
\* key: neither data keys, nor directory secrets, nor the seeds of signing keys.
KeyBytes(d) ==
    LET ns == FromDek(d.dek)
    IN  CASE d.of = "ns_root" -> ns.root_secret
          [] d.of = "convergence" -> ns.convergence
          [] d.of = "slot_seed" -> ns.slot_seed
          [] d.of \in DOMAIN RoleContext -> IdentityOf(ns.slot_seed, d.of)
          [] d.of = "dir" -> DirAt(ns.root_secret, d.path)
          [] d.of = "manifest" -> ManifestKey(DirAt(ns.root_secret, d.path)).bytes
          [] d.of = "root" -> RootKey(ns.root_secret, d.seq)
          [] d.of = "chunk" -> ChunkKey(ns.convergence, d.text).bytes
KeysAreApart(d, e) == KeyBytes(d) = KeyBytes(e) => d = e
=============================================================================
