---------------------------- MODULE Blobs_proofs ----------------------------
(***************************************************************************)
(* What is stored as blobs, on both sides.                                 *)
(*                                                                         *)
(* TreeStore for every number of names, every set of files and any number  *)
(* of generations: the inductive invariant TreeInv, that a restore that    *)
(* succeeds is exact, and that the store keeps trees.                      *)
(*                                                                         *)
(* PeerGC for every set of addresses and holders, every policy and every   *)
(* bound: an inductive invariant, the three promises that follow from it,  *)
(* and that PeerGC implements ProtectedStore.                              *)
(***************************************************************************)
EXTENDS PeerGC, TreeStore, FiniteSetTheorems, SequenceTheorems, TLAPS

(* The object store: TreeInv, an invariant of TreeStore. *)

\* Types.
Kind == {"none", "file", "link", "dir"}
Ref == [c : Chunk, gen : Nat]
LeafEntry == [kind : Kind, refs : Seq(Ref)]
Entry == [kind : Kind, refs : Seq(Ref), addr : Nat]
RootBlob == [dm : [Name -> Entry], ok : BOOLEAN]
SubBlob == [key : Name, dm : [SubName -> LeafEntry], ok : BOOLEAN]
Tree == [Name -> Nodes]

TreeTypes ==
  /\ src \in Tree
  /\ dst = [n \in Name |-> dst[n]]
  /\ chunks \in [ok : SUBSET Ref, bad : SUBSET Ref] /\ chunks.ok \cap chunks.bad = {}
  /\ roots \in Seq(RootBlob) /\ subs \in Seq(SubBlob)
  /\ gen \in Nat
  /\ saved \in Seq([addr : Nat, prev : Nat, tree : Tree, gen : Nat])

\* The references to a file's chunks as sealed under generation g, and what is
\* read through references that all verify.
RefsIn(g, file) == [i \in DOMAIN file |-> [c |-> file[i], gen |-> g]]
Contents(refs) == [i \in DOMAIN refs |-> refs[i].c]
SubOf(sub, g) == [s \in SubName |-> [kind |-> sub[s].kind, refs |-> RefsIn(g, sub[s].file)]]

\* A root manifest dm, with the manifests bs of subdirectories, is of tree t.
Describes(bs, dm, t, g) ==
  \A n \in Name :
    /\ dm[n].kind = t[n].kind /\ dm[n].refs = RefsIn(g, t[n].file)
    /\ t[n].kind # "dir" => dm[n].addr = 0
    /\ t[n].kind = "dir" => /\ dm[n].addr \in DOMAIN bs
                            /\ bs[dm[n].addr].dm = SubOf(t[n].sub, g)
                            /\ Sealed => bs[dm[n].addr].key = n

\* Every root manifest is of some tree, and what a write returned is of the tree
\* it was given.
RootsHold ==
  \A r \in DOMAIN roots : \E t \in Tree, g \in Nat : Describes(subs, roots[r].dm, t, g)

SavedHold ==
  \A i \in DOMAIN saved :
    /\ saved[i].addr \in DOMAIN roots
    /\ Describes(subs, roots[saved[i].addr].dm, saved[i].tree, saved[i].gen)

\* A name is as its entry says.
Placed(bs, e, node) ==
  e.kind # "none" =>
    /\ node.kind = e.kind /\ node.file = Contents(e.refs)
    /\ e.kind = "dir" => \A s \in SubName : LET f == bs[e.addr].dm[s] IN
         f.kind # "none" => node.sub[s] = Leaf(f.kind, Contents(f.refs))

\* The names a restore has passed are as the manifest says.
RestHolds ==
  \/ rest = None
  \/ /\ rest \in [next : Name, addr : Nat, dm : [Name -> Entry]] \cup [next : {N + 1}, addr : Nat]
     /\ rest.addr \in DOMAIN roots
     /\ rest.next \in Name => rest.dm = roots[rest.addr].dm
     /\ \A n \in Name : n < rest.next => Placed(subs, roots[rest.addr].dm[n], dst[n])

\* The inductive invariant.
TreeInv == TreeTypes /\ RootsHold /\ SavedHold /\ RestHolds /\ ~escaped

-----------------------------------------------------------------------------
(* Files, references and chunks. *)

\* The natural order is well-founded.
LEMMA LeastNat ==
  ASSUME NEW T \in SUBSET Nat, T # {}
  PROVE  \E x \in T : \A y \in T : x <= y
<1> DEFINE Less == {p \in Nat \X Nat : p[1] < p[2]}
<1>1. IsWellFoundedOn(OpToRel(<, Nat), Nat)
  BY NatLessThanWellFounded
<1>2. OpToRel(<, Nat) = Less
  BY DEF OpToRel
<1>3. IsWellFoundedOn(Less, Nat)
  BY <1>1, <1>2
<1> HIDE DEF Less
<1>4. PICK x \in T : \A y \in T : ~ (<<y, x>> \in Less)
  BY <1>3, WFMin
<1>5. ASSUME NEW y \in T PROVE x <= y
  <2>1. ~ (<<y, x>> \in Less) /\ x \in Nat /\ y \in Nat
    BY <1>4
  <2>2. <<y, x>> \in Nat \X Nat /\ <<y, x>>[1] = y /\ <<y, x>>[2] = x
    BY <2>1
  <2>3. ~(y < x)
    BY <2>1, <2>2 DEF Less
  <2> QED
    BY <2>3, <2>1
<1> QED
  BY <1>5

\* What a name of a directory may be.
LEMMA LeafIs ==
  ASSUME NEW l \in Leaves
  PROVE  /\ l = Leaf(l.kind, l.file) /\ l.kind \in {"none", "file", "link"}
         /\ l.file \in Seq(Chunk)
         /\ l.kind # "file" => l.file = <<>>
         /\ l.kind = "none" <=> l = Gone
<1>1. <<>> \in Seq(Chunk) /\ \A f \in Content : f \in Seq(Chunk)
  BY TreeAssumption
<1>2. CASE l = Gone
  BY <1>1, <1>2 DEF Gone, Leaf
<1>4. CASE l = Leaf("link", <<>>)
  <2>1. l.kind = "link" /\ l.file = <<>>
    BY <1>4 DEF Leaf
  <2>2. l # Gone
    BY <2>1 DEF Gone, Leaf
  <2> QED
    BY <1>1, <1>4, <2>1, <2>2
<1>3. CASE l \in {Leaf("file", f) : f \in Content}
  <2>1. PICK f \in Content : l = Leaf("file", f)
    BY <1>3
  <2>2. l.kind = "file" /\ l.file = f
    BY <2>1 DEF Leaf
  <2>3. l # Gone
    BY <2>2 DEF Gone, Leaf
  <2> QED
    BY <1>1, <2>1, <2>2, <2>3
<1> QED
  BY <1>2, <1>3, <1>4 DEF Leaves

\* And a name of the root, which may be a directory.
LEMMA NodeIs ==
  ASSUME NEW v \in Nodes
  PROVE  /\ v = [kind |-> v.kind, file |-> v.file, sub |-> v.sub]
         /\ v.kind \in Kind /\ v.file \in Seq(Chunk)
         /\ v.kind # "file" => v.file = <<>>
         /\ v.sub \in [SubName -> Leaves]
         /\ v.kind # "dir" => v.sub = NoSub
<1>1. NoSub \in [SubName -> Leaves]
  BY DEF NoSub, Leaves
<1>2. CASE v \in {Node(l, NoSub) : l \in Leaves}
  <2>1. PICK l \in Leaves : v = Node(l, NoSub)
    BY <1>2
  <2>2. v.kind = l.kind /\ v.file = l.file /\ v.sub = NoSub /\ v = [kind |-> v.kind, file |-> v.file, sub |-> v.sub]
    BY <2>1 DEF Node
  <2>3. l.kind \in {"none", "file", "link"} /\ l.file \in Seq(Chunk) /\ (l.kind # "file" => l.file = <<>>)
    BY LeafIs
  <2> QED
    BY <2>2, <2>3, <1>1 DEF Kind
<1>3. CASE v \in {Node(Leaf("dir", <<>>), u) : u \in [SubName -> Leaves]}
  <2>1. PICK u \in [SubName -> Leaves] : v = Node(Leaf("dir", <<>>), u)
    BY <1>3
  <2>2. v.kind = "dir" /\ v.file = <<>> /\ v.sub = u /\ v = [kind |-> v.kind, file |-> v.file, sub |-> v.sub]
    BY <2>1 DEF Node, Leaf
  <2>3. <<>> \in Seq(Chunk)
    OBVIOUS
  <2> QED
    BY <2>2, <2>3 DEF Kind
<1> QED
  BY <1>2, <1>3 DEF Nodes

\* References to a file, and back.
LEMMA RefsIs ==
  ASSUME NEW g \in Nat, NEW file \in Seq(Chunk)
  PROVE  /\ RefsIn(g, file) \in Seq(Ref) /\ Len(RefsIn(g, file)) = Len(file)
         /\ Contents(RefsIn(g, file)) = file
         /\ DOMAIN RefsIn(g, file) = 1 .. Len(file) /\ DOMAIN file = 1 .. Len(file)
<1>1. DOMAIN file = 1 .. Len(file) /\ Len(file) \in Nat /\ file = [i \in 1 .. Len(file) |-> file[i]]
      /\ \A i \in 1 .. Len(file) : file[i] \in Chunk
  BY LenProperties, ElementOfSeq
<1>2. RefsIn(g, file) = [i \in 1 .. Len(file) |-> [c |-> file[i], gen |-> g]]
  BY <1>1 DEF RefsIn
<1>3. \A i \in 1 .. Len(file) : [c |-> file[i], gen |-> g] \in Ref
  BY <1>1 DEF Ref
<1>4. RefsIn(g, file) \in Seq(Ref) /\ Len(RefsIn(g, file)) = Len(file)
  BY <1>1, <1>2, <1>3
<1>5. Contents(RefsIn(g, file)) = [i \in 1 .. Len(file) |-> file[i]]
  BY <1>2 DEF Contents
<1> QED
  BY <1>1, <1>2, <1>4, <1>5

\* What a file is read as: whole exactly if every chunk verifies.
LEMMA WholeIs ==
  ASSUME NEW refs \in Seq(Ref)
  PROVE  /\ Good(refs) = Len(refs) <=> \A i \in DOMAIN refs : refs[i] \in chunks.ok
         /\ Good(refs) = Len(refs) => Plain(refs) = Contents(refs)
<1> DEFINE bad == {i \in DOMAIN refs : refs[i] \notin chunks.ok}
<1>1. DOMAIN refs = 1 .. Len(refs) /\ Len(refs) \in Nat
  BY LenProperties
<1>2. Good(refs) = IF bad = {} THEN Len(refs) ELSE (CHOOSE i \in bad : \A j \in bad : i <= j) - 1
  BY DEF Good
<1>3. ASSUME bad # {} PROVE Good(refs) # Len(refs)
  <2>1. bad \in SUBSET Nat
    BY <1>1
  <2>2. \E i \in bad : \A j \in bad : i <= j
    <3> HIDE DEF bad
    <3> QED
      BY <2>1, <1>3, LeastNat
  <2> DEFINE x == CHOOSE i \in bad : \A j \in bad : i <= j
  <2>3. x \in bad
    <3> HIDE DEF bad
    <3> QED
      BY <2>2
  <2> HIDE DEF x
  <2>4. x \in 1 .. Len(refs)
    BY <2>3, <1>1
  <2>5. Good(refs) = x - 1
    BY <1>2, <1>3 DEF x
  <2> QED
    BY <2>4, <2>5, <1>1
<1>4. Good(refs) = Len(refs) <=> bad = {}
  BY <1>2, <1>3
<1>5. Good(refs) = Len(refs) => Plain(refs) = Contents(refs)
  BY <1>1 DEF Plain, Contents
<1> QED
  BY <1>4, <1>5

-----------------------------------------------------------------------------
(* Manifests. *)

\* Manifests are added and repaired; what one says stays.
SubsGrow(bs, cs) ==
  /\ Len(bs) <= Len(cs)
  /\ \A i \in DOMAIN bs : /\ i \in DOMAIN cs /\ cs[i].dm = bs[i].dm /\ cs[i].key = bs[i].key
                          /\ bs[i].ok => cs[i].ok

\* put_dir_manifest leaves a manifest that says dm and opens.
LEMMA PutSubIs ==
  ASSUME NEW bs \in Seq(SubBlob), NEW key \in Name, NEW dm \in [SubName -> LeafEntry]
  PROVE  LET put == PutSub(bs, key, dm) IN
         /\ put = [at |-> put.at, blobs |-> put.blobs]
         /\ put.blobs \in Seq(SubBlob) /\ SubsGrow(bs, put.blobs)
         /\ SubOpens(put.blobs, put.at, key) /\ put.blobs[put.at].dm = dm
         /\ put.at \in Nat
<1> DEFINE same == {i \in DOMAIN bs : bs[i].dm = dm}
           put == PutSub(bs, key, dm)
<1>1. DOMAIN bs = 1 .. Len(bs) /\ Len(bs) \in Nat /\ \A i \in DOMAIN bs : bs[i] \in SubBlob
  BY LenProperties, ElementOfSeq
<1>2. CASE ~Sealed /\ same # {}
  <2> DEFINE i == CHOOSE i \in same : TRUE
             cs == [bs EXCEPT ![i].ok = TRUE]
  <2>1. i \in same
    BY <1>2
  <2>2. put = [at |-> i, blobs |-> cs]
    BY <1>2 DEF PutSub
  <2>3. i \in DOMAIN bs /\ bs[i].dm = dm
    BY <2>1
  <2> HIDE DEF i, same
  <2>4. DOMAIN cs = DOMAIN bs /\ \A j \in DOMAIN bs : cs[j] = IF j = i THEN [bs[i] EXCEPT !.ok = TRUE] ELSE bs[j]
    BY <2>3
  <2>5. cs[i] \in SubBlob /\ cs[i].ok /\ cs[i].dm = bs[i].dm /\ cs[i].key = bs[i].key
    <3>1. bs[i] \in SubBlob
      BY <2>3, <1>1
    <3>2. cs[i] = [bs[i] EXCEPT !.ok = TRUE]
      BY <2>3, <2>4
    <3> HIDE DEF cs
    <3> QED
      BY <3>1, <3>2 DEF SubBlob
  <2>6. \A j \in 1 .. Len(bs) : cs[j] \in SubBlob
    <3> HIDE DEF cs
    <3> QED
      BY <2>4, <2>5, <1>1
  <2>7. cs = [j \in 1 .. Len(bs) |-> cs[j]]
    BY <2>4, <1>1
  <2> HIDE DEF cs
  <2>8. cs \in Seq(SubBlob) /\ Len(cs) = Len(bs)
    BY <2>6, <2>7, <1>1
  <2>9. SubsGrow(bs, cs)
    <3>1. \A j \in DOMAIN bs : j \in DOMAIN cs /\ cs[j].dm = bs[j].dm /\ cs[j].key = bs[j].key /\ (bs[j].ok => cs[j].ok)
      BY <2>3, <2>4, <2>5
    <3> QED
      BY <3>1, <2>8, <1>1 DEF SubsGrow
  <2>10. SubOpens(cs, i, key) /\ cs[i].dm = dm
    BY <2>3, <2>4, <2>5, <1>2 DEF SubOpens
  <2>11. i \in Nat
    BY <2>3, <1>1
  <2>12. put.at = i /\ put.blobs = cs
    BY <2>2
  <2> HIDE DEF put
  <2> QED
    BY <2>2, <2>8, <2>9, <2>10, <2>11, <2>12 DEF put
<1>3. CASE ~(~Sealed /\ same # {})
  <2> DEFINE b == [key |-> key, dm |-> dm, ok |-> TRUE]
             cs == Append(bs, b)  i == Len(bs) + 1
  <2>1. put = [at |-> i, blobs |-> cs]
    BY <1>3 DEF PutSub
  <2>2. b \in SubBlob /\ b.key = key /\ b.dm = dm /\ b.ok
    BY DEF SubBlob
  <2> HIDE DEF b
  <2>3. cs \in Seq(SubBlob) /\ Len(cs) = Len(bs) + 1 /\ cs[i] = b /\ \A j \in 1 .. Len(bs) : cs[j] = bs[j]
    BY <2>2, <1>1
  <2>4. DOMAIN cs = 1 .. Len(bs) + 1
    BY <2>3, LenProperties
  <2> HIDE DEF cs
  <2>5. SubsGrow(bs, cs)
    BY <2>3, <2>4, <1>1 DEF SubsGrow
  <2>6. i \in DOMAIN cs /\ i \in Nat
    BY <2>4, <1>1
  <2> HIDE DEF i
  <2>7. SubOpens(cs, i, key) /\ cs[i].dm = dm
    BY <2>2, <2>3, <2>6 DEF SubOpens
  <2>8. put.at = i /\ put.blobs = cs
    BY <2>1
  <2> HIDE DEF put
  <2> QED
    BY <2>1, <2>3, <2>5, <2>6, <2>7, <2>8 DEF put
<1> QED
  BY <1>2, <1>3

\* The same for the root's.
LEMMA PutRootIs ==
  ASSUME roots \in Seq(RootBlob), NEW dm \in [Name -> Entry]
  PROVE  LET put == PutRoot(dm) IN
         /\ put.blobs \in Seq(RootBlob) /\ put.at \in DOMAIN put.blobs /\ put.at \in Nat
         /\ put.blobs[put.at].ok /\ put.blobs[put.at].dm = dm
         /\ \A i \in DOMAIN roots : i \in DOMAIN put.blobs /\ put.blobs[i].dm = roots[i].dm
         /\ \A i \in DOMAIN put.blobs : i = put.at \/ i \in DOMAIN roots
<1> DEFINE same == {i \in DOMAIN roots : roots[i].dm = dm}
           put == PutRoot(dm)
<1>1. DOMAIN roots = 1 .. Len(roots) /\ Len(roots) \in Nat /\ \A i \in DOMAIN roots : roots[i] \in RootBlob
  BY LenProperties, ElementOfSeq
<1>2. CASE ~Sealed /\ same # {}
  <2> DEFINE i == CHOOSE i \in same : TRUE
             cs == [roots EXCEPT ![i].ok = TRUE]
  <2>1. i \in same
    BY <1>2
  <2>2. put = [at |-> i, blobs |-> cs]
    BY <1>2 DEF PutRoot
  <2>3. i \in DOMAIN roots /\ roots[i].dm = dm
    BY <2>1
  <2> HIDE DEF i, same
  <2>4. DOMAIN cs = DOMAIN roots /\ \A j \in DOMAIN roots : cs[j] = IF j = i THEN [roots[i] EXCEPT !.ok = TRUE] ELSE roots[j]
    BY <2>3
  <2>5. cs[i] \in RootBlob /\ cs[i].ok /\ cs[i].dm = roots[i].dm
    <3>1. roots[i] \in RootBlob
      BY <2>3, <1>1
    <3>2. cs[i] = [roots[i] EXCEPT !.ok = TRUE]
      BY <2>3, <2>4
    <3> HIDE DEF cs
    <3> QED
      BY <3>1, <3>2 DEF RootBlob
  <2>6. \A j \in 1 .. Len(roots) : cs[j] \in RootBlob
    <3> HIDE DEF cs
    <3> QED
      BY <2>4, <2>5, <1>1
  <2>7. cs = [j \in 1 .. Len(roots) |-> cs[j]]
    BY <2>4, <1>1
  <2> HIDE DEF cs
  <2>8. cs \in Seq(RootBlob)
    BY <2>6, <2>7, <1>1
  <2>9. \A j \in DOMAIN roots : j \in DOMAIN cs /\ cs[j].dm = roots[j].dm
    BY <2>3, <2>4, <2>5
  <2>10. i \in Nat
    BY <2>3, <1>1
  <2>11. put.at = i /\ put.blobs = cs
    BY <2>2
  <2> HIDE DEF put
  <2> QED
    BY <2>3, <2>4, <2>5, <2>8, <2>9, <2>10, <2>11 DEF put
<1>3. CASE ~(~Sealed /\ same # {})
  <2> DEFINE b == [dm |-> dm, ok |-> TRUE]
             cs == Append(roots, b)  i == Len(roots) + 1
  <2>1. put = [at |-> i, blobs |-> cs]
    BY <1>3 DEF PutRoot
  <2>2. b \in RootBlob /\ b.dm = dm /\ b.ok
    BY DEF RootBlob
  <2> HIDE DEF b
  <2>3. cs \in Seq(RootBlob) /\ Len(cs) = Len(roots) + 1 /\ cs[i] = b /\ \A j \in 1 .. Len(roots) : cs[j] = roots[j]
    BY <2>2, <1>1
  <2>4. DOMAIN cs = 1 .. Len(roots) + 1
    BY <2>3, LenProperties
  <2> HIDE DEF cs
  <2>5. i \in DOMAIN cs /\ i \in Nat /\ (\A j \in DOMAIN cs : j = i \/ j \in DOMAIN roots) /\ \A j \in DOMAIN roots : j \in DOMAIN cs
    BY <2>4, <1>1
  <2> HIDE DEF i
  <2>6. put.at = i /\ put.blobs = cs
    BY <2>1
  <2> HIDE DEF put
  <2> QED
    BY <2>2, <2>3, <2>5, <2>6, <1>1 DEF put
<1> QED
  BY <1>2, <1>3

-----------------------------------------------------------------------------
(* The manifests of the subdirectories, one name after the other. *)

\* One step of the recursion.
Kid(old, n, s) ==
  LET dm == SubManifest(src[n].sub)
      was == IF old[n].kind = "dir" THEN old[n].addr ELSE 0
      put == IF Keeps(s.blobs, was, n, dm) THEN [at |-> was, blobs |-> s.blobs]
             ELSE PutSub(s.blobs, n, dm)
  IN  IF src[n].kind # "dir" THEN [s EXCEPT !.at = Append(@, 0)]
      ELSE [at |-> Append(s.at, put.at), blobs |-> put.blobs]

\* The recursive function of the model is what its equation says.
LEMMA ChildrenAre ==
  ASSUME NEW old
  PROVE  /\ Children(old)[0] = [at |-> <<>>, blobs |-> subs]
         /\ \A n \in 1 .. N : Children(old)[n] = Kid(old, n, Children(old)[n - 1])
<1> DEFINE At(f, i) == IF i = 0 THEN [at |-> <<>>, blobs |-> subs] ELSE Kid(old, i, f[i - 1])
           Solves(n, f) == f = [i \in 0 .. n |-> At(f, i)]
           Bad == {n \in 0 .. N : \A f : ~Solves(n, f)}
<1>0. N \in Nat
  BY TreeAssumption
<1>1. Bad = {}
  <2>1. SUFFICES ASSUME Bad # {} PROVE FALSE
    OBVIOUS
  <2>2. PICK n \in Bad : \A m \in Bad : n <= m
    <3>1. Bad \in SUBSET Nat
      BY <1>0
    <3> QED
      BY <2>1, <3>1, LeastNat
  <2>3. n # 0
    <3>1. Solves(0, [i \in 0 .. 0 |-> [at |-> <<>>, blobs |-> subs]])
      OBVIOUS
    <3> QED
      BY <3>1
  <2>4. n \in Nat /\ n - 1 \in 0 .. N /\ n \in 0 .. n
    BY <2>3, <1>0
  <2>5. PICK f : Solves(n - 1, f)
    <3>1. ~(n <= n - 1)
      BY <2>4
    <3> HIDE DEF Bad
    <3>2. n - 1 \notin Bad
      BY <2>2, <3>1
    <3> USE DEF Bad
    <3> HIDE DEF Solves
    <3> QED
      BY <2>4, <3>2
  <2> DEFINE g == [i \in 0 .. n |-> IF i = n THEN At(f, n) ELSE f[i]]
  <2>6. ASSUME NEW i \in 0 .. n PROVE At(g, i) = At(f, i)
    <3>1. CASE i = 0
      BY <3>1
    <3>2. CASE i # 0
      <4>1. i - 1 \in 0 .. n /\ i - 1 # n
        BY <3>2, <2>4
      <4>2. g[i - 1] = f[i - 1]
        BY <4>1
      <4> HIDE DEF g
      <4> QED
        BY <3>2, <4>2
    <3> QED
      BY <3>1, <3>2
  <2>7. ASSUME NEW i \in 0 .. n PROVE g[i] = At(f, i)
    <3>1. CASE i = n
      <4> HIDE DEF At
      <4> QED
        BY <3>1
    <3>2. CASE i # n
      <4>1. i \in 0 .. (n - 1)
        BY <3>2, <2>4
      <4> HIDE DEF At
      <4>2. f[i] = At(f, i)
        BY <4>1, <2>5
      <4> QED
        BY <4>2, <3>2
    <3> QED
      BY <3>1, <3>2
  <2>8. Solves(n, g)
    <3>1. \A i \in 0 .. n : g[i] = At(g, i)
      <4> HIDE DEF At, g
      <4> QED
        BY <2>6, <2>7
    <3> HIDE DEF At
    <3>2. g = [i \in 0 .. n |-> g[i]]
      OBVIOUS
    <3> HIDE DEF g
    <3> QED
      BY <3>1, <3>2
  <2> QED
    BY <2>8
<1>2. \E f : Solves(N, f)
  <2>1. N \in 0 .. N
    BY <1>0
  <2>2. N \notin Bad
    BY <1>1
  <2> HIDE DEF Solves
  <2> QED
    BY <2>1, <2>2
<1> DEFINE F == CHOOSE f : f = [i \in 0 .. N |-> At(f, i)]
<1>3. Children(old) = F
  BY DEF Children, Kid
<1>4. F = [i \in 0 .. N |-> At(F, i)]
  <2> HIDE DEF At
  <2>1. \E f : f = [i \in 0 .. N |-> At(f, i)]
    BY <1>2
  <2> QED
    BY <2>1
<1> HIDE DEF F
<1>5. \A i \in 0 .. N : F[i] = At(F, i)
  <2> HIDE DEF At
  <2> QED
    BY <1>4
<1>6. 0 \in 0 .. N /\ \A i \in 1 .. N : i \in 0 .. N /\ i # 0
  BY <1>0
<1> QED
  BY <1>3, <1>5, <1>6

\* What a subdirectory's manifest says.
LEMMA SubManifestIs ==
  ASSUME NEW sub \in [SubName -> Leaves], gen \in Nat
  PROVE  SubManifest(sub) \in [SubName -> LeafEntry] /\ SubManifest(sub) = SubOf(sub, gen)
<1>1. \A s \in SubName : sub[s] \in Leaves /\ sub[s].kind \in Kind /\ sub[s].file \in Seq(Chunk)
  BY LeafIs DEF Kind
<1>2. \A s \in SubName : Refs(sub[s].file) = RefsIn(gen, sub[s].file) /\ RefsIn(gen, sub[s].file) \in Seq(Ref)
  BY <1>1, RefsIs DEF Refs, RefsIn
<1>3. \A s \in SubName : [kind |-> sub[s].kind, refs |-> RefsIn(gen, sub[s].file)] \in LeafEntry
  BY <1>1, <1>2 DEF LeafEntry
<1> QED
  BY <1>2, <1>3 DEF SubManifest, SubOf

\* Each name that is a directory has a manifest that opens, and what was there
\* is there still.
KidsHold(cut, s) ==
  /\ s = [at |-> s.at, blobs |-> s.blobs]
  /\ s.at \in Seq(Nat) /\ Len(s.at) = cut
  /\ s.blobs \in Seq(SubBlob) /\ SubsGrow(subs, s.blobs)
  /\ \A m \in 1 .. cut :
       /\ src[m].kind # "dir" => s.at[m] = 0
       /\ src[m].kind = "dir" => /\ SubOpens(s.blobs, s.at[m], m)
                                 /\ s.blobs[s.at[m]].dm = SubManifest(src[m].sub)

\* One name more.
LEMMA KidHolds ==
  ASSUME TreeTypes, NEW old \in [Name -> Entry], NEW n \in 1 .. N, NEW s, KidsHold(n - 1, s)
  PROVE  KidsHold(n, Kid(old, n, s))
<1> DEFINE dm == SubManifest(src[n].sub)
           was == IF old[n].kind = "dir" THEN old[n].addr ELSE 0
           put == IF Keeps(s.blobs, was, n, dm) THEN [at |-> was, blobs |-> s.blobs]
                  ELSE PutSub(s.blobs, n, dm)
<1>1. N \in Nat /\ n \in Name /\ n \in Nat \ {0}
  BY TreeAssumption DEF Name
<1>2. /\ s = [at |-> s.at, blobs |-> s.blobs]
      /\ s.at \in Seq(Nat) /\ Len(s.at) = n - 1
      /\ s.blobs \in Seq(SubBlob) /\ SubsGrow(subs, s.blobs)
      /\ \A m \in 1 .. n - 1 :
           /\ src[m].kind # "dir" => s.at[m] = 0
           /\ src[m].kind = "dir" => /\ SubOpens(s.blobs, s.at[m], m)
                                     /\ s.blobs[s.at[m]].dm = SubManifest(src[m].sub)
  BY DEF KidsHold
<1>3. dm \in [SubName -> LeafEntry]
  <2>1. src[n] \in Nodes
    BY <1>1 DEF TreeTypes, Tree
  <2> QED
    BY <2>1, NodeIs, SubManifestIs DEF TreeTypes
<1>4. was \in Nat
  BY <1>1 DEF Entry
<1>5. Kid(old, n, s) = IF src[n].kind # "dir" THEN [s EXCEPT !.at = Append(@, 0)]
                       ELSE [at |-> Append(s.at, put.at), blobs |-> put.blobs]
  BY DEF Kid
<1> HIDE DEF dm, was
<1>6. /\ put.blobs \in Seq(SubBlob) /\ SubsGrow(s.blobs, put.blobs) /\ put.at \in Nat
      /\ SubOpens(put.blobs, put.at, n) /\ put.blobs[put.at].dm = dm
  <2>1. CASE Keeps(s.blobs, was, n, dm)
    <3>1. put.at = was /\ put.blobs = s.blobs
      BY <2>1
    <3>2. SubsGrow(s.blobs, s.blobs)
      <4>1. Len(s.blobs) \in Nat
        BY <1>2, LenProperties
      <4> QED
        BY <4>1 DEF SubsGrow
    <3> HIDE DEF put
    <3> QED
      BY <2>1, <3>1, <3>2, <1>2, <1>4 DEF Keeps
  <2>2. CASE ~Keeps(s.blobs, was, n, dm)
    <3>1. put = PutSub(s.blobs, n, dm)
      BY <2>2
    <3> HIDE DEF put
    <3> QED
      BY <3>1, <1>1, <1>2, <1>3, PutSubIs
  <2> QED
    BY <2>1, <2>2
<1> HIDE DEF put
<1>7. ASSUME NEW a \in Nat
      PROVE  /\ Append(s.at, a) \in Seq(Nat) /\ Len(Append(s.at, a)) = n /\ Append(s.at, a)[n] = a
             /\ \A m \in 1 .. n - 1 : Append(s.at, a)[m] = s.at[m]
  BY <1>1, <1>2
<1>8. CASE src[n].kind # "dir"
  <2> DEFINE a == Append(s.at, 0)  k == Kid(old, n, s)
  <2>1. k = [at |-> a, blobs |-> s.blobs]
    BY <1>2, <1>5, <1>8
  <2>2. k.at = a /\ k.blobs = s.blobs /\ k = [at |-> k.at, blobs |-> k.blobs]
    BY <2>1
  <2>3. a \in Seq(Nat) /\ Len(a) = n /\ a[n] = 0 /\ \A m \in 1 .. n - 1 : a[m] = s.at[m]
    BY <1>7
  <2> HIDE DEF a, k
  <2>4. ASSUME NEW m \in 1 .. n
        PROVE  /\ src[m].kind # "dir" => a[m] = 0
               /\ src[m].kind = "dir" => /\ SubOpens(s.blobs, a[m], m)
                                         /\ s.blobs[a[m]].dm = SubManifest(src[m].sub)
    <3>1. CASE m = n
      BY <3>1, <2>3, <1>8
    <3>2. CASE m # n
      <4>1. m \in 1 .. n - 1
        BY <3>2, <1>1
      <4> QED
        BY <4>1, <2>3, <1>2
    <3> QED
      BY <3>1, <3>2
  <2> QED
    BY <2>2, <2>3, <2>4, <1>2 DEF KidsHold, k
<1>9. CASE src[n].kind = "dir"
  <2> DEFINE a == Append(s.at, put.at)  k == Kid(old, n, s)  cs == put.blobs
  <2>1. k = [at |-> a, blobs |-> cs]
    BY <1>5, <1>9
  <2>2. k.at = a /\ k.blobs = cs /\ k = [at |-> k.at, blobs |-> k.blobs]
    BY <2>1
  <2>3. a \in Seq(Nat) /\ Len(a) = n /\ a[n] = put.at /\ \A m \in 1 .. n - 1 : a[m] = s.at[m]
    BY <1>6, <1>7
  <2>4. cs \in Seq(SubBlob) /\ SubsGrow(s.blobs, cs) /\ SubOpens(cs, put.at, n) /\ cs[put.at].dm = dm
    BY <1>6
  <2> HIDE DEF a, k, cs
  <2>5. SubsGrow(subs, cs)
    <3>1. Len(subs) \in Nat /\ Len(s.blobs) \in Nat /\ Len(cs) \in Nat
      BY <1>2, <2>4, LenProperties DEF TreeTypes
    <3>2. Len(subs) <= Len(cs)
      BY <3>1, <2>4, <1>2 DEF SubsGrow
    <3> QED
      BY <3>2, <2>4, <1>2 DEF SubsGrow
  <2>6. ASSUME NEW m \in 1 .. n
        PROVE  /\ src[m].kind # "dir" => a[m] = 0
               /\ src[m].kind = "dir" => /\ SubOpens(cs, a[m], m)
                                         /\ cs[a[m]].dm = SubManifest(src[m].sub)
    <3>1. CASE m = n
      BY <3>1, <2>3, <2>4, <1>9 DEF dm
    <3>2. CASE m # n
      <4>1. m \in 1 .. n - 1
        BY <3>2, <1>1
      <4>2. a[m] = s.at[m]
        BY <4>1, <2>3
      <4>3. SubOpens(s.blobs, s.at[m], m) => SubOpens(cs, s.at[m], m) /\ cs[s.at[m]].dm = s.blobs[s.at[m]].dm
        BY <2>4 DEF SubOpens, SubsGrow
      <4> QED
        BY <4>1, <4>2, <4>3, <1>2
    <3> QED
      BY <3>1, <3>2
  <2> QED
    BY <2>2, <2>3, <2>4, <2>5, <2>6 DEF KidsHold, k
<1> QED
  BY <1>8, <1>9

\* All of them, wherever the write stops.
LEMMA KidsAlwaysHold ==
  ASSUME TreeTypes, NEW old \in [Name -> Entry], NEW cut \in 0 .. N
  PROVE  KidsHold(cut, Children(old)[cut])
<1> DEFINE F == Children(old)
           Wrong == {n \in 0 .. N : ~KidsHold(n, F[n])}
<1>1. /\ F[0] = [at |-> <<>>, blobs |-> subs] /\ N \in Nat
      /\ \A n \in 1 .. N : F[n] = Kid(old, n, F[n - 1])
  BY ChildrenAre, TreeAssumption
<1> HIDE DEF F
<1>2. KidsHold(0, F[0])
  <2> DEFINE s == F[0]
  <2>1. s.at = <<>> /\ s.blobs = subs /\ s = [at |-> s.at, blobs |-> s.blobs]
    BY <1>1
  <2>2. subs \in Seq(SubBlob) /\ Len(subs) \in Nat
    BY LenProperties DEF TreeTypes
  <2>3. SubsGrow(subs, subs)
    BY <2>2 DEF SubsGrow
  <2>4. <<>> \in Seq(Nat) /\ Len(<<>>) = 0 /\ 1 .. 0 = {}
    OBVIOUS
  <2> HIDE DEF s
  <2> QED
    BY <2>1, <2>2, <2>3, <2>4 DEF KidsHold, s
<1>3. Wrong = {}
  <2>1. SUFFICES ASSUME Wrong # {} PROVE FALSE
    OBVIOUS
  <2>2. PICK n \in Wrong : \A m \in Wrong : n <= m
    <3>1. Wrong \in SUBSET Nat
      BY <1>1
    <3> HIDE DEF Wrong
    <3> QED
      BY <2>1, <3>1, LeastNat
  <2>3. n \in 0 .. N /\ ~KidsHold(n, F[n])
    BY <2>2
  <2>4. n \in 1 .. N /\ n - 1 \in 0 .. N /\ ~(n <= n - 1)
    BY <2>3, <1>1, <1>2
  <2>5. KidsHold(n - 1, F[n - 1])
    <3>1. n - 1 \notin Wrong
      <4> HIDE DEF Wrong
      <4> QED
        BY <2>2, <2>4
    <3> QED
      BY <3>1, <2>4
  <2>6. KidsHold(n, Kid(old, n, F[n - 1]))
    BY <2>4, <2>5, KidHolds
  <2> QED
    BY <2>3, <2>4, <2>6, <1>1
<1> QED
  BY <1>3 DEF F

-----------------------------------------------------------------------------
(* What the invariant says of manifests stays true while they are added,     *)
(* damaged and repaired.                                                     *)

SubsKept(bs, cs) ==
  \A i \in DOMAIN bs : i \in DOMAIN cs /\ cs[i].dm = bs[i].dm /\ cs[i].key = bs[i].key
RootsKept(rs, qs) == \A i \in DOMAIN rs : i \in DOMAIN qs /\ qs[i].dm = rs[i].dm

\* Of the tree a manifest is of.
LEMMA DescribesKept ==
  ASSUME NEW bs, NEW cs, SubsKept(bs, cs), NEW dm, NEW t, NEW g, Describes(bs, dm, t, g)
  PROVE  Describes(cs, dm, t, g)
BY DEF SubsKept, Describes

\* Of what writes returned.
LEMMA SavedKept ==
  ASSUME SavedHold, SubsKept(subs, subs'), RootsKept(roots, roots')
  PROVE  \A i \in DOMAIN saved :
           /\ saved[i].addr \in DOMAIN roots'
           /\ Describes(subs', roots'[saved[i].addr].dm, saved[i].tree, saved[i].gen)
<1> TAKE i \in DOMAIN saved
<1>1. saved[i].addr \in DOMAIN roots /\ Describes(subs, roots[saved[i].addr].dm, saved[i].tree, saved[i].gen)
  BY DEF SavedHold
<1>2. saved[i].addr \in DOMAIN roots' /\ roots'[saved[i].addr].dm = roots[saved[i].addr].dm
  BY <1>1 DEF RootsKept
<1>3. Describes(subs', roots[saved[i].addr].dm, saved[i].tree, saved[i].gen)
  BY <1>1, DescribesKept
<1> QED
  BY <1>2, <1>3

\* Of every root manifest.
LEMMA RootsStayHeld ==
  ASSUME RootsHold, SubsKept(subs, subs'), RootsKept(roots, roots'), NEW r \in DOMAIN roots
  PROVE  \E t \in Tree, g \in Nat : Describes(subs', roots'[r].dm, t, g)
<1>1. PICK t \in Tree, g \in Nat : Describes(subs, roots[r].dm, t, g)
  BY DEF RootsHold
<1>2. roots'[r].dm = roots[r].dm /\ Describes(subs', roots[r].dm, t, g)
  BY <1>1, DescribesKept DEF RootsKept
<1>3. Describes(subs', roots'[r].dm, t, g)
  BY <1>2
<1> QED
  BY <1>3

\* The entries of a root manifest: those of a directory have a manifest.
LEMMA RootEntryIs ==
  ASSUME RootsHold, NEW r \in DOMAIN roots, NEW n \in Name, roots[r].dm[n].kind = "dir"
  PROVE  /\ roots[r].dm[n].addr \in DOMAIN subs /\ Contents(roots[r].dm[n].refs) = <<>>
         /\ \A s \in SubName : LET f == subs[roots[r].dm[n].addr].dm[s] IN
              f.kind \in {"none", "file", "link"} /\ (f.kind = "link" => Contents(f.refs) = <<>>)
<1>1. PICK t \in Tree, g \in Nat : Describes(subs, roots[r].dm, t, g)
  BY DEF RootsHold
<1> DEFINE e == roots[r].dm[n]
<1>2. /\ t[n].kind = "dir" /\ e.addr \in DOMAIN subs /\ subs[e.addr].dm = SubOf(t[n].sub, g)
      /\ e.refs = RefsIn(g, t[n].file)
  BY <1>1 DEF Describes
<1>3. t[n] \in Nodes
  BY DEF Tree
<1>4. t[n].file = <<>> /\ t[n].file \in Seq(Chunk) /\ t[n].sub \in [SubName -> Leaves]
  BY <1>2, <1>3, NodeIs
<1>5. Contents(e.refs) = <<>>
  <2>1. Contents(RefsIn(g, t[n].file)) = t[n].file
    BY <1>4, RefsIs
  <2> QED
    BY <2>1, <1>2, <1>4
<1>6. ASSUME NEW s \in SubName
      PROVE  LET f == subs[e.addr].dm[s] IN
               f.kind \in {"none", "file", "link"} /\ (f.kind = "link" => Contents(f.refs) = <<>>)
  <2> DEFINE l == t[n].sub[s]
  <2>1. l \in Leaves
    BY <1>4
  <2>2. subs[e.addr].dm[s] = [kind |-> l.kind, refs |-> RefsIn(g, l.file)]
    BY <1>2 DEF SubOf
  <2> HIDE DEF e, l
  <2>3. l.kind \in {"none", "file", "link"} /\ l.file \in Seq(Chunk) /\ (l.kind # "file" => l.file = <<>>)
    BY <2>1, LeafIs
  <2>4. Contents(RefsIn(g, l.file)) = l.file
    BY <2>3, RefsIs
  <2> QED
    BY <2>2, <2>3, <2>4
<1> QED
  BY <1>2, <1>5, <1>6

\* Of a name that is restored.
LEMMA PlacedKept ==
  ASSUME NEW bs, NEW cs, SubsKept(bs, cs), NEW e, NEW node, Placed(bs, e, node),
         e.kind = "dir" => e.addr \in DOMAIN bs
  PROVE  Placed(cs, e, node)
BY DEF SubsKept, Placed

\* Of the restore under way.
LEMMA RestKept ==
  ASSUME RootsHold, RestHolds, SubsKept(subs, subs'), RootsKept(roots, roots'),
         rest' = rest, dst' = dst
  PROVE  RestHolds'
<1>1. CASE rest = None
  BY <1>1 DEF RestHolds, None
<1>2. CASE rest # None
  <2>1. /\ rest \in [next : Name, addr : Nat, dm : [Name -> Entry]] \cup [next : {N + 1}, addr : Nat]
        /\ rest.addr \in DOMAIN roots
        /\ rest.next \in Name => rest.dm = roots[rest.addr].dm
        /\ \A n \in Name : n < rest.next => Placed(subs, roots[rest.addr].dm[n], dst[n])
    BY <1>2 DEF RestHolds
  <2>2. rest.addr \in DOMAIN roots' /\ roots'[rest.addr].dm = roots[rest.addr].dm
    BY <2>1 DEF RootsKept
  <2>3. ASSUME NEW n \in Name, n < rest.next PROVE Placed(subs', roots'[rest.addr].dm[n], dst[n])
    <3>1. Placed(subs, roots[rest.addr].dm[n], dst[n])
      BY <2>1, <2>3
    <3>2. roots[rest.addr].dm[n].kind = "dir" => roots[rest.addr].dm[n].addr \in DOMAIN subs
      BY <2>1, RootEntryIs
    <3>3. Placed(subs', roots[rest.addr].dm[n], dst[n])
      BY <3>1, <3>2, PlacedKept
    <3> QED
      BY <3>3, <2>2
  <2>4. /\ rest' \in [next : Name, addr : Nat, dm : [Name -> Entry]] \cup [next : {N + 1}, addr : Nat]
        /\ rest'.addr \in DOMAIN roots'
        /\ rest'.next \in Name => rest'.dm = roots'[rest'.addr].dm
        /\ \A n \in Name : n < rest'.next => Placed(subs', roots'[rest'.addr].dm[n], dst'[n])
    BY <2>1, <2>2, <2>3
  <2> QED
    BY <2>4 DEF RestHolds, Name, Entry, Kind, Ref, Chunk
<1> QED
  BY <1>1, <1>2

\* The store starts empty.
LEMMA TreeStarts == TreeInit => TreeInv
<1> SUFFICES ASSUME TreeInit PROVE TreeInv
  OBVIOUS
<1>1. Node(Gone, NoSub) \in Nodes
  BY DEF Nodes, Leaves
<1>2. Empty \in Tree /\ Empty = [n \in Name |-> Empty[n]]
  BY <1>1 DEF Empty, Tree
<1>3. DOMAIN roots = {} /\ DOMAIN saved = {} /\ roots \in Seq(RootBlob) /\ subs \in Seq(SubBlob)
      /\ saved \in Seq([addr : Nat, prev : Nat, tree : Tree, gen : Nat])
  BY DEF TreeInit
<1>4. chunks \in [ok : SUBSET Ref, bad : SUBSET Ref] /\ chunks.ok \cap chunks.bad = {}
  BY DEF TreeInit
<1> QED
  BY <1>2, <1>3, <1>4 DEF TreeInit, TreeInv, TreeTypes, RootsHold, SavedHold, RestHolds

-----------------------------------------------------------------------------
(* Writing. *)

\* The manifest a write starts from, the one it ends with, and where it is put.
OldOf(prev) == IF prev \in DOMAIN roots /\ roots[prev].ok THEN roots[prev].dm ELSE NoEntries
NewOf(prev) ==
  [n \in Name |-> [kind |-> src[n].kind, refs |-> Refs(src[n].file),
                   addr |-> Children(OldOf(prev))[N].at[n]]]
PutOf(prev) ==
  IF prev \in DOMAIN roots /\ roots[prev].ok /\ OldOf(prev) = NewOf(prev)
  THEN [at |-> prev, blobs |-> roots] ELSE PutRoot(NewOf(prev))

\* What a write does, in these terms.
LEMMA WriteIs ==
  ASSUME NEW prev, NEW cut, WriteDirIncremental(prev, cut)
  PROVE  /\ chunks' = PutChunks(ChunksOf(src, cut))
         /\ subs' = Children(OldOf(prev))[cut].blobs
         /\ cut < N => roots' = roots /\ saved' = saved
         /\ ~(cut < N) => /\ roots' = PutOf(prev).blobs
                          /\ saved' = Append(saved, [addr |-> PutOf(prev).at, prev |-> prev,
                                                     tree |-> src, gen |-> gen])
         /\ src' = src /\ dst' = dst /\ gen' = gen /\ rest' = rest /\ escaped' = escaped
BY DEF WriteDirIncremental, OldOf, NewOf, PutOf

\* The manifest it starts from, if there is none too.
LEMMA OldIs ==
  ASSUME TreeTypes, NEW prev
  PROVE  OldOf(prev) \in [Name -> Entry]
<1>1. \A i \in DOMAIN roots : roots[i] \in RootBlob
  BY ElementOfSeq, LenProperties DEF TreeTypes
<1>2. NoEntries \in [Name -> Entry]
  BY DEF NoEntries, Entry, Kind
<1> QED
  BY <1>1, <1>2 DEF OldOf, RootBlob

\* The names of the tree and the references to their files.
LEMMA SrcIs ==
  ASSUME TreeTypes, NEW n \in Name
  PROVE  /\ src[n] \in Nodes /\ src[n].kind \in Kind /\ src[n].file \in Seq(Chunk)
         /\ src[n].sub \in [SubName -> Leaves]
         /\ Refs(src[n].file) = RefsIn(gen, src[n].file) /\ Refs(src[n].file) \in Seq(Ref)
         /\ \A s \in SubName : /\ src[n].sub[s].file \in Seq(Chunk)
                               /\ Refs(src[n].sub[s].file) = RefsIn(gen, src[n].sub[s].file)
                               /\ Refs(src[n].sub[s].file) \in Seq(Ref)
<1>1. src[n] \in Nodes /\ gen \in Nat
  BY DEF TreeTypes, Tree
<1>2. src[n].kind \in Kind /\ src[n].file \in Seq(Chunk) /\ src[n].sub \in [SubName -> Leaves]
  BY <1>1, NodeIs
<1>3. \A s \in SubName : src[n].sub[s].file \in Seq(Chunk)
  BY <1>2, LeafIs
<1>4. ASSUME NEW f \in Seq(Chunk) PROVE Refs(f) = RefsIn(gen, f) /\ Refs(f) \in Seq(Ref)
  BY <1>1, RefsIs DEF Refs, RefsIn
<1> QED
  BY <1>1, <1>2, <1>3, <1>4

\* The new manifest is of the tree being written.
LEMMA NewIs ==
  ASSUME TreeTypes, NEW prev
  PROVE  /\ NewOf(prev) \in [Name -> Entry]
         /\ Describes(Children(OldOf(prev))[N].blobs, NewOf(prev), src, gen)
<1> DEFINE s == Children(OldOf(prev))[N]
           dm == NewOf(prev)
<1>1. N \in Nat /\ N \in 0 .. N /\ Name = 1 .. N
  BY TreeAssumption DEF Name
<1>2. KidsHold(N, s)
  BY <1>1, OldIs, KidsAlwaysHold
<1>3. \A n \in Name : dm[n] = [kind |-> src[n].kind, refs |-> Refs(src[n].file), addr |-> s.at[n]]
  BY DEF NewOf
<1>4. dm = [n \in Name |-> [kind |-> src[n].kind, refs |-> Refs(src[n].file), addr |-> s.at[n]]]
  BY DEF NewOf
<1> HIDE DEF s, dm
<1>5. s.at \in Seq(Nat) /\ Len(s.at) = N
  BY <1>2 DEF KidsHold
<1>6. \A n \in Name : s.at[n] \in Nat
  BY <1>1, <1>5, ElementOfSeq
<1>7. \A n \in Name : [kind |-> src[n].kind, refs |-> Refs(src[n].file), addr |-> s.at[n]] \in Entry
  BY <1>6, SrcIs DEF Entry
<1>8. dm \in [Name -> Entry]
  BY <1>4, <1>7
<1>9. ASSUME NEW n \in Name
      PROVE  /\ dm[n].kind = src[n].kind /\ dm[n].refs = RefsIn(gen, src[n].file)
             /\ src[n].kind # "dir" => dm[n].addr = 0
             /\ src[n].kind = "dir" => /\ dm[n].addr \in DOMAIN s.blobs
                                       /\ s.blobs[dm[n].addr].dm = SubOf(src[n].sub, gen)
                                       /\ Sealed => s.blobs[dm[n].addr].key = n
  <2> DEFINE k == src[n].kind  r == Refs(src[n].file)  a == s.at[n]
  <2>0. dm[n] = [kind |-> k, refs |-> r, addr |-> a]
    BY <1>3
  <2>1. dm[n].kind = k /\ dm[n].refs = r /\ dm[n].addr = a
    <3> HIDE DEF k, r, a
    <3> QED
      BY <2>0
  <2>2. Refs(src[n].file) = RefsIn(gen, src[n].file)
    BY SrcIs
  <2>3. SubManifest(src[n].sub) = SubOf(src[n].sub, gen)
    BY SrcIs, SubManifestIs DEF TreeTypes
  <2>4. /\ src[n].kind # "dir" => s.at[n] = 0
        /\ src[n].kind = "dir" => SubOpens(s.blobs, s.at[n], n) /\ s.blobs[s.at[n]].dm = SubManifest(src[n].sub)
    BY <1>1, <1>2 DEF KidsHold
  <2> QED
    BY <2>1, <2>2, <2>3, <2>4 DEF SubOpens
<1>10. Describes(s.blobs, dm, src, gen)
  BY <1>9 DEF Describes
<1> QED
  BY <1>8, <1>10 DEF s, dm

\* Where it is put.
LEMMA PutIs ==
  ASSUME TreeTypes, NEW prev \in 0 .. Len(roots)
  PROVE  LET put == PutOf(prev) IN
         /\ put.blobs \in Seq(RootBlob) /\ put.at \in DOMAIN put.blobs /\ put.at \in Nat
         /\ put.blobs[put.at].ok /\ put.blobs[put.at].dm = NewOf(prev)
         /\ RootsKept(roots, put.blobs)
         /\ \A i \in DOMAIN put.blobs : i = put.at \/ i \in DOMAIN roots
<1>1. roots \in Seq(RootBlob) /\ NewOf(prev) \in [Name -> Entry]
  BY NewIs DEF TreeTypes
<1>2. CASE prev \in DOMAIN roots /\ roots[prev].ok /\ OldOf(prev) = NewOf(prev)
  <2>1. PutOf(prev).at = prev /\ PutOf(prev).blobs = roots
    BY <1>2 DEF PutOf
  <2>2. roots[prev].dm = NewOf(prev)
    BY <1>2 DEF OldOf
  <2>3. prev \in Nat
    OBVIOUS
  <2> QED
    BY <1>1, <1>2, <2>1, <2>2, <2>3 DEF RootsKept
<1>3. CASE ~(prev \in DOMAIN roots /\ roots[prev].ok /\ OldOf(prev) = NewOf(prev))
  <2>1. PutOf(prev) = PutRoot(NewOf(prev))
    BY <1>3 DEF PutOf
  <2> QED
    BY <2>1, <1>1, PutRootIs DEF RootsKept
<1> QED
  BY <1>2, <1>3

\* The chunks a write stores.
LEMMA ChunksAre ==
  ASSUME TreeTypes, NEW cut \in Name
  PROVE  ChunksOf(src, cut) \in SUBSET Ref
<1> SUFFICES ASSUME NEW c \in ChunksOf(src, cut) PROVE c \in Ref
  OBVIOUS
<1>1. \A n \in 1 .. cut : n \in Name
  BY TreeAssumption DEF Name
<1>2. PICK n \in 1 .. cut :
        c \in RangeOf(Refs(src[n].file)) \cup UNION {RangeOf(Refs(src[n].sub[s].file)) : s \in SubName}
  BY DEF ChunksOf
<1>3. ASSUME NEW r \in Seq(Ref), c \in RangeOf(r) PROVE c \in Ref
  BY <1>3, ElementOfSeq, LenProperties DEF RangeOf
<1> QED
  BY <1>1, <1>2, <1>3, SrcIs

\* A write keeps the invariant, whether it ends or stops half way.
LEMMA WriteKeeps ==
  ASSUME TreeInv, NEW prev \in 0 .. Len(roots), NEW cut \in Name, WriteDirIncremental(prev, cut)
  PROVE  TreeInv'
<1> DEFINE old == OldOf(prev)  put == PutOf(prev)  F == Children(old)  new == ChunksOf(src, cut)
<1>1. TreeTypes /\ RootsHold /\ SavedHold /\ RestHolds /\ ~escaped
  BY DEF TreeInv
<1>2. cut \in 0 .. N /\ N \in 0 .. N /\ N \in Nat /\ (cut < N \/ cut = N) /\ ~(N < N)
  BY TreeAssumption DEF Name
<1>3. KidsHold(cut, F[cut]) /\ KidsHold(N, F[N])
  BY <1>1, <1>2, OldIs, KidsAlwaysHold
<1>4. /\ chunks' = PutChunks(new) /\ subs' = F[cut].blobs
      /\ cut < N => roots' = roots /\ saved' = saved
      /\ ~(cut < N) => /\ roots' = put.blobs
                       /\ saved' = Append(saved, [addr |-> put.at, prev |-> prev, tree |-> src, gen |-> gen])
      /\ src' = src /\ dst' = dst /\ gen' = gen /\ rest' = rest /\ escaped' = escaped
  BY WriteIs
<1>5. /\ put.blobs \in Seq(RootBlob) /\ put.at \in DOMAIN put.blobs /\ put.at \in Nat
      /\ put.blobs[put.at].ok /\ put.blobs[put.at].dm = NewOf(prev)
      /\ RootsKept(roots, put.blobs)
      /\ \A i \in DOMAIN put.blobs : i = put.at \/ i \in DOMAIN roots
  BY <1>1, PutIs
<1>6. Describes(F[N].blobs, NewOf(prev), src, gen)
  BY <1>1, NewIs
<1>7. new \in SUBSET Ref
  BY <1>1, ChunksAre
<1> HIDE DEF old, put, F, new
<1>8. subs' \in Seq(SubBlob) /\ SubsKept(subs, subs')
  BY <1>3, <1>4 DEF KidsHold, SubsGrow, SubsKept
<1>9. RootsKept(roots, roots')
  BY <1>2, <1>4, <1>5 DEF RootsKept
<1>10. chunks' \in [ok : SUBSET Ref, bad : SUBSET Ref] /\ chunks'.ok \cap chunks'.bad = {}
  <2>1. chunks' = [ok |-> chunks.ok \cup new, bad |-> chunks.bad \ new]
    BY <1>4 DEF PutChunks
  <2>2. chunks \in [ok : SUBSET Ref, bad : SUBSET Ref] /\ chunks.ok \cap chunks.bad = {}
    BY <1>1 DEF TreeTypes
  <2> QED
    BY <2>1, <2>2, <1>7
<1>11. RestHolds'
  BY <1>1, <1>4, <1>8, <1>9, RestKept
<1>12. /\ \A i \in DOMAIN saved :
            /\ saved[i].addr \in DOMAIN roots'
            /\ Describes(subs', roots'[saved[i].addr].dm, saved[i].tree, saved[i].gen)
       /\ \A r \in DOMAIN roots : \E t \in Tree, g \in Nat : Describes(subs', roots'[r].dm, t, g)
  BY <1>1, <1>8, <1>9, SavedKept, RootsStayHeld
<1>13. CASE cut < N
  <2>1. roots' = roots /\ saved' = saved
    BY <1>13, <1>4
  <2>2. TreeTypes'
    BY <1>1, <2>1, <1>4, <1>8, <1>10 DEF TreeTypes, Tree, Name, Nodes, Leaves, Leaf, Gone, NoSub, Node, RootBlob, SubBlob, Entry, LeafEntry, Kind, Ref, Chunk
  <2>3. RootsHold' /\ SavedHold'
    <3>1. \A r \in DOMAIN roots' : \E t \in Tree, g \in Nat : Describes(subs', roots'[r].dm, t, g)
      BY <2>1, <1>12
    <3>2. \A i \in DOMAIN saved' :
            /\ saved'[i].addr \in DOMAIN roots'
            /\ Describes(subs', roots'[saved'[i].addr].dm, saved'[i].tree, saved'[i].gen)
      BY <2>1, <1>12
    <3> QED
      BY <3>1, <3>2 DEF RootsHold, SavedHold
  <2> QED
    BY <2>2, <2>3, <1>1, <1>4, <1>11 DEF TreeInv
<1>14. CASE cut = N
  <2> DEFINE entry == [addr |-> put.at, prev |-> prev, tree |-> src, gen |-> gen]
             Saved == [addr : Nat, prev : Nat, tree : Tree, gen : Nat]
  <2>1. roots' = put.blobs /\ saved' = Append(saved, entry) /\ subs' = F[N].blobs
    BY <1>14, <1>2, <1>4
  <2>2. src \in Tree /\ gen \in Nat /\ saved \in Seq(Saved) /\ Len(saved) \in Nat
    BY <1>1, LenProperties DEF TreeTypes
  <2>3. entry \in Saved /\ entry.addr = put.at /\ entry.tree = src /\ entry.gen = gen
    BY <2>2, <1>5
  <2> HIDE DEF entry, Saved
  <2>4. saved' \in Seq(Saved) /\ Len(saved') = Len(saved) + 1 /\ saved'[Len(saved) + 1] = entry
        /\ \A i \in 1 .. Len(saved) : saved'[i] = saved[i]
    BY <2>1, <2>2, <2>3
  <2>5. DOMAIN saved' = 1 .. Len(saved) + 1 /\ DOMAIN saved = 1 .. Len(saved)
    BY <2>2, <2>4, LenProperties
  <2>6. \A i \in DOMAIN saved' : i = Len(saved) + 1 \/ i \in DOMAIN saved
    BY <2>2, <2>5
  <2>7. TreeTypes'
    BY <1>1, <2>1, <2>4, <1>4, <1>5, <1>8, <1>10 DEF TreeTypes, Saved, Tree, Name, Nodes, Leaves, Leaf, Gone, NoSub, Node, RootBlob, SubBlob, Entry, LeafEntry, Kind, Ref, Chunk
  <2>8. Describes(subs', roots'[put.at].dm, src, gen)
    BY <2>1, <1>5, <1>6
  <2>9. \A r \in DOMAIN roots' : \E t \in Tree, g \in Nat : Describes(subs', roots'[r].dm, t, g)
    BY <2>1, <2>2, <2>8, <1>5, <1>12
  <2>10. ASSUME NEW i \in DOMAIN saved'
         PROVE  /\ saved'[i].addr \in DOMAIN roots'
                /\ Describes(subs', roots'[saved'[i].addr].dm, saved'[i].tree, saved'[i].gen)
    <3>1. CASE i = Len(saved) + 1
      <4>1. saved'[i].addr = put.at /\ saved'[i].tree = src /\ saved'[i].gen = gen
        BY <3>1, <2>3, <2>4
      <4> QED
        BY <4>1, <2>1, <2>8, <1>5
    <3>2. CASE i \in DOMAIN saved
      <4>1. saved'[i] = saved[i]
        BY <3>2, <2>4, <2>5
      <4> QED
        BY <3>2, <4>1, <1>12
    <3> QED
      BY <3>1, <3>2, <2>6
  <2>11. RootsHold' /\ SavedHold'
    BY <2>9, <2>10 DEF RootsHold, SavedHold
  <2> QED
    BY <2>7, <2>11, <1>1, <1>4, <1>11 DEF TreeInv
<1> QED
  BY <1>2, <1>13, <1>14

-----------------------------------------------------------------------------
(* Restoring. *)

\* Nothing is written through a link, and a leaf restored without an error is
\* what its entry says.
LeafDone(e, r) ==
  /\ r.through = FALSE
  /\ r.ok /\ e.kind # "none" => r.node.kind = e.kind /\ r.node.file = Contents(e.refs)

\* That is so of any entry that is not a directory, over any name.
LEMMA RestoreLeafIs ==
  ASSUME NEW old, NEW e, e.kind \in {"none", "file", "link"}, e.refs \in Seq(Ref),
         e.kind = "link" => Contents(e.refs) = <<>>
  PROVE  LeafDone(e, RestoreLeaf(old, e))
<1> DEFINE here == Unlinked(old)
           r == RestoreLeaf(old, e)
<1> SUFFICES /\ r.through = FALSE
             /\ r.ok /\ e.kind # "none" => r.node.kind = e.kind /\ r.node.file = Contents(e.refs)
  BY DEF LeafDone
<1>1. here.kind # "link"
  BY DEF Unlinked, Node, Gone, Leaf
<1> HIDE DEF here
<1>2. CASE e.kind = "none"
  <2>1. r = Did(TRUE, old, FALSE)
    BY <1>2 DEF RestoreLeaf
  <2> QED
    BY <2>1, <1>2 DEF Did
<1>3. CASE e.kind = "file"
  <2>1. r = CreateFile(here, e.refs)
    BY <1>3 DEF RestoreLeaf, here
  <2>2. CASE here.kind = "dir"
    <3>1. r = Did(FALSE, here, FALSE)
      BY <2>1, <2>2 DEF CreateFile
    <3> QED
      BY <3>1 DEF Did
  <2>3. CASE here.kind # "dir"
    <3> DEFINE ok == Good(e.refs) = Len(e.refs)
               node == Node(Leaf("file", Plain(e.refs)), NoSub)
    <3>1. r = Did(ok, node, FALSE)
      BY <2>1, <2>3, <1>1 DEF CreateFile
    <3>2. node.kind = "file" /\ node.file = Plain(e.refs)
      BY DEF Node, Leaf
    <3>3. ok => Plain(e.refs) = Contents(e.refs)
      BY WholeIs
    <3> HIDE DEF ok, node
    <3>4. r.through = FALSE /\ r.node = node /\ r.ok = ok
      BY <3>1 DEF Did
    <3> QED
      BY <3>2, <3>3, <3>4, <1>3
  <2> QED
    BY <2>2, <2>3
<1>4. CASE e.kind = "link"
  <2>1. r = MakeSymlink(here)
    BY <1>4 DEF RestoreLeaf, here
  <2>2. CASE here.kind \in {"none", "file"}
    <3> DEFINE node == Node(Leaf("link", <<>>), NoSub)
    <3>1. r = Did(TRUE, node, FALSE)
      BY <2>1, <2>2 DEF MakeSymlink
    <3>2. node.kind = "link" /\ node.file = <<>>
      BY DEF Node, Leaf
    <3> HIDE DEF node
    <3>3. r.through = FALSE /\ r.node = node
      BY <3>1 DEF Did
    <3> QED
      BY <3>2, <3>3, <1>4
  <2>3. CASE here.kind \notin {"none", "file"}
    <3>1. r = Did(FALSE, here, FALSE)
      BY <2>1, <2>3 DEF MakeSymlink
    <3> QED
      BY <3>1 DEF Did
  <2> QED
    BY <2>2, <2>3
<1> QED
  BY <1>2, <1>3, <1>4

\* One directory, with the entries of its manifest.
LEMMA RestoreDirIs ==
  ASSUME NEW old, NEW n, NEW e, e.kind = "dir", Contents(e.refs) = <<>>,
         \A s \in SubName : LET f == subs[e.addr].dm[s] IN
           /\ f.kind \in {"none", "file", "link"} /\ f.refs \in Seq(Ref)
           /\ f.kind = "link" => Contents(f.refs) = <<>>
  PROVE  LET r == RestoreDir(old, n, e) IN r.through = FALSE /\ (r.ok => Placed(subs, e, r.node))
<1> DEFINE here == Unlinked(old)
           kid(s) == RestoreLeaf(Node(here.sub[s], NoSub), subs[e.addr].dm[s])
           kids == [s \in SubName |-> kid(s)]
           r == RestoreDir(old, n, e)
<1>1. here.kind # "link"
  BY DEF Unlinked, Node, Gone, Leaf
<1>2. \A s \in SubName : kids[s] = kid(s)
  OBVIOUS
<1>3. ASSUME NEW s \in SubName
      PROVE  LET f == subs[e.addr].dm[s] IN
             /\ kids[s].through = FALSE
             /\ kids[s].ok /\ f.kind # "none" => kids[s].node.kind = f.kind /\ kids[s].node.file = Contents(f.refs)
  <2> DEFINE f == subs[e.addr].dm[s]  o == Node(here.sub[s], NoSub)
  <2>1. f.kind \in {"none", "file", "link"} /\ f.refs \in Seq(Ref) /\ (f.kind = "link" => Contents(f.refs) = <<>>)
    OBVIOUS
  <2>2. kids[s] = RestoreLeaf(o, f)
    BY <1>2
  <2> HIDE DEF kids, f, o
  <2>3. LeafDone(f, RestoreLeaf(o, f))
    BY <2>1, RestoreLeafIs
  <2>4. LeafDone(f, kids[s])
    BY <2>2, <2>3
  <2> QED
    BY <2>4 DEF LeafDone, f
<1> DEFINE dir == Node(Leaf("dir", <<>>), [s \in SubName |-> Leaf(kids[s].node.kind, kids[s].node.file)])
           all == \A s \in SubName : kids[s].ok
           out == here.kind = "link" \/ \E s \in SubName : kids[s].through
<1>4. r = IF ~SubOpens(subs, e.addr, n) \/ here.kind = "file" THEN Did(FALSE, here, FALSE)
          ELSE Did(all, IF here.kind = "link" THEN here ELSE dir, out)
  BY DEF RestoreDir
<1> HIDE DEF here, kids, r
<1>5. CASE ~SubOpens(subs, e.addr, n) \/ here.kind = "file"
  <2>1. r = Did(FALSE, here, FALSE)
    BY <1>4, <1>5
  <2>2. r.through = FALSE /\ r.ok = FALSE
    BY <2>1 DEF Did
  <2> QED
    BY <2>2 DEF r
<1>6. CASE ~(~SubOpens(subs, e.addr, n) \/ here.kind = "file")
  <2>1. out = FALSE
    BY <1>1, <1>3
  <2>2. r = Did(all, dir, FALSE)
    <3> HIDE DEF all, dir, out
    <3> QED
      BY <1>4, <1>6, <1>1, <2>1
  <2>3. dir.kind = "dir" /\ dir.file = <<>> /\ \A s \in SubName : dir.sub[s] = Leaf(kids[s].node.kind, kids[s].node.file)
    BY DEF Node, Leaf
  <2> HIDE DEF dir
  <2>4. all => Placed(subs, e, dir)
    <3> SUFFICES ASSUME all PROVE Placed(subs, e, dir)
      OBVIOUS
    <3>1. \A s \in SubName : LET f == subs[e.addr].dm[s] IN
            f.kind # "none" => dir.sub[s] = Leaf(f.kind, Contents(f.refs))
      BY <1>3, <2>3
    <3> QED
      BY <3>1, <2>3 DEF Placed
  <2> HIDE DEF all
  <2>5. r.through = FALSE /\ r.node = dir /\ r.ok = all
    BY <2>2 DEF Did
  <2> QED
    BY <2>4, <2>5 DEF r
<1> QED
  BY <1>5, <1>6

\* A link has no content.
LEMMA RootLeafIs ==
  ASSUME RootsHold, NEW r \in DOMAIN roots, NEW n \in Name, roots[r].dm[n].kind = "link"
  PROVE  Contents(roots[r].dm[n].refs) = <<>>
<1>1. PICK t \in Tree, g \in Nat : Describes(subs, roots[r].dm, t, g)
  BY DEF RootsHold
<1>2. t[n].kind = "link" /\ roots[r].dm[n].refs = RefsIn(g, t[n].file)
  BY <1>1 DEF Describes
<1>3. t[n] \in Nodes
  BY DEF Tree
<1>4. t[n].file = <<>> /\ t[n].file \in Seq(Chunk)
  BY <1>2, <1>3, NodeIs
<1>5. Contents(RefsIn(g, t[n].file)) = t[n].file
  BY <1>4, RefsIs
<1> QED
  BY <1>2, <1>4, <1>5

\* The entry of a restore under way.
RestoredBy(n, e, old) == IF e.kind = "dir" THEN RestoreDir(old, n, e) ELSE RestoreLeaf(old, e)

\* The same for any entry of a root manifest.
LEMMA RestoredIs ==
  ASSUME TreeTypes, RootsHold, NEW at \in DOMAIN roots, NEW n \in Name, NEW old
  PROVE  LET e == roots[at].dm[n]  r == RestoredBy(n, e, old) IN
         r.through = FALSE /\ (r.ok => Placed(subs, e, r.node))
<1> DEFINE e == roots[at].dm[n]  r == RestoredBy(n, e, old)
<1>1. roots[at] \in RootBlob /\ \A i \in DOMAIN subs : subs[i] \in SubBlob
  BY ElementOfSeq, LenProperties DEF TreeTypes
<1>2. e \in Entry
  BY <1>1 DEF RootBlob
<1>3. e.kind \in Kind /\ e.refs \in Seq(Ref)
  BY <1>2 DEF Entry
<1>4. CASE e.kind = "dir"
  <2>1. r = RestoreDir(old, n, e)
    BY <1>4 DEF RestoredBy
  <2>2. /\ e.addr \in DOMAIN subs /\ Contents(e.refs) = <<>>
        /\ \A s \in SubName : LET f == subs[e.addr].dm[s] IN
             f.kind \in {"none", "file", "link"} /\ (f.kind = "link" => Contents(f.refs) = <<>>)
    BY <1>4, RootEntryIs
  <2>3. \A s \in SubName : subs[e.addr].dm[s].refs \in Seq(Ref)
    BY <2>2, <1>1 DEF SubBlob, LeafEntry
  <2> HIDE DEF e, r
  <2>4. RestoreDir(old, n, e).through = FALSE /\ (RestoreDir(old, n, e).ok => Placed(subs, e, RestoreDir(old, n, e).node))
    BY <1>4, <2>2, <2>3, RestoreDirIs
  <2> QED
    BY <2>1, <2>4 DEF e, r
<1>5. CASE e.kind # "dir"
  <2>1. r = RestoreLeaf(old, e)
    BY <1>5 DEF RestoredBy
  <2>2. e.kind = "link" => Contents(e.refs) = <<>>
    BY RootLeafIs
  <2> HIDE DEF e, r
  <2>3. e.kind \in {"none", "file", "link"}
    BY <1>3, <1>5 DEF Kind
  <2>4. LeafDone(e, r)
    BY <2>1, <2>2, <2>3, <1>3, RestoreLeafIs
  <2>5. r.ok => Placed(subs, e, r.node)
    BY <2>4, <1>5 DEF Placed, LeafDone
  <2>6. r.through = FALSE
    BY <2>4 DEF LeafDone
  <2> QED
    BY <2>5, <2>6 DEF e, r
<1> QED
  BY <1>4, <1>5

\* Restoring an entry keeps the invariant, whether it succeeds or ends the restore.
LEMMA RestoreKeeps ==
  ASSUME TreeInv, Restoring, RestoreEntry
  PROVE  TreeInv'
<1> DEFINE n == rest.next  e == rest.dm[n]  r == RestoredBy(n, e, dst[n])
<1>1. TreeTypes /\ RootsHold /\ SavedHold /\ RestHolds /\ ~escaped
  BY DEF TreeInv
<1>2. n \in Name /\ rest # None /\ N \in Nat /\ Name = 1 .. N
  BY TreeAssumption DEF Restoring, Name, RestoreEntry
<1>3. /\ rest \in [next : Name, addr : Nat, dm : [Name -> Entry]] \cup [next : {N + 1}, addr : Nat]
      /\ rest.addr \in DOMAIN roots /\ rest.dm = roots[rest.addr].dm
      /\ \A m \in Name : m < n => Placed(subs, roots[rest.addr].dm[m], dst[m])
  BY <1>1, <1>2 DEF RestHolds
<1>4. /\ dst' = [dst EXCEPT ![n] = r.node]
      /\ escaped' = (escaped \/ r.through)
      /\ rest' = IF r.ok /\ n < N THEN [rest EXCEPT !.next = n + 1]
                 ELSE IF r.ok THEN [next |-> N + 1, addr |-> rest.addr] ELSE None
      /\ src' = src /\ chunks' = chunks /\ roots' = roots /\ subs' = subs /\ gen' = gen /\ saved' = saved
  BY DEF RestoreEntry, RestoredBy
<1>5. rest \in [next : Name, addr : Nat, dm : [Name -> Entry]]
  <2>1. N + 1 \notin Name
    BY <1>2
  <2> QED
    BY <1>2, <1>3, <2>1
<1>6. r.through = FALSE /\ (r.ok => Placed(subs, e, r.node))
  <2>1. e = roots[rest.addr].dm[n]
    BY <1>3
  <2> QED
    BY <1>1, <1>2, <1>3, <2>1, RestoredIs
<1>7. dst = [m \in Name |-> dst[m]]
  BY <1>1 DEF TreeTypes
<1>8. e = roots[rest.addr].dm[n]
  BY <1>3
<1> HIDE DEF r, e
<1>9. dst'[n] = r.node /\ (\A m \in Name : m # n => dst'[m] = dst[m]) /\ dst' = [m \in Name |-> dst'[m]]
  BY <1>2, <1>4, <1>7
<1>10. TreeTypes'
  BY <1>1, <1>4, <1>9 DEF TreeTypes, Tree, Name, Nodes, Leaves, Leaf, Gone, NoSub, Node, RootBlob, SubBlob, Entry, LeafEntry, Kind, Ref, Chunk
<1>11. RootsHold' /\ SavedHold'
  <2>1. \A i \in DOMAIN roots' : \E t \in Tree, g \in Nat : Describes(subs', roots'[i].dm, t, g)
    BY <1>1, <1>4 DEF RootsHold
  <2>2. \A i \in DOMAIN saved' :
          /\ saved'[i].addr \in DOMAIN roots'
          /\ Describes(subs', roots'[saved'[i].addr].dm, saved'[i].tree, saved'[i].gen)
    BY <1>1, <1>4 DEF SavedHold
  <2> QED
    BY <2>1, <2>2 DEF RootsHold, SavedHold
<1>12. ~escaped'
  BY <1>1, <1>4, <1>6
<1>13. ASSUME r.ok, NEW m \in Name, m < n + 1 PROVE Placed(subs, roots[rest.addr].dm[m], dst'[m])
  <2>1. CASE m = n
    BY <2>1, <1>6, <1>8, <1>9, <1>13
  <2>2. CASE m # n
    <3>1. m < n
      BY <2>2, <1>2, <1>13
    <3> QED
      BY <3>1, <1>3, <1>9, <2>2
  <2> QED
    BY <2>1, <2>2
<1> HIDE DEF n
<1>14. RestHolds'
  <2>1. CASE ~r.ok
    BY <2>1, <1>4 DEF RestHolds, None
  <2>2. CASE r.ok /\ n < N
    <3>1. rest' = [rest EXCEPT !.next = n + 1] /\ n + 1 \in Name
      BY <2>2, <1>2, <1>4
    <3>2. rest' \in [next : Name, addr : Nat, dm : [Name -> Entry]] /\ rest'.next = n + 1
          /\ rest'.addr = rest.addr /\ rest'.dm = rest.dm
      BY <3>1, <1>5
    <3>3. /\ rest' \in [next : Name, addr : Nat, dm : [Name -> Entry]] \cup [next : {N + 1}, addr : Nat]
          /\ rest'.addr \in DOMAIN roots'
          /\ rest'.next \in Name => rest'.dm = roots'[rest'.addr].dm
          /\ \A m \in Name : m < rest'.next => Placed(subs', roots'[rest'.addr].dm[m], dst'[m])
      BY <3>2, <1>3, <1>4, <1>13, <2>2
    <3> QED
      BY <3>3 DEF RestHolds, Name, Entry, Kind, Ref, Chunk
  <2>3. CASE r.ok /\ ~(n < N)
    <3>1. rest' = [next |-> N + 1, addr |-> rest.addr] /\ n = N
      BY <2>3, <1>2, <1>4
    <3>2. rest' \in [next : {N + 1}, addr : Nat] /\ rest'.next = n + 1 /\ rest'.addr = rest.addr /\ rest'.next \notin Name
      BY <3>1, <1>2, <1>5
    <3>3. /\ rest' \in [next : Name, addr : Nat, dm : [Name -> Entry]] \cup [next : {N + 1}, addr : Nat]
          /\ rest'.addr \in DOMAIN roots'
          /\ rest'.next \in Name => rest'.dm = roots'[rest'.addr].dm
          /\ \A m \in Name : m < rest'.next => Placed(subs', roots'[rest'.addr].dm[m], dst'[m])
      BY <3>2, <1>3, <1>4, <1>13, <2>3
    <3> QED
      BY <3>3 DEF RestHolds, Name, Entry, Kind, Ref, Chunk
  <2> QED
    BY <2>1, <2>2, <2>3
<1> QED
  BY <1>10, <1>11, <1>12, <1>14 DEF TreeInv

-----------------------------------------------------------------------------
(* The invariant. *)

\* A step that leaves what manifests say, and the restore, alone.
LEMMA QuietKeeps ==
  ASSUME TreeInv, TreeTypes', SubsKept(subs, subs'), RootsKept(roots, roots'),
         DOMAIN roots' = DOMAIN roots, saved' = saved, escaped' = escaped, RestHolds'
  PROVE  TreeInv'
<1>1. RootsHold /\ SavedHold /\ ~escaped
  BY DEF TreeInv
<1>2. \A i \in DOMAIN roots' : \E t \in Tree, g \in Nat : Describes(subs', roots'[i].dm, t, g)
  BY <1>1, RootsStayHeld
<1>3. \A i \in DOMAIN saved' :
        /\ saved'[i].addr \in DOMAIN roots'
        /\ Describes(subs', roots'[saved'[i].addr].dm, saved'[i].tree, saved'[i].gen)
  BY <1>1, SavedKept
<1>4. RootsHold' /\ SavedHold'
  BY <1>2, <1>3 DEF RootsHold, SavedHold
<1> QED
  BY <1>1, <1>4 DEF TreeInv

\* A sequence of blobs of which one went bad.
LEMMA DamagedIs ==
  ASSUME NEW S, NEW bs \in Seq(S), NEW i \in DOMAIN bs, [bs[i] EXCEPT !.ok = FALSE] \in S
  PROVE  /\ [bs EXCEPT ![i].ok = FALSE] \in Seq(S)
         /\ DOMAIN [bs EXCEPT ![i].ok = FALSE] = DOMAIN bs
         /\ [bs EXCEPT ![i].ok = FALSE][i] = [bs[i] EXCEPT !.ok = FALSE]
         /\ \A j \in DOMAIN bs : j # i => [bs EXCEPT ![i].ok = FALSE][j] = bs[j]
<1> DEFINE b == [bs[i] EXCEPT !.ok = FALSE]
           cs == [bs EXCEPT ![i] = b]
<1>1. [bs EXCEPT ![i].ok = FALSE] = cs
  OBVIOUS
<1> HIDE DEF b
<1>2. DOMAIN bs = 1 .. Len(bs) /\ Len(bs) \in Nat /\ \A j \in DOMAIN bs : bs[j] \in S
  BY LenProperties, ElementOfSeq
<1>3. b \in S
  BY DEF b
<1>4. DOMAIN cs = DOMAIN bs /\ cs[i] = b /\ \A j \in DOMAIN bs : j # i => cs[j] = bs[j]
  OBVIOUS
<1>5. cs = [j \in 1 .. Len(bs) |-> cs[j]]
  BY <1>2
<1>6. \A j \in 1 .. Len(bs) : cs[j] \in S
  BY <1>2, <1>3, <1>4
<1> HIDE DEF cs
<1>7. cs \in Seq(S)
  BY <1>2, <1>5, <1>6
<1> QED
  BY <1>1, <1>4, <1>7 DEF b

\* Damage to a manifest keeps the invariant.
LEMMA DamageManifestKeeps ==
  ASSUME TreeInv, DamageManifest
  PROVE  TreeInv'
<1>1. TreeTypes /\ RootsHold /\ RestHolds
  BY DEF TreeInv
<1>2. src' = src /\ dst' = dst /\ chunks' = chunks /\ gen' = gen /\ saved' = saved /\ rest' = rest /\ escaped' = escaped
  BY DEF DamageManifest
<1>3. roots \in Seq(RootBlob) /\ subs \in Seq(SubBlob)
      /\ (\A i \in DOMAIN roots : roots[i] \in RootBlob) /\ \A i \in DOMAIN subs : subs[i] \in SubBlob
  BY <1>1, ElementOfSeq, LenProperties DEF TreeTypes
<1>4. roots' \in Seq(RootBlob) /\ subs' \in Seq(SubBlob) /\ DOMAIN roots' = DOMAIN roots
      /\ SubsKept(subs, subs') /\ RootsKept(roots, roots')
  <2>1. CASE \E i \in DOMAIN roots : roots[i].ok /\ roots' = [roots EXCEPT ![i].ok = FALSE] /\ UNCHANGED subs
    <3>1. PICK i \in DOMAIN roots : roots' = [roots EXCEPT ![i].ok = FALSE] /\ subs' = subs
      BY <2>1
    <3>2. [roots[i] EXCEPT !.ok = FALSE] \in RootBlob /\ [roots[i] EXCEPT !.ok = FALSE].dm = roots[i].dm
      BY <1>3 DEF RootBlob
    <3>3. /\ roots' \in Seq(RootBlob) /\ DOMAIN roots' = DOMAIN roots
          /\ roots'[i] = [roots[i] EXCEPT !.ok = FALSE] /\ \A j \in DOMAIN roots : j # i => roots'[j] = roots[j]
      BY <3>1, <3>2, <1>3, DamagedIs
    <3>4. RootsKept(roots, roots') /\ SubsKept(subs, subs')
      BY <3>1, <3>2, <3>3 DEF RootsKept, SubsKept
    <3> QED
      BY <3>1, <3>3, <3>4, <1>3
  <2>2. CASE \E i \in DOMAIN subs : subs[i].ok /\ subs' = [subs EXCEPT ![i].ok = FALSE] /\ UNCHANGED roots
    <3>1. PICK i \in DOMAIN subs : subs' = [subs EXCEPT ![i].ok = FALSE] /\ roots' = roots
      BY <2>2
    <3>2. [subs[i] EXCEPT !.ok = FALSE] \in SubBlob /\ [subs[i] EXCEPT !.ok = FALSE].dm = subs[i].dm
          /\ [subs[i] EXCEPT !.ok = FALSE].key = subs[i].key
      BY <1>3 DEF SubBlob
    <3>3. /\ subs' \in Seq(SubBlob) /\ DOMAIN subs' = DOMAIN subs
          /\ subs'[i] = [subs[i] EXCEPT !.ok = FALSE] /\ \A j \in DOMAIN subs : j # i => subs'[j] = subs[j]
      BY <3>1, <3>2, <1>3, DamagedIs
    <3>4. RootsKept(roots, roots') /\ SubsKept(subs, subs')
      BY <3>1, <3>2, <3>3 DEF RootsKept, SubsKept
    <3> QED
      BY <3>1, <3>3, <3>4, <1>3
  <2> QED
    BY <2>1, <2>2 DEF DamageManifest
<1>5. TreeTypes'
  BY <1>1, <1>2, <1>4 DEF TreeTypes, Tree, Name, Nodes, Leaves, Leaf, Gone, NoSub, Node, RootBlob, SubBlob, Entry, LeafEntry, Kind, Ref, Chunk
<1>6. RestHolds'
  BY <1>1, <1>2, <1>4, RestKept
<1> QED
  BY <1>2, <1>4, <1>5, <1>6, QuietKeeps

\* What is unchanged is kept.
LEMMA SameKept == SubsKept(subs, subs) /\ RootsKept(roots, roots)
BY DEF SubsKept, RootsKept

\* Every step keeps the invariant.
LEMMA TreeSteps == TreeInv /\ [TreeNext]_treeVars => TreeInv'
<1> SUFFICES ASSUME TreeInv, [TreeNext]_treeVars PROVE TreeInv'
  OBVIOUS
<1>1. TreeTypes /\ RootsHold /\ RestHolds
  BY DEF TreeInv
<1>a. ASSUME TreeTypes', subs' = subs, roots' = roots, saved' = saved, escaped' = escaped, RestHolds'
      PROVE  TreeInv'
  <2>1. SubsKept(subs, subs') /\ RootsKept(roots, roots') /\ DOMAIN roots' = DOMAIN roots
    BY <1>a, SameKept
  <2> QED
    BY <2>1, <1>a, QuietKeeps
<1>b. ASSUME subs' = subs, roots' = roots, rest' = rest, dst' = dst PROVE RestHolds'
  <2>1. SubsKept(subs, subs') /\ RootsKept(roots, roots')
    BY <1>b, SameKept
  <2> QED
    BY <2>1, <1>b, <1>1, RestKept
<1>c. ASSUME src' \in Tree, dst' = dst, chunks' \in [ok : SUBSET Ref, bad : SUBSET Ref],
             chunks'.ok \cap chunks'.bad = {}, roots' = roots, subs' = subs, gen' \in Nat, saved' = saved
      PROVE  TreeTypes'
  BY <1>1, <1>c DEF TreeTypes, Tree, Name, Nodes, Leaves, Leaf, Gone, NoSub, Node, RootBlob, SubBlob, Entry, LeafEntry, Kind, Ref, Chunk
<1>d. src \in Tree /\ gen \in Nat /\ chunks \in [ok : SUBSET Ref, bad : SUBSET Ref] /\ chunks.ok \cap chunks.bad = {}
  BY <1>1 DEF TreeTypes
<1>2. ASSUME NEW n \in Name, NEW node \in Nodes, Edit(n, node) PROVE TreeInv'
  <2>1. src' = [src EXCEPT ![n] = node] /\ UNCHANGED <<dst, chunks, roots, subs, gen, saved, rest, escaped>>
    BY <1>2 DEF Edit
  <2>2. src' \in Tree
    BY <2>1, <1>d DEF Tree
  <2>3. TreeTypes'
    BY <1>c, <1>d, <2>1, <2>2
  <2> QED
    BY <1>a, <1>b, <2>1, <2>3
<1>3. ASSUME NEW prev \in 0 .. Len(roots), NEW cut \in Name, WriteDirIncremental(prev, cut) PROVE TreeInv'
  BY <1>3, WriteKeeps
<1>4. ASSUME NEW at \in DOMAIN roots, ReadDirTo(at) PROVE TreeInv'
  <2>1. rest' = [next |-> 1, addr |-> at, dm |-> roots[at].dm]
        /\ UNCHANGED <<src, dst, chunks, roots, subs, gen, saved, escaped>>
    BY <1>4 DEF ReadDirTo
  <2>2. TreeTypes'
    BY <1>c, <1>d, <2>1
  <2>3. roots[at] \in RootBlob /\ at \in Nat
    BY <1>1, ElementOfSeq, LenProperties DEF TreeTypes
  <2>4. 1 \in Name /\ \A n \in Name : ~(n < 1)
    BY TreeAssumption DEF Name
  <2>5. roots[at].dm \in [Name -> Entry]
    BY <2>3 DEF RootBlob
  <2>6. /\ rest' \in [next : Name, addr : Nat, dm : [Name -> Entry]]
        /\ rest'.next = 1 /\ rest'.addr = at /\ rest'.dm = roots[at].dm
    BY <2>1, <2>3, <2>4, <2>5
  <2>7. /\ rest' \in [next : Name, addr : Nat, dm : [Name -> Entry]] \cup [next : {N + 1}, addr : Nat]
        /\ rest'.addr \in DOMAIN roots'
        /\ rest'.next \in Name => rest'.dm = roots'[rest'.addr].dm
        /\ \A n \in Name : n < rest'.next => Placed(subs', roots'[rest'.addr].dm[n], dst'[n])
    BY <2>1, <2>4, <2>6
  <2>8. RestHolds'
    BY <2>7 DEF RestHolds, Name, Entry, Kind, Ref, Chunk
  <2> QED
    BY <1>a, <2>1, <2>2, <2>8
<1>5. ASSUME Restoring, RestoreEntry PROVE TreeInv'
  BY <1>5, RestoreKeeps
<1>6. ASSUME Return PROVE TreeInv'
  <2>1. rest' = None /\ UNCHANGED <<src, dst, chunks, roots, subs, gen, saved, escaped>>
    BY <1>6 DEF Return
  <2>2. TreeTypes'
    BY <1>c, <1>d, <2>1
  <2>3. RestHolds'
    BY <2>1 DEF RestHolds, None
  <2> QED
    BY <1>a, <2>1, <2>2, <2>3
<1>7. ASSUME Rotate PROVE TreeInv'
  <2>1. gen' = gen + 1 /\ UNCHANGED <<src, dst, chunks, roots, subs, saved, rest, escaped>>
    BY <1>7 DEF Rotate
  <2>2. TreeTypes'
    BY <1>c, <1>d, <2>1
  <2> QED
    BY <1>a, <1>b, <2>1, <2>2
<1>8. ASSUME NEW c \in chunks.ok, DamageChunk(c) PROVE TreeInv'
  <2>1. chunks' = [ok |-> chunks.ok \ {c}, bad |-> chunks.bad \cup {c}]
        /\ UNCHANGED <<src, dst, roots, subs, gen, saved, rest, escaped>>
    BY <1>8 DEF DamageChunk
  <2>2. chunks' \in [ok : SUBSET Ref, bad : SUBSET Ref] /\ chunks'.ok \cap chunks'.bad = {}
    BY <2>1, <1>d
  <2>3. TreeTypes'
    BY <1>c, <1>d, <2>1, <2>2
  <2> QED
    BY <1>a, <1>b, <2>1, <2>3
<1>9. ASSUME DamageManifest PROVE TreeInv'
  BY <1>9, DamageManifestKeeps
<1>10. ASSUME UNCHANGED treeVars PROVE TreeInv'
  <2>1. UNCHANGED <<src, dst, chunks, roots, subs, gen, saved, rest, escaped>>
    BY <1>10 DEF treeVars
  <2>2. TreeTypes'
    BY <1>c, <1>d, <2>1
  <2> QED
    BY <1>a, <1>b, <2>1, <2>2
<1> QED
  BY <1>2, <1>3, <1>4, <1>5, <1>6, <1>7, <1>8, <1>9, <1>10 DEF TreeNext

\* Every reachable state of the store satisfies TreeInv (write_dir_incremental,
\* read_dir_to, rotate_convergence, and damage to any blob).
THEOREM TreeInductive == TreeSpec => []TreeInv
<1>1. TreeInit => TreeInv
  BY TreeStarts
<1>2. TreeInv /\ [TreeNext]_treeVars => TreeInv'
  BY TreeSteps
<1> QED
  BY <1>1, <1>2, PTL DEF TreeSpec

-----------------------------------------------------------------------------
(* What a restore leaves. *)

\* A name that is as its entry says is as the tree says.
LEMMA PlacedMatches ==
  ASSUME NEW dm, NEW t \in Tree, NEW g \in Nat, Describes(subs, dm, t, g),
         NEW n \in Name, NEW node, Placed(subs, dm[n], node), t[n].kind # "none"
  PROVE  Matches(node, t[n])
<1> DEFINE e == dm[n]  want == t[n]
<1>1. want \in Nodes
  BY DEF Tree
<1>2. /\ e.kind = want.kind /\ e.refs = RefsIn(g, want.file)
      /\ want.kind = "dir" => subs[e.addr].dm = SubOf(want.sub, g)
  BY DEF Describes
<1>3. want.file \in Seq(Chunk) /\ want.sub \in [SubName -> Leaves] /\ (want.kind # "dir" => want.sub = NoSub)
  BY <1>1, NodeIs
<1>4. Contents(e.refs) = want.file
  BY <1>2, <1>3, RefsIs
<1>5. node.kind = want.kind /\ node.file = want.file
  BY <1>2, <1>4 DEF Placed
<1>6. ASSUME NEW s \in SubName, want.sub[s] # Gone PROVE node.sub[s] = want.sub[s]
  <2> DEFINE l == want.sub[s]
  <2>1. want.kind = "dir"
    BY <1>3, <1>6 DEF NoSub
  <2>2. l \in Leaves
    BY <1>3
  <2>3. subs[e.addr].dm[s] = [kind |-> l.kind, refs |-> RefsIn(g, l.file)]
    BY <1>2, <2>1 DEF SubOf
  <2>4. e.kind = "dir" /\ \A u \in SubName : LET f == subs[e.addr].dm[u] IN
          f.kind # "none" => node.sub[u] = Leaf(f.kind, Contents(f.refs))
    BY <1>2, <2>1 DEF Placed
  <2>5. l # Gone
    BY <1>6
  <2> HIDE DEF l, e
  <2>6. l.file \in Seq(Chunk) /\ l.kind # "none" /\ l = Leaf(l.kind, l.file)
    BY <2>2, <2>5, LeafIs
  <2>7. Contents(RefsIn(g, l.file)) = l.file
    BY <2>6, RefsIs
  <2>8. node.sub[s] = Leaf(l.kind, Contents(RefsIn(g, l.file)))
    BY <2>3, <2>4, <2>6
  <2> QED
    BY <2>6, <2>7, <2>8 DEF l
<1> QED
  BY <1>5, <1>6 DEF Matches

\* What writes returned.
LEMMA SavedIs ==
  ASSUME TreeTypes, NEW i \in DOMAIN saved
  PROVE  saved[i].tree \in Tree /\ saved[i].gen \in Nat /\ saved[i].addr \in Nat
<1> DEFINE Saved == [addr : Nat, prev : Nat, tree : Tree, gen : Nat]
<1>1. saved \in Seq(Saved)
  BY DEF TreeTypes
<1> HIDE DEF Saved
<1>2. saved[i] \in Saved
  BY <1>1, ElementOfSeq, LenProperties
<1> QED
  BY <1>2 DEF Saved

\* The invariant at the end of a restore.
LEMMA RestoreFollows == TreeInv => RestoreIsExact
<1> SUFFICES ASSUME TreeInv PROVE RestoreIsExact
  OBVIOUS
<1>1. TreeTypes /\ SavedHold /\ RestHolds /\ ~escaped
  BY DEF TreeInv
<1>2. ASSUME Done, NEW i \in DOMAIN saved, saved[i].addr = rest.addr,
             NEW n \in Name, saved[i].tree[n].kind # "none"
      PROVE  Matches(dst[n], saved[i].tree[n])
  <2>1. rest.next = N + 1 /\ N \in Nat /\ n \in 1 .. N
    BY <1>2, TreeAssumption DEF Done, Name
  <2>2. rest # None
    <3>1. rest.next # 0
      BY <2>1
    <3>2. None.next = 0
      BY DEF None
    <3> QED
      BY <3>1, <3>2
  <2>3. n < rest.next
    BY <2>1
  <2>4. Placed(subs, roots[rest.addr].dm[n], dst[n])
    BY <1>1, <2>2, <2>3 DEF RestHolds
  <2>5. Describes(subs, roots[rest.addr].dm, saved[i].tree, saved[i].gen)
    BY <1>1, <1>2 DEF SavedHold
  <2>6. saved[i].tree \in Tree /\ saved[i].gen \in Nat
    BY <1>1, SavedIs
  <2> QED
    BY <2>4, <2>5, <2>6, <1>2, PlacedMatches
<1> QED
  BY <1>1, <1>2 DEF RestoreIsExact, RestoreStaysInside

\* A restore that succeeds has put every entry of the tree in place, over
\* whatever an earlier revision left, and none writes through a link
\* (TreeStore::read_dir_to, make_symlink).
THEOREM RestoresAreExact == TreeSpec => []RestoreIsExact
<1>1. TreeInv => RestoreIsExact
  BY RestoreFollows
<1> QED
  BY <1>1, TreeInductive, PTL

-----------------------------------------------------------------------------
(* What an address reads as. *)

\* An intact address reads as the tree its manifest is of.
LEMMA ReadIs ==
  ASSUME TreeTypes, NEW at \in DOMAIN roots, Intact(at), NEW t \in Tree, NEW g \in Nat,
         Describes(subs, roots[at].dm, t, g)
  PROVE  ReadTree(at) = t
<1> DEFINE dm == roots[at].dm
<1>1. roots[at] \in RootBlob /\ \A i \in DOMAIN subs : subs[i] \in SubBlob
  BY ElementOfSeq, LenProperties DEF TreeTypes
<1>2. \A n \in Name : dm[n] \in Entry
  BY <1>1 DEF RootBlob
<1>3. ASSUME NEW f, f.refs \in Seq(Ref), Whole(f), NEW file \in Seq(Chunk), f.refs = RefsIn(g, file)
      PROVE  ReadsLeaf(f) = Leaf(f.kind, file)
  <2>1. Plain(f.refs) = Contents(f.refs)
    BY <1>3, WholeIs DEF Whole
  <2>2. Contents(f.refs) = file
    BY <1>3, RefsIs
  <2> QED
    BY <2>1, <2>2 DEF ReadsLeaf
<1>4. ASSUME NEW n \in Name PROVE ReadNode(n, dm[n]) = t[n]
  <2> DEFINE e == dm[n]  v == t[n]
  <2>1. v \in Nodes
    BY DEF Tree
  <2>2. /\ v = [kind |-> v.kind, file |-> v.file, sub |-> v.sub] /\ v.file \in Seq(Chunk)
        /\ v.sub \in [SubName -> Leaves] /\ (v.kind # "dir" => v.sub = NoSub)
    BY <2>1, NodeIs
  <2>3. /\ e.kind = v.kind /\ e.refs = RefsIn(g, v.file)
        /\ v.kind = "dir" => e.addr \in DOMAIN subs /\ subs[e.addr].dm = SubOf(v.sub, g)
    BY DEF Describes
  <2>4. /\ Whole(e)
        /\ e.kind = "dir" => \A s \in SubName : Whole(subs[e.addr].dm[s])
    BY DEF Intact
  <2>5. e.refs \in Seq(Ref)
    BY <1>2 DEF Entry
  <2>6. ReadsLeaf(e) = Leaf(v.kind, v.file)
    BY <1>3, <2>2, <2>3, <2>4, <2>5
  <2> DEFINE u == IF e.kind # "dir" THEN NoSub ELSE [s \in SubName |-> ReadsLeaf(subs[e.addr].dm[s])]
  <2>7. ReadNode(n, e) = Node(ReadsLeaf(e), u)
    BY DEF ReadNode
  <2> HIDE DEF e, v
  <2>8. u = v.sub
    <3>1. CASE v.kind # "dir"
      BY <3>1, <2>2, <2>3
    <3>2. CASE v.kind = "dir"
      <4>1. ASSUME NEW s \in SubName PROVE ReadsLeaf(subs[e.addr].dm[s]) = v.sub[s]
        <5> DEFINE l == v.sub[s]  f == subs[e.addr].dm[s]
        <5>1. f = [kind |-> l.kind, refs |-> RefsIn(g, l.file)]
          BY <2>3, <3>2 DEF SubOf
        <5>2. l \in Leaves
          BY <2>2
        <5>3. Whole(f)
          BY <2>3, <2>4, <3>2
        <5> HIDE DEF l, f
        <5>4. l.file \in Seq(Chunk) /\ l = Leaf(l.kind, l.file)
          BY <5>2, LeafIs
        <5>5. RefsIn(g, l.file) \in Seq(Ref)
          BY <5>4, RefsIs
        <5>6. f.kind = l.kind /\ f.refs = RefsIn(g, l.file)
          BY <5>1
        <5>7. ReadsLeaf(f) = Leaf(l.kind, l.file)
          BY <1>3, <5>3, <5>4, <5>5, <5>6
        <5> QED
          BY <5>4, <5>7 DEF l, f
      <4>2. u = [s \in SubName |-> v.sub[s]]
        BY <4>1, <3>2, <2>3
      <4>3. v.sub = [s \in SubName |-> v.sub[s]]
        BY <2>2
      <4> QED
        BY <4>2, <4>3
    <3> QED
      BY <3>1, <3>2
  <2> HIDE DEF u
  <2>9. ReadNode(n, e) = Node(Leaf(v.kind, v.file), v.sub)
    BY <2>6, <2>7, <2>8
  <2>10. Node(Leaf(v.kind, v.file), v.sub) = [kind |-> v.kind, file |-> v.file, sub |-> v.sub]
    BY DEF Node, Leaf
  <2>11. ReadNode(n, e) = v
    BY <2>2, <2>9, <2>10
  <2> QED
    BY <2>11 DEF e, v
<1>5. ReadTree(at) = [n \in Name |-> t[n]]
  BY <1>4 DEF ReadTree
<1>6. t = [n \in Name |-> t[n]]
  BY DEF Tree
<1> QED
  BY <1>5, <1>6

\* And so does what a write returned.
LEMMA SavedFollows == TreeInv => SavedStaysItself
<1> SUFFICES ASSUME TreeInv, NEW i \in DOMAIN saved, Intact(saved[i].addr)
             PROVE  ReadTree(saved[i].addr) = saved[i].tree
  BY DEF SavedStaysItself
<1>1. TreeTypes /\ SavedHold
  BY DEF TreeInv
<1>2. saved[i].tree \in Tree /\ saved[i].gen \in Nat
  BY <1>1, SavedIs
<1>3. saved[i].addr \in DOMAIN roots /\ Describes(subs, roots[saved[i].addr].dm, saved[i].tree, saved[i].gen)
  BY <1>1 DEF SavedHold
<1> QED
  BY <1>1, <1>2, <1>3, ReadIs

\* Whether an address is intact, for any contents of the store.
GoodIn(ok, refs) ==
  LET bad == {i \in DOMAIN refs : refs[i] \notin ok} IN
    IF bad = {} THEN Len(refs) ELSE (CHOOSE i \in bad : \A j \in bad : i <= j) - 1
IntactIn(ok, rs, bs, at) ==
  /\ at \in DOMAIN rs /\ rs[at].ok
  /\ \A n \in Name : LET e == rs[at].dm[n] IN
       /\ GoodIn(ok, e.refs) = Len(e.refs)
       /\ e.kind = "dir" => /\ SubOpens(bs, e.addr, n)
                            /\ \A s \in SubName : LET f == bs[e.addr].dm[s] IN
                                 GoodIn(ok, f.refs) = Len(f.refs)

\* After a step.
LEMMA IntactNext ==
  ASSUME IntactIn(chunks'.ok, roots', subs', saved'[Len(saved')].addr)
  PROVE  (Intact(saved[Len(saved)].addr))'
BY DEF Intact, IntactIn, Whole, Good, GoodIn, SubOpens, Name

\* Only a write that ends adds to what was saved.
LEMMA SavedGrows ==
  ASSUME [TreeNext]_treeVars, saved' # saved
  PROVE  \E prev \in 0 .. Len(roots), cut \in Name : WriteDirIncremental(prev, cut) /\ ~(cut < N)
<1>1. \A prev, cut : WriteDirIncremental(prev, cut) /\ cut < N => saved' = saved
  BY DEF WriteDirIncremental
<1> QED
  BY <1>1 DEF TreeNext, treeVars, Edit, ReadDirTo, RestoreEntry, Return, Rotate, DamageChunk, DamageManifest

\* What a finished write has stored.
LEMMA WriteEnds ==
  ASSUME TreeInv, NEW prev \in 0 .. Len(roots), NEW cut \in Name, WriteDirIncremental(prev, cut),
         ~(cut < N)
  PROVE  /\ cut = N
         /\ saved'[Len(saved')] = [addr |-> PutOf(prev).at, prev |-> prev, tree |-> src, gen |-> gen]
         /\ Len(saved') \in DOMAIN saved'
         /\ roots' = PutOf(prev).blobs /\ subs' = Children(OldOf(prev))[N].blobs
         /\ chunks' = [ok |-> chunks.ok \cup ChunksOf(src, N), bad |-> chunks.bad \ ChunksOf(src, N)]
<1> DEFINE entry == [addr |-> PutOf(prev).at, prev |-> prev, tree |-> src, gen |-> gen]
           Saved == [addr : Nat, prev : Nat, tree : Tree, gen : Nat]
<1>1. cut = N
  BY TreeAssumption DEF Name
<1>2. /\ chunks' = PutChunks(ChunksOf(src, cut))
      /\ subs' = Children(OldOf(prev))[cut].blobs
      /\ roots' = PutOf(prev).blobs /\ saved' = Append(saved, entry)
  BY WriteIs
<1>3. TreeTypes
  BY DEF TreeInv
<1>4. saved \in Seq(Saved) /\ src \in Tree /\ gen \in Nat
  BY <1>3 DEF TreeTypes
<1>5. PutOf(prev).at \in Nat /\ prev \in Nat
  BY <1>3, PutIs
<1>6. entry \in Saved
  BY <1>4, <1>5
<1> HIDE DEF Saved, entry
<1>7. saved' \in Seq(Saved) /\ Len(saved') = Len(saved) + 1 /\ saved'[Len(saved) + 1] = entry /\ Len(saved) \in Nat
  BY <1>2, <1>4, <1>6
<1>8. DOMAIN saved' = 1 .. Len(saved) + 1
  BY <1>7, LenProperties
<1>9. Len(saved') \in DOMAIN saved' /\ saved'[Len(saved')] = entry
  BY <1>7, <1>8
<1>10. chunks' = [ok |-> chunks.ok \cup ChunksOf(src, N), bad |-> chunks.bad \ ChunksOf(src, N)]
  BY <1>1, <1>2 DEF PutChunks
<1>11. subs' = Children(OldOf(prev))[N].blobs
  BY <1>1, <1>2
<1> QED
  BY <1>1, <1>2, <1>9, <1>10, <1>11 DEF entry

\* A write that ends leaves all it refers to intact, whatever was bad before.
LEMMA WrittenIsIntact ==
  ASSUME TreeInv, TreeInv', NEW prev \in 0 .. Len(roots), NEW cut \in Name,
         WriteDirIncremental(prev, cut), ~(cut < N)
  PROVE  (Intact(saved[Len(saved)].addr))'
<1> DEFINE put == PutOf(prev)  dm == NewOf(prev)  at == saved'[Len(saved')].addr
           F == Children(OldOf(prev))[N]
<1>1. TreeTypes /\ N \in Nat /\ Name = 1 .. N /\ N \in 0 .. N
  BY TreeAssumption DEF TreeInv, Name
<1>2. /\ saved'[Len(saved')] = [addr |-> put.at, prev |-> prev, tree |-> src, gen |-> gen]
      /\ roots' = put.blobs /\ subs' = F.blobs
      /\ chunks' = [ok |-> chunks.ok \cup ChunksOf(src, N), bad |-> chunks.bad \ ChunksOf(src, N)]
  BY WriteEnds
<1>3. at = put.at
  BY <1>2
<1>4. put.at \in DOMAIN put.blobs /\ put.blobs[put.at].ok /\ put.blobs[put.at].dm = dm
  BY <1>1, PutIs
<1>5. KidsHold(N, F)
  BY <1>1, OldIs, KidsAlwaysHold
<1>6. Describes(F.blobs, dm, src, gen)
  BY <1>1, NewIs
<1>7. \A n \in Name : dm[n].addr = F.at[n]
  <2> DEFINE a(n) == F.at[n]  k(n) == src[n].kind  r(n) == Refs(src[n].file)
  <2>1. dm = [n \in Name |-> [kind |-> k(n), refs |-> r(n), addr |-> a(n)]]
    BY DEF NewOf
  <2> HIDE DEF dm, a, k, r
  <2>2. \A n \in Name : dm[n].addr = a(n)
    BY <2>1
  <2> QED
    BY <2>2 DEF a
<1> HIDE DEF put, dm, F, at
<1>8. at \in DOMAIN roots' /\ roots'[at].ok /\ roots'[at].dm = dm
  BY <1>2, <1>3, <1>4
<1>9. ASSUME NEW file \in Seq(Chunk), RangeOf(Refs(file)) \subseteq ChunksOf(src, N), NEW refs, refs = RefsIn(gen, file)
      PROVE  GoodIn(chunks'.ok, refs) = Len(refs)
  <2>1. refs = Refs(file)
    BY <1>9 DEF Refs, RefsIn
  <2>2. chunks'.ok = chunks.ok \cup ChunksOf(src, N)
    BY <1>2
  <2>3. \A i \in DOMAIN refs : refs[i] \in chunks'.ok
    BY <1>9, <2>1, <2>2 DEF RangeOf
  <2> QED
    BY <2>3 DEF GoodIn
<1>10. ASSUME NEW n \in Name
       PROVE  LET e == dm[n] IN
              /\ GoodIn(chunks'.ok, e.refs) = Len(e.refs)
              /\ e.kind = "dir" => /\ SubOpens(subs', e.addr, n)
                                   /\ \A s \in SubName : LET f == subs'[e.addr].dm[s] IN
                                        GoodIn(chunks'.ok, f.refs) = Len(f.refs)
  <2> DEFINE e == dm[n]
  <2>1. /\ e.kind = src[n].kind /\ e.refs = RefsIn(gen, src[n].file)
        /\ src[n].kind = "dir" => subs'[e.addr].dm = SubOf(src[n].sub, gen)
    BY <1>2, <1>6 DEF Describes
  <2>2. src[n].file \in Seq(Chunk) /\ \A s \in SubName : src[n].sub[s].file \in Seq(Chunk)
    BY <1>1, SrcIs
  <2>3. /\ RangeOf(Refs(src[n].file)) \subseteq ChunksOf(src, N)
        /\ \A s \in SubName : RangeOf(Refs(src[n].sub[s].file)) \subseteq ChunksOf(src, N)
    BY <1>1 DEF ChunksOf
  <2>4. src[n].kind = "dir" => SubOpens(subs', e.addr, n)
    BY <1>1, <1>2, <1>5, <1>7 DEF KidsHold
  <2> HIDE DEF e
  <2>5. GoodIn(chunks'.ok, e.refs) = Len(e.refs)
    BY <1>9, <2>1, <2>2, <2>3
  <2>6. ASSUME src[n].kind = "dir", NEW s \in SubName
        PROVE  GoodIn(chunks'.ok, subs'[e.addr].dm[s].refs) = Len(subs'[e.addr].dm[s].refs)
    <3> DEFINE f == src[n].sub[s].file  r == subs'[e.addr].dm[s].refs
    <3>1. subs'[e.addr].dm[s] = [kind |-> src[n].sub[s].kind, refs |-> RefsIn(gen, f)]
      BY <2>1, <2>6 DEF SubOf
    <3>2. r = RefsIn(gen, f)
      BY <3>1
    <3> HIDE DEF r
    <3>3. GoodIn(chunks'.ok, r) = Len(r)
      BY <1>9, <2>2, <2>3, <3>2
    <3> QED
      BY <3>3 DEF r
  <2> QED
    BY <2>1, <2>4, <2>5, <2>6 DEF e
<1>11. IntactIn(chunks'.ok, roots', subs', at)
  BY <1>8, <1>10 DEF IntactIn
<1> QED
  BY <1>11, IntactNext DEF at

\* A write that returns has stored the tree, and all of it verifies.
LEMMA WritesAreIntact ==
  TreeInv /\ [TreeNext]_treeVars /\ saved' # saved =>
    (saved # <<>> /\ Len(saved) \in DOMAIN saved /\ Intact(saved[Len(saved)].addr))'
<1> SUFFICES ASSUME TreeInv, [TreeNext]_treeVars, saved' # saved
             PROVE  saved' # <<>> /\ Len(saved') \in DOMAIN saved' /\ (Intact(saved[Len(saved)].addr))'
  OBVIOUS
<1>1. PICK prev \in 0 .. Len(roots), cut \in Name : WriteDirIncremental(prev, cut) /\ ~(cut < N)
  BY SavedGrows
<1>2. TreeInv'
  BY TreeSteps
<1>3. Len(saved') \in DOMAIN saved'
  BY <1>1, WriteEnds
<1>4. DOMAIN <<>> = {}
  OBVIOUS
<1>5. saved' # <<>>
  BY <1>3, <1>4
<1> QED
  BY <1>1, <1>2, <1>3, <1>5, WrittenIsIntact

\* What verifies and is of the tree reads back as the tree.
LEMMA LastFollows ==
  SavedStaysItself /\ saved # <<>> /\ Len(saved) \in DOMAIN saved /\ Intact(saved[Len(saved)].addr)
    => LastIsReadable
BY DEF SavedStaysItself, LastIsReadable

-----------------------------------------------------------------------------
(* Writing what is there already. *)

\* Every subdirectory keeps the manifest it has.
KidsSame(old, n, s) ==
  /\ s = [at |-> s.at, blobs |-> subs]
  /\ s.at \in Seq(Nat) /\ Len(s.at) = n
  /\ \A m \in 1 .. n : s.at[m] = old[m].addr

\* One name more.
LEMMA KidSame ==
  ASSUME TreeTypes, NEW old \in [Name -> Entry], Describes(subs, old, src, gen),
         \A m \in Name : old[m].kind = "dir" => SubOpens(subs, old[m].addr, m),
         NEW n \in 1 .. N, NEW s, KidsSame(old, n - 1, s)
  PROVE  KidsSame(old, n, Kid(old, n, s))
<1> DEFINE a == Append(s.at, old[n].addr)  k == Kid(old, n, s)
<1>1. N \in Nat /\ n \in Name /\ n \in Nat \ {0}
  BY TreeAssumption DEF Name
<1>2. s = [at |-> s.at, blobs |-> subs] /\ s.at \in Seq(Nat) /\ Len(s.at) = n - 1
      /\ s.blobs = subs /\ \A m \in 1 .. n - 1 : s.at[m] = old[m].addr
  BY DEF KidsSame
<1>3. old[n].addr \in Nat
  BY <1>1 DEF Entry
<1>4. a \in Seq(Nat) /\ Len(a) = n /\ a[n] = old[n].addr /\ \A m \in 1 .. n - 1 : a[m] = s.at[m]
  BY <1>1, <1>2, <1>3
<1>5. k = [at |-> a, blobs |-> subs]
  <2>1. CASE src[n].kind # "dir"
    <3>1. k = [s EXCEPT !.at = Append(@, 0)]
      BY <2>1 DEF Kid
    <3>2. old[n].addr = 0
      BY <2>1, <1>1 DEF Describes
    <3> QED
      BY <3>1, <3>2, <1>2
  <2>2. CASE src[n].kind = "dir"
    <3> DEFINE dm == SubManifest(src[n].sub)
               was == IF old[n].kind = "dir" THEN old[n].addr ELSE 0
               put == IF Keeps(s.blobs, was, n, dm) THEN [at |-> was, blobs |-> s.blobs]
                      ELSE PutSub(s.blobs, n, dm)
    <3>1. old[n].kind = "dir" /\ subs[old[n].addr].dm = SubOf(src[n].sub, gen)
      BY <2>2, <1>1 DEF Describes
    <3>2. dm = SubOf(src[n].sub, gen)
      BY <1>1, SrcIs, SubManifestIs DEF TreeTypes
    <3>3. was = old[n].addr
      BY <3>1
    <3>4. k = [at |-> Append(s.at, put.at), blobs |-> put.blobs]
      BY <2>2 DEF Kid
    <3> HIDE DEF dm, was
    <3>5. Keeps(s.blobs, was, n, dm)
      BY <1>1, <1>2, <3>1, <3>2, <3>3 DEF Keeps
    <3>6. put = [at |-> was, blobs |-> s.blobs]
      BY <3>5
    <3> HIDE DEF put
    <3>7. put.at = old[n].addr /\ put.blobs = subs
      BY <3>3, <3>6, <1>2
    <3> QED
      BY <3>4, <3>7
  <2> QED
    BY <2>1, <2>2
<1> HIDE DEF a, k
<1>6. k.at = a /\ k = [at |-> k.at, blobs |-> subs]
  BY <1>5
<1>7. \A m \in 1 .. n : a[m] = old[m].addr
  <2> TAKE m \in 1 .. n
  <2>1. m = n \/ m \in 1 .. n - 1
    BY <1>1
  <2> QED
    BY <2>1, <1>2, <1>4
<1> QED
  BY <1>4, <1>6, <1>7 DEF KidsSame, k

\* All of them.
LEMMA KidsAreSame ==
  ASSUME TreeTypes, NEW old \in [Name -> Entry], Describes(subs, old, src, gen),
         \A m \in Name : old[m].kind = "dir" => SubOpens(subs, old[m].addr, m)
  PROVE  KidsSame(old, N, Children(old)[N])
<1> DEFINE F == Children(old)
           Wrong == {n \in 0 .. N : ~KidsSame(old, n, F[n])}
<1>1. /\ F[0] = [at |-> <<>>, blobs |-> subs] /\ N \in Nat
      /\ \A n \in 1 .. N : F[n] = Kid(old, n, F[n - 1])
  BY ChildrenAre, TreeAssumption
<1> HIDE DEF F
<1>2. KidsSame(old, 0, F[0])
  <2> DEFINE s == F[0]
  <2>1. s.at = <<>> /\ s = [at |-> s.at, blobs |-> subs]
    BY <1>1
  <2>2. <<>> \in Seq(Nat) /\ Len(<<>>) = 0 /\ 1 .. 0 = {}
    OBVIOUS
  <2> HIDE DEF s
  <2> QED
    BY <2>1, <2>2 DEF KidsSame, s
<1>3. Wrong = {}
  <2>1. SUFFICES ASSUME Wrong # {} PROVE FALSE
    OBVIOUS
  <2>2. PICK n \in Wrong : \A m \in Wrong : n <= m
    <3>1. Wrong \in SUBSET Nat
      BY <1>1
    <3> HIDE DEF Wrong
    <3> QED
      BY <2>1, <3>1, LeastNat
  <2>3. n \in 0 .. N /\ ~KidsSame(old, n, F[n])
    BY <2>2
  <2>4. n \in 1 .. N /\ n - 1 \in 0 .. N /\ ~(n <= n - 1)
    BY <2>3, <1>1, <1>2
  <2>5. KidsSame(old, n - 1, F[n - 1])
    <3>1. n - 1 \notin Wrong
      <4> HIDE DEF Wrong
      <4> QED
        BY <2>2, <2>4
    <3> QED
      BY <3>1, <2>4
  <2>6. KidsSame(old, n, Kid(old, n, F[n - 1]))
    BY <2>4, <2>5, KidSame
  <2> QED
    BY <2>3, <2>4, <2>6, <1>1
<1>4. N \in 0 .. N
  BY <1>1
<1> QED
  BY <1>3, <1>4 DEF F

\* Every chunk of a tree whose address is intact is there already.
LEMMA ChunksAreThere ==
  ASSUME TreeTypes, NEW at \in DOMAIN roots, Intact(at), Describes(subs, roots[at].dm, src, gen)
  PROVE  ChunksOf(src, N) \subseteq chunks.ok
<1> DEFINE dm == roots[at].dm
<1>1. roots[at] \in RootBlob /\ (\A i \in DOMAIN subs : subs[i] \in SubBlob) /\ gen \in Nat
  BY ElementOfSeq, LenProperties DEF TreeTypes
<1>2. ASSUME NEW refs \in Seq(Ref), Good(refs) = Len(refs) PROVE RangeOf(refs) \subseteq chunks.ok
  BY <1>2, WholeIs DEF RangeOf
<1>3. ASSUME NEW n \in Name
      PROVE  /\ RangeOf(Refs(src[n].file)) \subseteq chunks.ok
             /\ \A s \in SubName : RangeOf(Refs(src[n].sub[s].file)) \subseteq chunks.ok
  <2> DEFINE e == dm[n]
  <2>1. /\ e.kind = src[n].kind /\ e.refs = RefsIn(gen, src[n].file)
        /\ src[n].kind = "dir" => subs[e.addr].dm = SubOf(src[n].sub, gen)
    BY DEF Describes
  <2>2. Whole(e) /\ (e.kind = "dir" => \A s \in SubName : Whole(subs[e.addr].dm[s]))
    BY DEF Intact
  <2>3. /\ Refs(src[n].file) = RefsIn(gen, src[n].file) /\ Refs(src[n].file) \in Seq(Ref)
        /\ \A s \in SubName : /\ Refs(src[n].sub[s].file) = RefsIn(gen, src[n].sub[s].file)
                              /\ Refs(src[n].sub[s].file) \in Seq(Ref)
    BY SrcIs
  <2> HIDE DEF e
  <2>4. RangeOf(Refs(src[n].file)) \subseteq chunks.ok
    BY <1>2, <2>1, <2>2, <2>3 DEF Whole
  <2>5. ASSUME NEW s \in SubName PROVE RangeOf(Refs(src[n].sub[s].file)) \subseteq chunks.ok
    <3>1. CASE src[n].kind = "dir"
      <4> DEFINE r == Refs(src[n].sub[s].file)  f == subs[e.addr].dm[s]
      <4>1. f = [kind |-> src[n].sub[s].kind, refs |-> RefsIn(gen, src[n].sub[s].file)]
        BY <2>1, <3>1 DEF SubOf
      <4>2. f.refs = r /\ Whole(f) /\ r \in Seq(Ref)
        BY <4>1, <2>1, <2>2, <2>3, <3>1
      <4> HIDE DEF r, f
      <4>3. RangeOf(r) \subseteq chunks.ok
        BY <1>2, <4>2 DEF Whole
      <4> QED
        BY <4>3 DEF r
    <3>2. CASE src[n].kind # "dir"
      <4>1. src[n].sub = NoSub
        BY <3>2, SrcIs, NodeIs
      <4>2. src[n].sub[s].file = <<>>
        BY <4>1 DEF NoSub, Gone, Leaf
      <4>3. DOMAIN Refs(src[n].sub[s].file) = {}
        BY <4>2 DEF Refs
      <4> QED
        BY <4>3 DEF RangeOf
    <3> QED
      BY <3>1, <3>2
  <2> QED
    BY <2>4, <2>5
<1>4. \A n \in 1 .. N : n \in Name
  BY DEF Name
<1> QED
  BY <1>3, <1>4 DEF ChunksOf

\* Then the manifest is the old one and nothing is put.
LEMMA UnchangedIsFree ==
  ASSUME TreeInv, NEW prev \in 0 .. Len(roots), NEW cut \in Name, WriteDirIncremental(prev, cut),
         ~(cut < N), Intact(prev), Describes(subs, roots[prev].dm, src, gen)
  PROVE  /\ saved'[Len(saved')].addr = prev
         /\ roots' = roots /\ subs' = subs /\ chunks' = chunks
<1> DEFINE old == OldOf(prev)  dm == NewOf(prev)  s == Children(old)[N]
<1>1. TreeTypes /\ Name = 1 .. N
  BY DEF TreeInv, Name
<1>2. prev \in DOMAIN roots /\ roots[prev].ok
  BY DEF Intact
<1>3. old = roots[prev].dm /\ old \in [Name -> Entry]
  BY <1>1, <1>2, OldIs DEF OldOf
<1>4. \A m \in Name : old[m].kind = "dir" => SubOpens(subs, old[m].addr, m)
  BY <1>3 DEF Intact
<1>5. KidsSame(old, N, s)
  BY <1>1, <1>3, <1>4, KidsAreSame
<1>6. s.blobs = subs /\ \A m \in Name : s.at[m] = old[m].addr
  BY <1>1, <1>5 DEF KidsSame
<1>7. dm = old
  <2>1. dm = [n \in Name |-> [kind |-> src[n].kind, refs |-> Refs(src[n].file), addr |-> s.at[n]]]
    BY DEF NewOf
  <2> HIDE DEF dm, old, s
  <2>2. ASSUME NEW n \in Name
        PROVE  [kind |-> src[n].kind, refs |-> Refs(src[n].file), addr |-> s.at[n]] = old[n]
    <3>1. old[n].kind = src[n].kind /\ old[n].refs = RefsIn(gen, src[n].file)
      BY <1>3 DEF Describes
    <3>2. Refs(src[n].file) = RefsIn(gen, src[n].file)
      BY <1>1, SrcIs
    <3>3. old[n] \in [kind : Kind, refs : Seq(Ref), addr : Nat]
      BY <1>3 DEF Entry
    <3>4. old[n] = [kind |-> old[n].kind, refs |-> old[n].refs, addr |-> old[n].addr]
      BY <3>3
    <3> QED
      BY <3>1, <3>2, <3>4, <1>6
  <2>3. old = [n \in Name |-> old[n]]
    BY <1>3
  <2> QED
    BY <2>1, <2>2, <2>3
<1>8. PutOf(prev) = [at |-> prev, blobs |-> roots]
  BY <1>2, <1>7 DEF PutOf
<1>9. /\ saved'[Len(saved')] = [addr |-> PutOf(prev).at, prev |-> prev, tree |-> src, gen |-> gen]
      /\ roots' = PutOf(prev).blobs /\ subs' = s.blobs
      /\ chunks' = [ok |-> chunks.ok \cup ChunksOf(src, N), bad |-> chunks.bad \ ChunksOf(src, N)]
  BY WriteEnds
<1>10. chunks' = chunks
  <2>1. ChunksOf(src, N) \subseteq chunks.ok
    BY <1>1, <1>2, ChunksAreThere
  <2>2. chunks \in [ok : SUBSET Ref, bad : SUBSET Ref] /\ chunks.ok \cap chunks.bad = {}
    BY <1>1 DEF TreeTypes
  <2>3. chunks.ok \cup ChunksOf(src, N) = chunks.ok /\ chunks.bad \ ChunksOf(src, N) = chunks.bad
    BY <2>1, <2>2
  <2>4. chunks = [ok |-> chunks.ok, bad |-> chunks.bad]
    BY <2>2
  <2> QED
    BY <1>9, <2>3, <2>4
<1> HIDE DEF s, old, dm
<1> QED
  BY <1>6, <1>8, <1>9, <1>10

\* In terms of what was saved.
LEMMA UnchangedStep ==
  ASSUME TreeInv, [TreeNext]_treeVars, saved' # saved, NEW i \in DOMAIN saved,
         saved[i].addr = saved'[Len(saved')].prev, Intact(saved'[Len(saved')].prev),
         saved[i].tree = saved'[Len(saved')].tree, saved[i].gen = saved'[Len(saved')].gen
  PROVE  /\ saved'[Len(saved')].addr = saved'[Len(saved')].prev
         /\ roots' = roots /\ subs' = subs /\ chunks' = chunks
<1>1. PICK prev \in 0 .. Len(roots), cut \in Name : WriteDirIncremental(prev, cut) /\ ~(cut < N)
  BY SavedGrows
<1>2. saved'[Len(saved')] = [addr |-> PutOf(prev).at, prev |-> prev, tree |-> src, gen |-> gen]
  BY <1>1, WriteEnds
<1>3. saved'[Len(saved')].prev = prev /\ saved'[Len(saved')].tree = src /\ saved'[Len(saved')].gen = gen
  BY <1>2
<1>4. Describes(subs, roots[saved[i].addr].dm, saved[i].tree, saved[i].gen)
  BY DEF TreeInv, SavedHold
<1>5. Describes(subs, roots[prev].dm, src, gen) /\ Intact(prev)
  BY <1>3, <1>4
<1> QED
  BY <1>1, <1>3, <1>5, UnchangedIsFree

\* The store keeps trees: what a write returned reads back as that tree then
\* and ever after, whatever went bad before or was written, rotated or damaged
\* since, and an unchanged tree is not stored again (write_dir_incremental,
\* BlobStore::put).
THEOREM StoreKeepsTrees == TreeSpec => TreesAreKept
<1>1. TreeInv /\ [TreeNext]_treeVars => [saved' # saved => LET s == saved'[Len(saved')] IN
         \A i \in DOMAIN saved :
           /\ saved[i].addr = s.prev /\ Intact(s.prev)
           /\ saved[i].tree = s.tree /\ saved[i].gen = s.gen
           => s.addr = s.prev /\ roots' = roots /\ subs' = subs /\ chunks' = chunks]_treeVars
  BY UnchangedStep
<1>2. TreeSpec => UnchangedCostsNothing
  BY <1>1, TreeInductive, PTL DEF TreeSpec, UnchangedCostsNothing
<1>3. TreeInv => SavedStaysItself
  BY SavedFollows
<1>4. TreeSpec => RoundTrip
  BY <1>3, WritesAreIntact, LastFollows, TreeInductive, PTL DEF TreeSpec, RoundTrip
<1>5. TreeSpec => []SavedStaysItself
  BY <1>3, TreeInductive, PTL
<1> QED
  BY <1>2, <1>4, <1>5 DEF TreesAreKept

-----------------------------------------------------------------------------
(* The collector: PeerGC. *)

\* The clock difference sweep decisions compare is a natural number.
LEMMA SinceType ==
  ASSUME NEW s \in Nat, now \in Nat
  PROVE  SaturatingSince(s) \in Nat
BY DEF SaturatingSince

\* An entry stamped later has been idle for no longer.
LEMMA SinceMonotone ==
  ASSUME NEW s \in Nat, NEW t \in Nat, now \in Nat, s <= t
  PROVE  SaturatingSince(t) <= SaturatingSince(s)
BY DEF SaturatingSince

\* Initially nothing is held and nothing is promised.
LEMMA InitIndInv == Init => IndInv
<1> SUFFICES ASSUME Init PROVE IndInv
  OBVIOUS
<1> USE ConstantsAssumption
<1>1. TypeOK
  BY DEF Init, TypeOK, LeaseEntry
<1>2. AcknowledgedLeasesAreKept
  BY DEF Init, AcknowledgedLeasesAreKept
<1>3. AcknowledgedRetentionIsKept
  BY DEF Init, AcknowledgedRetentionIsKept
<1>4. ExecutionsWereDecided /\ mtime = handed
  BY DEF Init, ExecutionsWereDecided
<1> QED
  BY <1>1, <1>2, <1>3, <1>4 DEF IndInv

\* Putting or proving a blob moves its mtime and its history together.
LEMMA BlobStep ==
  ASSUME IndInv, NEW a \in Addr, PutBlob(a) \/ Prove(a)
  PROVE  IndInv'
<1> USE DEF IndInv, blobVars, leaseVars, floorVars, trailVars
<1>1. TypeOK'
  BY DEF PutBlob, Prove, TypeOK
<1>2. AcknowledgedLeasesAreKept'
  BY DEF PutBlob, Prove, AcknowledgedLeasesAreKept
<1>3. AcknowledgedRetentionIsKept' /\ ExecutionsWereDecided'
  BY DEF PutBlob, Prove, AcknowledgedRetentionIsKept, ExecutionsWereDecided
<1>4. (mtime = handed)'
  BY DEF PutBlob, Prove
<1> QED
  BY <1>1, <1>2, <1>3, <1>4

\* After persist_leases, failed or not, every file is the new memory or the
\* file that was there.
LEMMA PersistedEntry ==
  ASSUME PersistLeases \/ PersistLeasesFails, TypeOK, leases' \in [Holder -> LeaseEntry]
  PROVE  /\ leasesDisk' \in [Holder -> LeaseEntry]
         /\ \A h \in Holder : leasesDisk'[h] \in {leases'[h], leasesDisk[h]}
         /\ faults' \in Nat
<1> USE DEF TypeOK
<1>1. CASE PersistLeases
  BY <1>1 DEF PersistLeases, WriteSucceeds
<1>2. CASE PersistLeasesFails
  BY <1>2 DEF PersistLeasesFails, WriteFails
<1> QED
  BY <1>1, <1>2

\* A take leaves every acknowledged lease where it was or stamps it now.
LEMMA TakeStep ==
  ASSUME IndInv, NEW h \in Holder, NEW S \in SUBSET Addr, TakeLease(h, S)
  PROVE  IndInv'
<1> USE DEF IndInv, blobVars, leaseVars, floorVars, trailVars
<1>0. now \in Nat /\ relySince[h] \in Nat /\ Earlier(relySince[h], now) \in Nat
  BY DEF TypeOK, Earlier
<1>1. leases' = [leases EXCEPT ![h] = [set |-> leases[h].set \cup S, seen |-> now]]
  BY DEF TakeLease
<1>2. leases' \in [Holder -> LeaseEntry]
  BY <1>1, <1>0 DEF TypeOK, LeaseEntry
<1>3. PersistLeases \/ PersistLeasesFails
  BY DEF TakeLease
<1>4. /\ leasesDisk' \in [Holder -> LeaseEntry]
      /\ \A x \in Holder : leasesDisk'[x] \in {leases'[x], leasesDisk[x]}
      /\ faults' \in Nat
  BY <1>2, <1>3, PersistedEntry
<1>5. TypeOK'
  BY <1>0, <1>2, <1>4 DEF TakeLease, TypeOK
<1>6. AcknowledgedLeasesAreKept'
  <2>1. CASE /\ PersistLeases
             /\ relied' = [relied EXCEPT ![h] = @ \cup S]
             /\ relySince' = [relySince EXCEPT ![h] = now]
    <3>1. leasesDisk' = leases'
      BY <2>1 DEF PersistLeases
    <3>2. SUFFICES ASSUME NEW x \in Holder, relied'[x] # {}
                   PROVE  relied'[x] \subseteq leases'[x].set /\ relySince'[x] <= leases'[x].seen
      BY <3>1 DEF AcknowledgedLeasesAreKept
    <3>3. CASE x = h
      <4>1. relied[h] \subseteq leases[h].set
        BY DEF AcknowledgedLeasesAreKept
      <4> QED
        BY <2>1, <3>3, <1>1, <1>0, <4>1 DEF TypeOK
    <3>4. CASE x # h
      BY <2>1, <3>2, <3>4, <1>1 DEF TypeOK, AcknowledgedLeasesAreKept
    <3> QED
      BY <3>3, <3>4
  <2>2. CASE /\ PersistLeasesFails
             /\ relySince' = [relySince EXCEPT ![h] = Earlier(@, now)]
             /\ UNCHANGED relied
    <3>1. SUFFICES ASSUME NEW x \in Holder, relied'[x] # {},
                          NEW e \in {leases'[x], leasesDisk[x]}
                   PROVE  relied'[x] \subseteq e.set /\ relySince'[x] <= e.seen
      BY <1>4 DEF AcknowledgedLeasesAreKept
    <3>2. /\ relied[x] \subseteq leases[x].set /\ relied[x] \subseteq leasesDisk[x].set
          /\ relySince[x] <= leases[x].seen /\ relySince[x] <= leasesDisk[x].seen
      BY <2>2, <3>1 DEF AcknowledgedLeasesAreKept
    <3>3. CASE x = h
      <4>1. relySince'[h] = Earlier(relySince[h], now)
        BY <2>2 DEF TypeOK
      <4>2. /\ Earlier(relySince[h], now) <= now
            /\ Earlier(relySince[h], now) <= relySince[h]
        BY <1>0 DEF Earlier
      <4>3. leases'[h] = [set |-> leases[h].set \cup S, seen |-> now]
        BY <1>1 DEF TypeOK
      <4>4. leasesDisk[h].seen \in Nat
        BY DEF TypeOK, LeaseEntry
      <4>5. CASE e = leases'[h]
        BY <2>2, <3>2, <3>3, <4>1, <4>2, <4>3, <4>5
      <4>6. CASE e = leasesDisk[h]
        BY <2>2, <3>2, <3>3, <4>1, <4>2, <4>4, <4>6, <1>0
      <4> QED
        BY <3>1, <3>3, <4>5, <4>6
    <3>4. CASE x # h
      BY <2>2, <3>1, <3>2, <3>4, <1>1 DEF TypeOK
    <3> QED
      BY <3>3, <3>4
  <2> QED
    BY <2>1, <2>2 DEF TakeLease
<1>7. AcknowledgedRetentionIsKept' /\ ExecutionsWereDecided' /\ (mtime = handed)'
  BY DEF TakeLease, AcknowledgedRetentionIsKept, ExecutionsWereDecided
<1> QED
  BY <1>5, <1>6, <1>7

\* A release takes an address from what is relied on whatever the answer, so
\* the entry that stays behind on disk still covers the rest.
LEMMA ReleaseStep ==
  ASSUME IndInv, NEW h \in Holder, NEW S \in SUBSET Addr, ReleaseLease(h, S)
  PROVE  IndInv'
<1> USE DEF IndInv, blobVars, leaseVars, floorVars, trailVars
<1> DEFINE stamp == relySince'[h]
<1>0. now \in Nat /\ relySince[h] \in Nat /\ Earlier(relySince[h], now) \in Nat
  BY DEF TypeOK, Earlier
<1>1. /\ leases' = [leases EXCEPT ![h] = [set |-> leases[h].set \ S, seen |-> now]]
      /\ relied' = [relied EXCEPT ![h] = relied[h] \ S]
  BY DEF ReleaseLease
<1>2. leases' \in [Holder -> LeaseEntry]
  BY <1>1, <1>0 DEF TypeOK, LeaseEntry
<1>3. \/ PersistLeases /\ relySince' = [relySince EXCEPT ![h] = now]
      \/ PersistLeasesFails /\ relySince' = [relySince EXCEPT ![h] = Earlier(relySince[h], now)]
  BY DEF ReleaseLease
<1>4. /\ leasesDisk' \in [Holder -> LeaseEntry]
      /\ \A x \in Holder : leasesDisk'[x] \in {leases'[x], leasesDisk[x]}
      /\ faults' \in Nat
  BY <1>2, <1>3, PersistedEntry
<1>5. TypeOK'
  BY <1>0, <1>1, <1>2, <1>3, <1>4 DEF ReleaseLease, TypeOK
<1>6. AcknowledgedLeasesAreKept'
  <2>1. SUFFICES ASSUME NEW x \in Holder, relied'[x] # {},
                        NEW e \in {leases'[x], leasesDisk'[x]}
                 PROVE  relied'[x] \subseteq e.set /\ relySince'[x] <= e.seen
    BY DEF AcknowledgedLeasesAreKept
  <2>2. relied[x] # {}
    BY <1>1, <2>1 DEF TypeOK
  <2>3. /\ relied[x] \subseteq leases[x].set /\ relied[x] \subseteq leasesDisk[x].set
        /\ relySince[x] <= leases[x].seen /\ relySince[x] <= leasesDisk[x].seen
    BY <2>2 DEF AcknowledgedLeasesAreKept
  <2>4. CASE x # h
    BY <1>1, <1>3, <1>4, <2>1, <2>3, <2>4 DEF TypeOK
  <2>5. CASE x = h
    <3>1. /\ leases'[h] = [set |-> leases[h].set \ S, seen |-> now]
          /\ relied'[h] = relied[h] \ S
      BY <1>1 DEF TypeOK
    <3>2. CASE PersistLeases /\ relySince' = [relySince EXCEPT ![h] = now]
      <4>1. relySince'[h] = now /\ leasesDisk' = leases'
        BY <3>2 DEF TypeOK, PersistLeases
      <4> QED
        BY <1>0, <2>1, <2>3, <2>5, <3>1, <4>1
    <3>3. CASE relySince' = [relySince EXCEPT ![h] = Earlier(relySince[h], now)]
      <4>1. relySince'[h] = Earlier(relySince[h], now)
        BY <3>3 DEF TypeOK
      <4>2. /\ Earlier(relySince[h], now) <= now
            /\ Earlier(relySince[h], now) <= relySince[h]
        BY <1>0 DEF Earlier
      <4>3. leasesDisk[h].seen \in Nat
        BY DEF TypeOK, LeaseEntry
      <4>4. CASE e = leases'[h]
        BY <2>3, <2>5, <3>1, <4>1, <4>2, <4>4
      <4>5. CASE e = leasesDisk[h]
        BY <1>0, <2>3, <2>5, <3>1, <4>1, <4>2, <4>3, <4>5
      <4> QED
        BY <1>4, <2>1, <2>5, <4>4, <4>5
    <3> QED
      BY <1>3, <3>2, <3>3
  <2> QED
    BY <2>4, <2>5
<1>7. AcknowledgedRetentionIsKept' /\ ExecutionsWereDecided' /\ (mtime = handed)'
  BY DEF ReleaseLease, AcknowledgedRetentionIsKept, ExecutionsWereDecided
<1> QED
  BY <1>5, <1>6, <1>7

\* Growing the floor, replacing it by a superset, or lowering it together
\* with what is promised keeps every promise in memory and on disk.
LEMMA RetentionStep ==
  ASSUME IndInv, NEW S \in SUBSET Addr,
         \/ ExtendRetention(S)
         \/ PublishRetention(S)
         \/ \E r \in Request : ForgetRetention(S, r)
  PROVE  IndInv'
<1> USE DEF IndInv, blobVars, leaseVars, floorVars, trailVars
<1>1. UNCHANGED <<blobs, mtime, handed, leases, leasesDisk, relied, relySince,
                  executions, executionsDisk, authorised, now>>
  BY DEF ExtendRetention, PublishRetention, StoreRetention, ForgetRetention
<1>2. PersistRetention \/ PersistRetentionFails
  BY DEF ExtendRetention, PublishRetention, StoreRetention, ForgetRetention
<1>3. retention' \in SUBSET Addr /\ promised' \in SUBSET Addr
  BY DEF ExtendRetention, PublishRetention, StoreRetention, ForgetRetention, TypeOK
<1>4. retentionDisk' \in {retention', retentionDisk} /\ faults' \in Nat
  BY <1>2 DEF PersistRetention, PersistRetentionFails, WriteSucceeds, WriteFails, TypeOK
<1>5. TypeOK'
  BY <1>1, <1>3, <1>4 DEF TypeOK
<1>6. AcknowledgedRetentionIsKept'
  <2>1. SUFFICES ASSUME ~IgnoreRetention
                 PROVE  promised' \subseteq retention' \cap retentionDisk'
    BY DEF AcknowledgedRetentionIsKept
  <2>2. promised \subseteq retention /\ promised \subseteq retentionDisk
    BY <2>1 DEF AcknowledgedRetentionIsKept
  <2>3. CASE ExtendRetention(S)
    BY <2>2, <2>3 DEF ExtendRetention, StoreRetention, PersistRetention, PersistRetentionFails
  <2>4. CASE PublishRetention(S)
    BY <2>1, <2>2, <2>4 DEF PublishRetention, StoreRetention, PersistRetention, PersistRetentionFails
  <2>5. CASE \E r \in Request : ForgetRetention(S, r)
    BY <2>2, <2>5 DEF ForgetRetention, PersistRetention, PersistRetentionFails
  <2> QED
    BY <2>3, <2>4, <2>5
<1>7. AcknowledgedLeasesAreKept' /\ ExecutionsWereDecided' /\ (mtime = handed)'
  BY <1>1 DEF AcknowledgedLeasesAreKept, ExecutionsWereDecided
<1> QED
  BY <1>5, <1>6, <1>7

\* An execution reaches memory or disk only once decided.
LEMMA ExecuteStep ==
  ASSUME IndInv, NEW r \in Request, ExecuteDelete(r)
  PROVE  IndInv'
<1> USE DEF IndInv, blobVars, leaseVars, floorVars, trailVars
<1>1. TypeOK'
  BY DEF ExecuteDelete, WriteSucceeds, WriteFails, TypeOK
<1>2. ExecutionsWereDecided'
  BY DEF ExecuteDelete, ExecutionsWereDecided
<1>3. AcknowledgedLeasesAreKept' /\ AcknowledgedRetentionIsKept' /\ (mtime = handed)'
  BY DEF ExecuteDelete, AcknowledgedLeasesAreKept, AcknowledgedRetentionIsKept
<1> QED
  BY <1>1, <1>2, <1>3

\* The sweep touches neither leases nor floor, a restart reloads what the
\* invariant says of the disk, and the clock moves nothing else.
LEMMA EnvironmentStep ==
  ASSUME IndInv, Sweep \/ Restart \/ ClockMoves
  PROVE  IndInv'
<1> USE DEF IndInv, blobVars, leaseVars, floorVars, trailVars
<1>1. CASE Sweep
  <2>1. TypeOK'
    BY <1>1 DEF Sweep, WriteSucceeds, WriteFails, TypeOK
  <2>2. AcknowledgedLeasesAreKept' /\ AcknowledgedRetentionIsKept'
    BY <1>1 DEF Sweep, AcknowledgedLeasesAreKept, AcknowledgedRetentionIsKept
  <2>3. ExecutionsWereDecided' /\ (mtime = handed)'
    BY <1>1 DEF Sweep, ExecutionsWereDecided
  <2> QED
    BY <2>1, <2>2, <2>3
<1>2. CASE Restart
  <2>1. TypeOK'
    BY <1>2 DEF Restart, TypeOK
  <2>2. AcknowledgedLeasesAreKept' /\ AcknowledgedRetentionIsKept'
    BY <1>2 DEF Restart, AcknowledgedLeasesAreKept, AcknowledgedRetentionIsKept
  <2>3. ExecutionsWereDecided' /\ (mtime = handed)'
    BY <1>2 DEF Restart, ExecutionsWereDecided
  <2> QED
    BY <2>1, <2>2, <2>3
<1>3. CASE ClockMoves
  <2>1. TypeOK'
    BY <1>3 DEF ClockMoves, TypeOK
  <2>2. AcknowledgedLeasesAreKept' /\ AcknowledgedRetentionIsKept'
    BY <1>3 DEF ClockMoves, AcknowledgedLeasesAreKept, AcknowledgedRetentionIsKept
  <2>3. ExecutionsWereDecided' /\ (mtime = handed)'
    BY <1>3 DEF ClockMoves, ExecutionsWereDecided
  <2> QED
    BY <2>1, <2>2, <2>3
<1> QED
  BY <1>1, <1>2, <1>3

\* IndInv is inductive.
LEMMA StepIndInv == IndInv /\ [Next]_vars => IndInv'
<1> SUFFICES ASSUME IndInv, [Next]_vars PROVE IndInv'
  OBVIOUS
<1>1. CASE Next
  BY <1>1, BlobStep, TakeStep, ReleaseStep, RetentionStep, ExecuteStep, EnvironmentStep
     DEF Next
<1>2. CASE UNCHANGED vars
  BY <1>2 DEF vars, blobVars, leaseVars, floorVars, trailVars, IndInv, TypeOK,
       AcknowledgedLeasesAreKept, AcknowledgedRetentionIsKept, ExecutionsWereDecided
<1> QED
  BY <1>1, <1>2

\* PeerGC keeps IndInv for every instance.
THEOREM Inductive == Spec => []IndInv
BY InitIndInv, StepIndInv, PTL DEF Spec

\* Only a sweep removes a blob.
LEMMA OnlySweepRemoves ==
  ASSUME [Next]_vars, blobs \ blobs' # {}
  PROVE  Sweep
BY DEF Next, vars, blobVars, PutBlob, Prove, TakeLease, ReleaseLease, ExtendRetention,
       PublishRetention, StoreRetention, ForgetRetention, ExecuteDelete, Restart, ClockMoves

\* Whatever a sweep removes, the invariant makes it removable in the eyes of
\* every client: off the acknowledged floor, past its grace, and relied on
\* by nobody within expiry and notice.
LEMMA SweptIsCollectable ==
  ASSUME IndInv, Sweep, NEW a \in blobs \ blobs'
  PROVE  /\ ~IgnoreRetention => a \notin promised
         /\ SaturatingSince(handed[a]) >= Grace
         /\ \A h \in Holder :
              a \in relied[h] => SaturatingSince(relySince[h]) > LeaseExpiry + Notice
<1> USE ConstantsAssumption
<1>0. TypeOK /\ now \in Nat /\ a \in Addr
  BY DEF IndInv, TypeOK
<1>1. a \in PlanDelete /\ MayDelete(a)
  BY DEF Sweep
<1>2. ~IgnoreRetention => a \notin promised
  BY <1>1 DEF MayDelete, IndInv, AcknowledgedRetentionIsKept
<1>3. SaturatingSince(handed[a]) >= Grace
  <2>1. handed[a] \in Nat
    BY <1>0 DEF TypeOK
  <2>2. SaturatingSince(handed[a]) \in Nat
    BY <2>1, <1>0, SinceType
  <2>3. ~(SaturatingSince(handed[a]) < Grace)
    BY <1>1 DEF PlanDelete, AtRisk, KeptByAge, IndInv
  <2> QED
    BY <2>2, <2>3
<1>4. ASSUME NEW h \in Holder, a \in relied[h]
      PROVE  SaturatingSince(relySince[h]) > LeaseExpiry + Notice
  <2>1. /\ relied[h] \subseteq leases[h].set /\ relySince[h] <= leases[h].seen
    BY <1>4 DEF IndInv, AcknowledgedLeasesAreKept
  <2>2. leases[h].seen \in Nat /\ relySince[h] \in Nat
    BY <1>0 DEF TypeOK, LeaseEntry
  <2>3. h \in Leasers(a)
    BY <1>4, <2>1 DEF Leasers
  <2>4. ~Active(h) /\ ~Expiring(h)
    BY <1>1, <2>3 DEF PlanDelete, AtRisk, KeptByActive, KeptByExpiring
  <2>5. SaturatingSince(leases[h].seen) \in Nat /\ SaturatingSince(relySince[h]) \in Nat
    BY <1>0, <2>2, SinceType
  <2>6. SaturatingSince(leases[h].seen) > LeaseExpiry + Notice
    BY <2>4, <2>5 DEF Active, Expiring
  <2>7. SaturatingSince(leases[h].seen) <= SaturatingSince(relySince[h])
    BY <1>0, <2>1, <2>2, SinceMonotone
  <2> QED
    BY <2>5, <2>6, <2>7
<1> QED
  BY <1>2, <1>3, <1>4

\* The peer's state always has its shape.
THEOREM TypeCorrect == Spec => []TypeOK
<1>1. IndInv => TypeOK
  BY DEF IndInv
<1> QED
  BY <1>1, Inductive, PTL

\* An acknowledged lease survives failed writes, other holders' writes and
\* restarts.
THEOREM LeasesKept == Spec => []AcknowledgedLeasesAreKept
<1>1. IndInv => AcknowledgedLeasesAreKept
  BY DEF IndInv
<1> QED
  BY <1>1, Inductive, PTL

\* An acknowledged retention survives them too, in an honest peer.
THEOREM RetentionKept == Spec => []AcknowledgedRetentionIsKept
<1>1. IndInv => AcknowledgedRetentionIsKept
  BY DEF IndInv
<1> QED
  BY <1>1, Inductive, PTL

\* No blob a client was told is leased is swept before expiry and notice.
THEOREM RelianceHonoured == Spec => RelianceOutlivesNotice
<1>1. IndInv /\ [Next]_vars =>
        [\A a \in blobs \ blobs', h \in Holder :
           a \in relied[h] => SaturatingSince(relySince[h]) > LeaseExpiry + Notice]_vars
  BY OnlySweepRemoves, SweptIsCollectable
<1> QED
  BY <1>1, Inductive, PTL DEF Spec, RelianceOutlivesNotice

\* No blob whose retention was acknowledged is removed by an honest peer.
THEOREM RetentionHonoured == Spec => RetainedBlobsStay
<1>1. IndInv /\ [Next]_vars => [~IgnoreRetention => (blobs \ blobs') \cap promised = {}]_vars
  BY OnlySweepRemoves, SweptIsCollectable
<1> QED
  BY <1>1, Inductive, PTL DEF Spec, RetainedBlobsStay

\* No blob is swept within its grace of the last upload or proof.
THEOREM GraceHonoured == Spec => EveryUploadGetsGrace
<1>1. IndInv /\ [Next]_vars =>
        [\A a \in blobs \ blobs' : SaturatingSince(handed[a]) >= Grace]_vars
  BY OnlySweepRemoves, SweptIsCollectable
<1> QED
  BY <1>1, Inductive, PTL DEF Spec, EveryUploadGetsGrace

\* The two modules measure time the same way.
LEMMA SameElapsed == ASSUME NEW s PROVE Abstract!Elapsed(s) = SaturatingSince(s)
BY DEF Abstract!Elapsed, SaturatingSince

\* A sweep is a collection the abstract store allows.
LEMMA SweepCollects ==
  ASSUME IndInv, Sweep, ~IgnoreRetention
  PROVE  Abstract!Collect(blobs \ blobs')
<1>1. \A a \in blobs \ blobs' : Abstract!Collectable(a)
  BY SweptIsCollectable, SameElapsed DEF Abstract!Collectable
<1>2. blobs' = blobs \ (blobs \ blobs')
  BY DEF Sweep
<1>3. UNCHANGED <<handed, relied, relySince, promised, authorised, now>>
  BY DEF Sweep, leaseVars, floorVars, trailVars
<1> QED
  BY <1>1, <1>2, <1>3 DEF Abstract!Collect

\* An honest peer's step is a step of the abstract store, or leaves what the
\* abstract store shows unchanged.
LEMMA StepRefines ==
  ASSUME IndInv, Next, ~IgnoreRetention
  PROVE  [Abstract!ANext]_(Abstract!avars)
<1> USE DEF Abstract!ANext, Abstract!avars, blobVars, leaseVars, floorVars, trailVars
<1>1. ASSUME NEW a \in Addr, PutBlob(a) \/ Prove(a)
      PROVE  Abstract!ANext
  <2>1. Abstract!Upload(a)
    BY <1>1 DEF PutBlob, Prove, Abstract!Upload
  <2> QED
    BY <2>1
<1>2. ASSUME NEW h \in Holder, NEW S \in SUBSET Addr, TakeLease(h, S)
      PROVE  Abstract!ANext
  <2>1. CASE relied' = [relied EXCEPT ![h] = @ \cup S] /\ relySince' = [relySince EXCEPT ![h] = now]
    <3>1. Abstract!Claim(h, S)
      BY <1>2, <2>1 DEF TakeLease, Abstract!Claim
    <3> QED
      BY <3>1
  <2>2. CASE UNCHANGED relied /\ relySince' = [relySince EXCEPT ![h] = Earlier(@, now)]
    <3>1. relied' = [relied EXCEPT ![h] = @ \ {}]
      BY <2>2 DEF IndInv, TypeOK
    <3>2. Abstract!Disclaim(h, {})
      BY <1>2, <2>2, <3>1 DEF TakeLease, Abstract!Disclaim, Earlier
    <3> QED
      BY <3>2
  <2> QED
    BY <1>2, <2>1, <2>2 DEF TakeLease
<1>3. ASSUME NEW h \in Holder, NEW S \in SUBSET Addr, ReleaseLease(h, S)
      PROVE  Abstract!ANext
  <2>1. Abstract!Disclaim(h, S)
    BY <1>3 DEF ReleaseLease, Abstract!Disclaim, Earlier
  <2> QED
    BY <2>1
<1>4. ASSUME NEW S \in SUBSET Addr, ExtendRetention(S) \/ PublishRetention(S)
      PROVE  Abstract!ANext
  <2>1. Abstract!Promise(S) \/ Abstract!Promise({})
    BY <1>4 DEF ExtendRetention, PublishRetention, StoreRetention, Abstract!Promise
  <2> QED
    BY <2>1
<1>5. ASSUME NEW S \in SUBSET Addr, NEW r \in Request, ForgetRetention(S, r)
      PROVE  Abstract!ANext
  <2>1. authorised # {}
    BY <1>5 DEF ForgetRetention, IndInv, ExecutionsWereDecided
  <2>2. Abstract!Withdraw(S)
    BY <1>5, <2>1 DEF ForgetRetention, Abstract!Withdraw
  <2> QED
    BY <2>2
<1>6. ASSUME NEW r \in Request, ExecuteDelete(r)
      PROVE  Abstract!ANext
  <2>1. Abstract!Authorise(r)
    BY <1>6 DEF ExecuteDelete, Abstract!Authorise
  <2> QED
    BY <2>1
<1>7. CASE Sweep
  <2>1. Abstract!Collect(blobs \ blobs')
    BY <1>7, SweepCollects
  <2>2. blobs \ blobs' \in SUBSET Addr
    BY DEF IndInv, TypeOK
  <2> QED
    BY <2>1, <2>2
<1>8. CASE Restart
  BY <1>8 DEF Restart
<1>9. CASE ClockMoves
  <2>1. Abstract!Clock
    BY <1>9, ConstantsAssumption DEF ClockMoves, Abstract!Clock
  <2> QED
    BY <2>1
<1> QED
  BY <1>1, <1>2, <1>3, <1>4, <1>5, <1>6, <1>7, <1>8, <1>9 DEF Next

\* An honest peer, restarts and failed writes included, implements the
\* collector that ProtectedStore specifies.
THEOREM Refinement == ASSUME ~IgnoreRetention PROVE Spec => ImplementsProtectedStore
<1>1. Init => Abstract!AInit
  BY DEF Init, Abstract!AInit
<1>2. IndInv /\ [Next]_vars => [Abstract!ANext]_(Abstract!avars)
  <2>1. CASE UNCHANGED vars
    BY <2>1 DEF vars, blobVars, leaseVars, floorVars, trailVars, Abstract!avars
  <2> QED
    BY <2>1, StepRefines
<1> QED
  BY <1>1, <1>2, Inductive, PTL DEF Spec, ImplementsProtectedStore, Abstract!ASpec
=============================================================================
