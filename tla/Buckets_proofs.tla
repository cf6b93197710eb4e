--------------------------- MODULE Buckets_proofs ---------------------------
(***************************************************************************)
(* Who reads and who writes a bucket.                                      *)
(*                                                                         *)
(* Gateway for every set of gateways, keys, objects and requests, every    *)
(* access list and every bound: the inductive invariant GwInv, that reads  *)
(* are exact, and that no write is made that was not allowed.              *)
(*                                                                         *)
(* Outbox for every set of keys and every number of writes and crashes, as *)
(* long as the commands on a namespace do not overlap: no acknowledged     *)
(* write is lost, and the working view is the map of KeyMap.               *)
(***************************************************************************)
EXTENDS Outbox, Gateway, FiniteSetTheorems, SequenceTheorems, TLAPS

(* The gateway: GwInv, an invariant of Gateway. *)

\* What an actor is doing is a request with all its fields, and one about to
\* write has been let through.
IsRequest(o) ==
  o = [at |-> o.at, req |-> o.req, status |-> o.status, out |-> o.out, fetched |-> o.fetched,
       rng |-> o.rng, total |-> o.total, left |-> o.left]
\* A request that may write is no WebDAV one, and over TCP it is signed.
SignedFor(g, r) == r.auth \notin {"basic", "badbasic"} /\ (g \in Tcp => r.auth = "sigv4")

\* What is left of a read: chunks of the objects, and at least one.
LeftFine(l) == l # <<>> /\ \E S : l \in Seq(S) /\ \A p \in S : p.chunk \in Chunks
\* A delta where keys can only be created, over what HEAD names (p): it puts an
\* object, and it makes its key or has lost against who made it.
FitsIn(p, k, e) ==
  /\ e.object # Gone
  /\ p[k].object = Gone => e.lamport = p[k].lamport + 1
  /\ p[k].object # Gone => e.lamport \in Nat /\ e.lamport <= p[k].lamport
\* What actor a is doing: where keys can only be created, a delta on its way
\* fits HEAD.
OpFine(a, o) ==
  /\ a \in Gws /\ o.at \notin {"idle", "enqueue", "write"} => IsRequest(o)
  /\ a \in Gws /\ o.at \in {"head", "load"} => o.req.key \in Keys
  /\ a \in Gws /\ o.at = "read" => LeftFine(o.left)
  /\ o.at \in {"enqueue", "write"} /\ o.key \in Keys => o.entry.object \in Objects \cup {Gone}
  /\ o.at = "write" => o.seq \in Seqs
  /\ a \in Gws /\ o.at \in {"put", "delete"} => SignedFor(a, o.req)
  /\ acl = {"append"} /\ o.at \in {"enqueue", "write"} /\ o.key \in Keys =>
       FitsIn(published, o.key, o.entry)
\* Requests are well formed, and one about to write has been let through.
OpsFine == op = [a \in Actors |-> op[a]] /\ \A a \in Actors : OpFine(a, op[a])

\* What HEAD names and the deltas of the outbox: whole objects and tombstones,
\* and where keys can only be created every delta fits HEAD.
StoreOf(p, b) ==
  /\ p = [k \in Keys |-> p[k]] /\ b = [n \in Seqs |-> b[n]]
  /\ \A k \in Keys : p[k].object \in Objects \cup {Gone}
  /\ \A n \in Seqs : b[n] # Gone /\ b[n].key \in Keys => b[n].entry.object \in Objects \cup {Gone}
  /\ acl = {"append"} =>
       /\ \A k \in Keys : p[k].lamport \in Nat
       /\ \A n \in Seqs : b[n] # Gone /\ b[n].key \in Keys => FitsIn(p, b[n].key, b[n].entry)
\* HEAD and the outbox as they are.
StoreFine == StoreOf(published, outbox)
\* The view they give: every key has an object or none.
BucketFine ==
  bucket = [k \in Keys |-> bucket[k]] /\ \A k \in Keys : bucket[k].object \in Objects \cup {Gone}

\* A file in the cache directory is in the queue of a gateway, and one that
\* opens under a gateway's key is in its own.
InQueue(c, q) == \E i \in 1 .. Len(q) : q[i] = c
\* A queue within the cap of the cache.
IsQueue(q) == (\E S : q \in Seq(S)) /\ Len(q) <= Cap
\* The cache over boots, the boot of each gateway, the files and the queues.
CacheOf(last, up, fs, queue) ==
  /\ last \in Nat
  /\ up = [g \in Gws |-> up[g]] /\ \A g \in Gws : up[g] \in 0 .. last
  /\ \A g, h \in Gws : up[g] = up[h] /\ up[g] # 0 => g = h
  /\ fs = [c \in Chunks |-> fs[c]] /\ \A c \in Chunks : fs[c] \in 0 .. last
  /\ queue = [g \in Gws |-> queue[g]] /\ \A g \in Gws : IsQueue(queue[g])
  /\ \A c \in Chunks, g \in Gws : up[g] # 0 /\ fs[c] = up[g] => InQueue(c, queue[g])
  /\ \A c \in Chunks : fs[c] # 0 => \E g \in Gws : InQueue(c, queue[g])
\* The cache as it is.
CacheFine == CacheOf(boots, boot, files, order)

\* Only a running gateway has a request.
UpFine == \A g \in Gws : op[g].at # "idle" => boot[g] # 0

-----------------------------------------------------------------------------
(* Loops. *)

\* The natural order is well-founded.
LEMMA LeastPlace ==
  ASSUME NEW T \in SUBSET Nat, T # {}
  PROVE  \E x \in T : \A y \in T : x <= y
<1> DEFINE Less == {p \in Nat \X Nat : p[1] < p[2]}
<1>1. IsWellFoundedOn(OpToRel(<, Nat), Nat)
  BY NatLessThanWellFounded
<1>2. OpToRel(<, Nat) = Less
  BY DEF OpToRel
<1>3. IsWellFoundedOn(Less, Nat)
  BY <1>1, <1>2
<1> HIDE DEF Less
<1>4. PICK x \in T : \A y \in T : ~ (<<y, x>> \in Less)
  BY <1>3, WFMin
<1>5. ASSUME NEW y \in T PROVE x <= y
  <2>1. ~ (<<y, x>> \in Less) /\ x \in Nat /\ y \in Nat
    BY <1>4
  <2>2. <<y, x>> \in Nat \X Nat /\ <<y, x>>[1] = y /\ <<y, x>>[2] = x
    BY <2>1
  <2>3. ~(y < x)
    BY <2>1, <2>2 DEF Less
  <2> QED
    BY <2>3, <2>1
<1> QED
  BY <1>5


\* A loop over 1 .. n that starts from b and goes on by G has a result after
\* every round.
IsLoop(n, V, b, G, f) == f \in [0 .. n -> V] /\ f[0] = b /\ \A i \in 1 .. n : f[i] = G[<<i, f[i - 1]>>]

\* A loop whose rounds stay in V has such a result: of the numbers of rounds
\* without one, the least would have one.
LEMMA LoopRuns ==
  ASSUME NEW n \in Nat, NEW V, NEW b \in V, NEW G \in [(1 .. n) \X V -> V]
  PROVE  \E f : IsLoop(n, V, b, G, f)
<1> DEFINE Runs2(k, f) == f \in [0 .. k -> V] /\ f[0] = b /\ \A i \in 1 .. k : f[i] = G[<<i, f[i - 1]>>]
           Bad == {k \in 0 .. n : \A f : ~Runs2(k, f)}
<1>1. Bad = {}
  <2>1. SUFFICES ASSUME Bad # {} PROVE FALSE
    OBVIOUS
  <2>2. PICK k \in Bad : \A j \in Bad : k <= j
    <3>1. Bad \in SUBSET Nat
      OBVIOUS
    <3> HIDE DEF Bad
    <3> QED
      BY <2>1, <3>1, LeastPlace
  <2>3. k # 0
    <3>1. Runs2(0, [i \in 0 .. 0 |-> b])
      OBVIOUS
    <3> QED
      BY <3>1
  <2>4. k \in 1 .. n /\ k - 1 \in 0 .. n /\ k - 1 \in 0 .. (k - 1) /\ ~(k <= k - 1) /\ k \in 0 .. k
    BY <2>3
  <2>5. PICK f : Runs2(k - 1, f)
    <3>1. k - 1 \notin Bad
      <4> HIDE DEF Bad
      <4> QED
        BY <2>2, <2>4
    <3> HIDE DEF Runs2
    <3> QED
      BY <2>4, <3>1
  <2> DEFINE v == G[<<k, f[k - 1]>>]
             h == [i \in 0 .. k |-> IF i = k THEN v ELSE f[i]]
  <2>6. f[k - 1] \in V
    BY <2>4, <2>5
  <2>7. v \in V
    <3>1. <<k, f[k - 1]>> \in (1 .. n) \X V
      BY <2>4, <2>6
    <3> QED
      BY <3>1
  <2> HIDE DEF v
  <2>8. \A i \in 0 .. k : i = k \/ (i \in 0 .. (k - 1) /\ i # k)
    BY <2>4
  <2>9. h[k] = v /\ \A i \in 0 .. (k - 1) : h[i] = f[i]
    <3>1. \A i \in 0 .. (k - 1) : i \in 0 .. k /\ i # k
      BY <2>4
    <3> QED
      BY <2>4, <3>1
  <2>10. h \in [0 .. k -> V]
    BY <2>5, <2>7, <2>8
  <2> HIDE DEF h
  <2>11. h[0] = b
    <3>1. 0 \in 0 .. (k - 1)
      BY <2>4
    <3> QED
      BY <3>1, <2>5, <2>9
  <2>12. ASSUME NEW i \in 1 .. k PROVE h[i] = G[<<i, h[i - 1]>>]
    <3>1. i - 1 \in 0 .. (k - 1)
      BY <2>4
    <3>2. h[i - 1] = f[i - 1]
      BY <3>1, <2>9
    <3>3. CASE i = k
      BY <3>2, <3>3, <2>9 DEF v
    <3>4. CASE i # k
      <4>1. i \in 1 .. (k - 1) /\ i \in 0 .. (k - 1)
        BY <3>4, <2>4
      <4>2. f[i] = G[<<i, f[i - 1]>>]
        BY <4>1, <2>5
      <4> QED
        BY <4>1, <4>2, <3>2, <2>9
    <3> QED
      BY <3>3, <3>4
  <2>13. Runs2(k, h)
    BY <2>10, <2>11, <2>12
  <2> HIDE DEF Runs2
  <2> QED
    BY <2>13, <2>2
<1>2. n \in 0 .. n /\ n \notin Bad
  BY <1>1
<1>3. \E f : Runs2(n, f)
  <2> HIDE DEF Runs2
  <2> QED
    BY <1>2
<1> QED
  BY <1>3 DEF IsLoop

-----------------------------------------------------------------------------
(* An object and its bytes. *)

Byte == Chunks \X Nat

\* Every chunk of an object has a length, and it is not zero.
LEMMA ChunkFacts ==
  ASSUME NEW m \in Seq(Chunks)
  PROVE  Len(m) \in Nat /\ \A i \in 1 .. Len(m) : m[i] \in Chunks /\ ChunkLen[m[i]] \in Nat /\ ChunkLen[m[i]] > 0
<1>1. Len(m) \in Nat /\ \A i \in 1 .. Len(m) : m[i] \in Chunks
  BY LenProperties, ElementOfSeq
<1>2. ChunkLen \in [Chunks -> Nat \ {0}]
  BY GatewayAssumption
<1>3. \A c \in Chunks : ChunkLen[c] \in Nat /\ ChunkLen[c] > 0
  BY <1>2
<1> QED
  BY <1>1, <1>3

\* The running offset of read_object_range is the sum of the chunks passed.
LEMMA UptoIs ==
  ASSUME NEW m \in Seq(Chunks)
  PROVE  /\ Upto(m, 0) = 0
         /\ \A i \in 1 .. Len(m) : Upto(m, i) = Upto(m, i - 1) + ChunkLen[m[i]]
         /\ \A i \in 0 .. Len(m) : Upto(m, i) \in Nat
<1> DEFINE L == Len(m)
           At2(f, i) == IF i = 0 THEN 0 ELSE f[i - 1] + ChunkLen[m[i]]
           F == CHOOSE f : f = [i \in 0 .. L |-> At2(f, i)]
           V == Nat
           G == [p \in (1 .. L) \X V |-> p[2] + ChunkLen[m[p[1]]]]
<1>1. L \in Nat /\ \A i \in 1 .. L : ChunkLen[m[i]] \in Nat
  BY ChunkFacts
<1>2. \A n : Upto(m, n) = F[n]
  BY DEF Upto
<1> HIDE DEF L
<1>3. PICK f \in [0 .. L -> V] : f[0] = 0 /\ \A i \in 1 .. L : f[i] = G[<<i, f[i - 1]>>]
  <2> DEFINE b == 0
  <2>1. G \in [(1 .. L) \X V -> V] /\ b \in V
    BY <1>1
  <2> HIDE DEF G, V, b
  <2>2. \E f : IsLoop(L, V, b, G, f)
    BY <1>1, <2>1, LoopRuns
  <2> QED
    BY <2>2 DEF IsLoop, b
<1>4. ASSUME NEW i \in 1 .. L PROVE i - 1 \in 0 .. L /\ i \in 0 .. L /\ i # 0
  BY <1>1
<1>5. ASSUME NEW i \in 0 .. L PROVE f[i] = At2(f, i)
  <2>1. CASE i = 0
    BY <2>1, <1>3
  <2>2. CASE i # 0
    <3>1. i \in 1 .. L
      BY <2>2, <1>1
    <3>2. <<i, f[i - 1]>> \in (1 .. L) \X V
      BY <3>1, <1>3, <1>4
    <3>3. G[<<i, f[i - 1]>>] = f[i - 1] + ChunkLen[m[i]]
      BY <3>2
    <3> QED
      BY <3>1, <3>3, <1>3, <2>2
  <2> QED
    BY <2>1, <2>2
<1>6. f = [i \in 0 .. L |-> At2(f, i)]
  <2> HIDE DEF At2
  <2> QED
    BY <1>3, <1>5
<1>7. F = [i \in 0 .. L |-> At2(F, i)]
  <2> HIDE DEF At2
  <2> QED
    BY <1>6
<1> HIDE DEF F
<1>8. \A i \in 0 .. L : F[i] = At2(F, i)
  <2> HIDE DEF At2
  <2> QED
    BY <1>7
<1>9. F[0] = 0 /\ \A i \in 1 .. L : F[i] = F[i - 1] + ChunkLen[m[i]]
  <2>1. 0 \in 0 .. L
    BY <1>1
  <2> QED
    BY <1>4, <1>8, <2>1
<1>10. \A i \in 0 .. L : F[i] \in Nat
  <2> DEFINE Bad == {i \in 0 .. L : F[i] \notin Nat}
  <2>1. SUFFICES ASSUME Bad # {} PROVE FALSE
    OBVIOUS
  <2>2. PICK k \in Bad : \A j \in Bad : k <= j
    <3>1. Bad \in SUBSET Nat
      BY <1>1
    <3> HIDE DEF Bad
    <3> QED
      BY <2>1, <3>1, LeastPlace
  <2>3. k # 0 /\ k \in 0 .. L /\ F[k] \notin Nat
    BY <1>9, <2>2
  <2>4. k \in 1 .. L /\ k - 1 \in 0 .. L /\ ~(k <= k - 1)
    BY <2>3, <1>1
  <2>5. k - 1 \notin Bad
    <3> HIDE DEF Bad
    <3> QED
      BY <2>2, <2>4
  <2>6. F[k - 1] \in Nat
    BY <2>4, <2>5
  <2>7. F[k] = F[k - 1] + ChunkLen[m[k]] /\ ChunkLen[m[k]] \in Nat
    BY <2>4, <1>1, <1>9
  <2> HIDE DEF Bad
  <2> QED
    BY <2>3, <2>6, <2>7
<1> QED
  BY <1>2, <1>9, <1>10 DEF L

\* Every byte of an object is where the offsets say.
LEMMA BytesIs ==
  ASSUME NEW m \in Seq(Chunks)
  PROVE  /\ BytesOf(m) \in Seq(Byte) /\ Len(BytesOf(m)) = Size(m) /\ Size(m) \in Nat
         /\ \A i \in 1 .. Len(m) : \A x \in 1 .. ChunkLen[m[i]] :
              BytesOf(m)[Upto(m, i - 1) + x] = <<m[i], x - 1>>
         /\ \A i \in 1 .. Len(m) : Upto(m, i) <= Size(m)
<1> DEFINE L == Len(m)
           C(i) == [n \in 1 .. ChunkLen[m[i]] |-> <<m[i], n - 1>>]
           V == Seq(Byte)
           At2(f, i) == IF i = 0 THEN <<>> ELSE f[i - 1] \o C(i)
           F == CHOOSE f : f = [i \in 0 .. L |-> At2(f, i)]
           G == [p \in (1 .. L) \X V |-> p[2] \o C(p[1])]
           U(i) == Upto(m, i)
<1>1. L \in Nat /\ \A i \in 1 .. L : m[i] \in Chunks /\ ChunkLen[m[i]] \in Nat /\ ChunkLen[m[i]] > 0
  BY ChunkFacts
<1>2. BytesOf(m) = F[L]
  BY DEF BytesOf
<1>u. /\ U(0) = 0 /\ \A i \in 1 .. L : U(i) = U(i - 1) + ChunkLen[m[i]]
      /\ \A i \in 0 .. L : U(i) \in Nat
  BY UptoIs
<1>s. Size(m) = U(L)
  BY DEF Size
<1> HIDE DEF L, U
<1>c. ASSUME NEW i \in 1 .. L
      PROVE  C(i) \in Seq(Byte) /\ Len(C(i)) = ChunkLen[m[i]] /\ \A x \in 1 .. ChunkLen[m[i]] : C(i)[x] = <<m[i], x - 1>>
  <2> DEFINE n == ChunkLen[m[i]]
  <2>1. n \in Nat /\ m[i] \in Chunks
    BY <1>1
  <2> HIDE DEF n
  <2>2. \A x \in 1 .. n : <<m[i], x - 1>> \in Byte
    BY <2>1 DEF Byte
  <2>3. [x \in 1 .. n |-> <<m[i], x - 1>>] \in Seq(Byte)
    BY <2>1, <2>2, SeqDef
  <2>4. Len([x \in 1 .. n |-> <<m[i], x - 1>>]) = n
    <3> DEFINE d == [x \in 1 .. n |-> <<m[i], x - 1>>]
    <3>1. d \in Seq(Byte) /\ DOMAIN d = 1 .. n
      BY <2>3
    <3> HIDE DEF d
    <3> QED
      BY <2>1, <3>1, LenProperties DEF d
  <2> QED
    BY <2>3, <2>4 DEF n
<1>0. <<>> \in V
  OBVIOUS
<1> HIDE DEF C
<1>3. PICK f \in [0 .. L -> V] : f[0] = <<>> /\ \A i \in 1 .. L : f[i] = G[<<i, f[i - 1]>>]
  <2>1. ASSUME NEW p \in (1 .. L) \X V PROVE p[2] \o C(p[1]) \in V
    <3>1. p[1] \in 1 .. L /\ p[2] \in Seq(Byte)
      OBVIOUS
    <3>2. C(p[1]) \in Seq(Byte)
      BY <3>1, <1>c
    <3> QED
      BY <3>1, <3>2, ConcatProperties
  <2>2. G \in [(1 .. L) \X V -> V]
    <3> HIDE DEF V
    <3> QED
      BY <2>1
  <2> DEFINE b == <<>>
  <2>3. b \in V
    BY <1>0
  <2> HIDE DEF G, V, b
  <2>4. \E f : IsLoop(L, V, b, G, f)
    BY <1>1, <2>2, <2>3, LoopRuns
  <2> QED
    BY <2>4 DEF IsLoop, b
<1> HIDE DEF V
<1>4. ASSUME NEW i \in 1 .. L PROVE i - 1 \in 0 .. L /\ i \in 0 .. L /\ i # 0
  BY <1>1
<1>5. ASSUME NEW i \in 0 .. L PROVE f[i] = At2(f, i)
  <2>1. CASE i = 0
    BY <2>1, <1>3
  <2>2. CASE i # 0
    <3>1. i \in 1 .. L
      BY <2>2, <1>1
    <3>2. <<i, f[i - 1]>> \in (1 .. L) \X V
      BY <3>1, <1>3, <1>4
    <3>3. G[<<i, f[i - 1]>>] = f[i - 1] \o C(i)
      BY <3>2
    <3> QED
      BY <3>1, <3>3, <1>3, <2>2
  <2> QED
    BY <2>1, <2>2
<1>6. f = [i \in 0 .. L |-> At2(f, i)]
  <2> HIDE DEF At2
  <2> QED
    BY <1>3, <1>5
<1>7. F = [i \in 0 .. L |-> At2(F, i)]
  <2> HIDE DEF At2
  <2> QED
    BY <1>6
<1> HIDE DEF F
<1>8. \A i \in 0 .. L : F[i] = At2(F, i)
  <2> HIDE DEF At2
  <2> QED
    BY <1>7
<1>9. F[0] = <<>> /\ \A i \in 1 .. L : F[i] = F[i - 1] \o C(i)
  <2>1. 0 \in 0 .. L
    BY <1>1
  <2> QED
    BY <1>4, <1>8, <2>1
<1> DEFINE Ok(k) == /\ F[k] \in Seq(Byte) /\ Len(F[k]) = U(k)
                    /\ \A i \in 1 .. k : U(i) <= U(k)
                    /\ \A i \in 1 .. k : \A x \in 1 .. ChunkLen[m[i]] : F[k][U(i - 1) + x] = <<m[i], x - 1>>
           Bad == {k \in 0 .. L : ~Ok(k)}
<1>10. Bad = {}
  <2>1. SUFFICES ASSUME Bad # {} PROVE FALSE
    OBVIOUS
  <2>2. PICK k \in Bad : \A j \in Bad : k <= j
    <3>1. Bad \in SUBSET Nat
      BY <1>1
    <3> HIDE DEF Bad
    <3> QED
      BY <2>1, <3>1, LeastPlace
  <2>3. k # 0
    <3>1. <<>> \in Seq(Byte) /\ Len(<<>>) = 0 /\ 1 .. 0 = {}
      OBVIOUS
    <3>2. Ok(0)
      BY <3>1, <1>9, <1>u
    <3> HIDE DEF Ok
    <3> QED
      BY <3>2, <2>2
  <2>4. k \in 1 .. L /\ k - 1 \in 0 .. L /\ ~(k <= k - 1) /\ k \in 0 .. L
    BY <2>2, <2>3, <1>1
  <2>5. Ok(k - 1)
    <3>1. k - 1 \notin Bad
      <4> HIDE DEF Bad
      <4> QED
        BY <2>2, <2>4
    <3> HIDE DEF Ok
    <3> QED
      BY <3>1, <2>4
  <2> DEFINE r == F[k - 1]  c == C(k)  w == ChunkLen[m[k]]  u == U(k - 1)
  <2>6. /\ r \in Seq(Byte) /\ Len(r) = u /\ (\A i \in 1 .. (k - 1) : U(i) <= u)
        /\ \A i \in 1 .. (k - 1) : \A x \in 1 .. ChunkLen[m[i]] : r[U(i - 1) + x] = <<m[i], x - 1>>
    BY <2>5
  <2>7. c \in Seq(Byte) /\ Len(c) = w /\ \A x \in 1 .. w : c[x] = <<m[k], x - 1>>
    BY <2>4, <1>c
  <2>8. F[k] = r \o c /\ u \in Nat /\ w \in Nat /\ U(k) = u + w
    BY <2>4, <1>1, <1>9, <1>u
  <2> HIDE DEF r, c, w, u
  <2>9. /\ F[k] \in Seq(Byte) /\ Len(F[k]) = u + w
        /\ (\A j \in 1 .. u : F[k][j] = r[j])
        /\ \A x \in 1 .. w : F[k][u + x] = c[x]
    <3>1. /\ r \o c \in Seq(Byte) /\ Len(r \o c) = Len(r) + Len(c)
          /\ \A j \in 1 .. Len(r) + Len(c) : (r \o c)[j] = IF j <= Len(r) THEN r[j] ELSE c[j - Len(r)]
      BY <2>6, <2>7, ConcatProperties
    <3> DEFINE d == r \o c
    <3>2. d \in Seq(Byte) /\ Len(d) = u + w /\ F[k] = d /\ \A j \in 1 .. u + w : d[j] = IF j <= u THEN r[j] ELSE c[j - u]
      BY <3>1, <2>6, <2>7, <2>8
    <3> HIDE DEF d
    <3>3. \A j \in 1 .. u : d[j] = r[j]
      <4>1. \A j \in 1 .. u : j \in 1 .. u + w /\ j <= u
        BY <2>8
      <4> QED
        BY <3>2, <4>1
    <3>4. \A x \in 1 .. w : d[u + x] = c[x]
      <4>1. \A x \in 1 .. w : u + x \in 1 .. u + w /\ ~(u + x <= u) /\ (u + x) - u = x
        BY <2>8
      <4> QED
        BY <3>2, <4>1
    <3> QED
      BY <3>2, <3>3, <3>4
  <2>10. \A i \in 1 .. k : i = k \/ i \in 1 .. (k - 1)
    BY <2>4
  <2>11. \A i \in 1 .. k : U(i) <= U(k)
    <3>1. ASSUME NEW i \in 1 .. k PROVE U(i) <= U(k)
      <4>1. CASE i = k
        BY <4>1, <2>8
      <4>2. CASE i \in 1 .. (k - 1)
        <5>1. i \in 0 .. L
          BY <4>2, <2>4, <1>1
        <5> QED
          BY <5>1, <4>2, <2>6, <2>8, <1>u
      <4> QED
        BY <4>1, <4>2, <2>10
    <3> QED
      BY <3>1
  <2>12. ASSUME NEW i \in 1 .. k, NEW x \in 1 .. ChunkLen[m[i]] PROVE F[k][U(i - 1) + x] = <<m[i], x - 1>>
    <3>1. CASE i = k
      BY <3>1, <2>7, <2>9 DEF u, w
    <3>2. CASE i \in 1 .. (k - 1)
      <4>1. i \in 1 .. L /\ i - 1 \in 0 .. L
        BY <3>2, <2>4, <1>1
      <4>2. U(i - 1) \in Nat /\ U(i) = U(i - 1) + ChunkLen[m[i]] /\ U(i) <= u /\ ChunkLen[m[i]] \in Nat
        BY <3>2, <4>1, <2>6, <1>1, <1>u
      <4>3. U(i - 1) + x \in 1 .. u
        BY <4>2, <2>8
      <4> QED
        BY <4>3, <3>2, <2>6, <2>9
    <3> QED
      BY <3>1, <3>2, <2>10
  <2>13. Ok(k)
    BY <2>8, <2>9, <2>11, <2>12
  <2> HIDE DEF Ok
  <2> QED
    BY <2>13, <2>2
<1>11. L \in 0 .. L /\ L \notin Bad
  <2> HIDE DEF Ok, Bad
  <2> QED
    BY <1>1, <1>10
<1>12. Ok(L)
  <2> HIDE DEF Ok
  <2> QED
    BY <1>11
<1>13. U(L) \in Nat
  BY <1>u, <1>11
<1> QED
  BY <1>2, <1>s, <1>12, <1>13 DEF L, U

-----------------------------------------------------------------------------
(* What is left of a plan leads from where the answer has got to the end of *)
(* the range.                                                               *)

\* A part of a plan gives the bytes of m after p, up to q.
Gives(m, part, p, q) ==
  /\ part.from \in Nat /\ part.to \in Nat /\ part.from < part.to /\ part.chunk \in Chunks
  /\ q \in Nat /\ q = p + (part.to - part.from)
  /\ \A x \in 1 .. (part.to - part.from) : BytesOf(m)[p + x] = <<part.chunk, part.from + x - 1>>
\* Where a plan stands after each of its chunks.
Stops(m, l, p, e, pos) ==
  /\ pos \in [0 .. Len(l) -> Nat] /\ pos[0] = p /\ pos[Len(l)] = e
  /\ \A j \in 1 .. Len(l) : Gives(m, l[j], pos[j - 1], pos[j])
\* A plan that gives the bytes of m from p up to e, chunk by chunk.
Leads(m, l, p, e) == \E pos : Stops(m, l, p, e, pos)

\* An empty plan gives nothing.
LEMMA LeadsNowhere ==
  ASSUME NEW m, NEW p \in Nat, NEW e
  PROVE  Leads(m, <<>>, p, e) <=> p = e
<1>1. Len(<<>>) = 0 /\ 1 .. 0 = {} /\ 0 .. 0 = {0}
  OBVIOUS
<1>2. ASSUME Leads(m, <<>>, p, e) PROVE p = e
  BY <1>1, <1>2 DEF Leads, Stops
<1>3. ASSUME p = e PROVE Leads(m, <<>>, p, e)
  <2>1. Stops(m, <<>>, p, e, [i \in 0 .. 0 |-> p])
    BY <1>1, <1>3 DEF Stops
  <2> QED
    BY <2>1 DEF Leads
<1> QED
  BY <1>2, <1>3

\* One chunk more.
LEMMA LeadsOn ==
  ASSUME NEW m, NEW S, NEW l \in Seq(S), NEW part, NEW p, NEW e, NEW q,
         Leads(m, l, p, e), Gives(m, part, e, q)
  PROVE  Leads(m, Append(l, part), p, q)
<1> DEFINE n == Len(l)  a == Append(l, part)
<1>1. n \in Nat /\ Len(a) = n + 1 /\ a[n + 1] = part /\ \A j \in 1 .. n : a[j] = l[j]
  <2>1. l \in Seq(S \cup {part}) /\ part \in S \cup {part}
    <3>1. S \subseteq S \cup {part}
      OBVIOUS
    <3> QED
      BY <3>1
  <2> QED
    BY <2>1, AppendProperties, LenProperties
<1>2. PICK pos : Stops(m, l, p, e, pos)
  BY DEF Leads
<1> HIDE DEF a
<1>3. /\ pos \in [0 .. n -> Nat] /\ pos[0] = p /\ pos[n] = e
      /\ \A j \in 1 .. n : Gives(m, l[j], pos[j - 1], pos[j])
  BY <1>2 DEF Stops
<1> HIDE DEF n
<1> DEFINE h == [i \in 0 .. (n + 1) |-> IF i = n + 1 THEN q ELSE pos[i]]
<1>4. q \in Nat
  BY DEF Gives
<1>5. /\ \A i \in 0 .. n : i \in 0 .. (n + 1) /\ i # n + 1
      /\ \A i \in 0 .. (n + 1) : i = n + 1 \/ i \in 0 .. n
      /\ n + 1 \in 0 .. (n + 1) /\ 0 \in 0 .. n /\ n \in 0 .. n
  BY <1>1
<1>6. h \in [0 .. (n + 1) -> Nat] /\ h[n + 1] = q /\ \A i \in 0 .. n : h[i] = pos[i]
  BY <1>3, <1>4, <1>5
<1> HIDE DEF h
<1>7. ASSUME NEW j \in 1 .. (n + 1) PROVE Gives(m, a[j], h[j - 1], h[j])
  <2>1. CASE j = n + 1
    <3>1. h[j - 1] = e /\ h[j] = q /\ a[j] = part
      <4>1. j - 1 = n
        BY <2>1, <1>1
      <4> QED
        BY <4>1, <2>1, <1>1, <1>3, <1>5, <1>6
    <3> QED
      BY <3>1
  <2>2. CASE j # n + 1
    <3>1. j \in 1 .. n /\ j - 1 \in 0 .. n /\ j \in 0 .. n
      BY <2>2, <1>1
    <3>2. h[j - 1] = pos[j - 1] /\ h[j] = pos[j] /\ a[j] = l[j]
      BY <3>1, <1>1, <1>6
    <3> QED
      BY <3>1, <3>2, <1>3
  <2> QED
    BY <2>1, <2>2
<1>8. Stops(m, a, p, q, h)
  BY <1>1, <1>3, <1>5, <1>6, <1>7 DEF Stops
<1> QED
  BY <1>8 DEF Leads, a

\* One chunk less, once it is read.
LEMMA LeadsAfter ==
  ASSUME NEW m, NEW S, NEW l \in Seq(S), l # <<>>, NEW p, NEW e, Leads(m, l, p, e)
  PROVE  \E q \in Nat : Gives(m, Head(l), p, q) /\ Leads(m, Tail(l), q, e)
<1> DEFINE n == Len(l)  t == Tail(l)
<1>1. PICK pos : Stops(m, l, p, e, pos)
  BY DEF Leads
<1>2. /\ n \in Nat /\ n # 0 /\ Head(l) = l[1] /\ t \in Seq(S) /\ Len(t) = n - 1
      /\ \A i \in 1 .. (n - 1) : t[i] = l[i + 1]
  <2>1. n \in Nat /\ n # 0
    BY LenProperties, EmptySeq
  <2> QED
    BY <2>1, HeadTailProperties
<1>3. /\ pos \in [0 .. n -> Nat] /\ pos[0] = p /\ pos[n] = e
      /\ \A j \in 1 .. n : Gives(m, l[j], pos[j - 1], pos[j])
  BY <1>1 DEF Stops
<1> HIDE DEF n, t
<1> DEFINE h == [i \in 0 .. (n - 1) |-> pos[i + 1]]
<1>4. \A i \in 0 .. (n - 1) : i + 1 \in 0 .. n
  BY <1>2
<1>5. h \in [0 .. (n - 1) -> Nat] /\ h[0] = pos[1] /\ h[n - 1] = e
  <2>1. 0 \in 0 .. (n - 1) /\ n - 1 \in 0 .. (n - 1) /\ 0 + 1 = 1 /\ (n - 1) + 1 = n
    BY <1>2
  <2> QED
    BY <2>1, <1>3, <1>4
<1>6. ASSUME NEW j \in 1 .. (n - 1) PROVE Gives(m, t[j], h[j - 1], h[j])
  <2>1. j \in 0 .. (n - 1) /\ j - 1 \in 0 .. (n - 1) /\ (j - 1) + 1 = j /\ j + 1 \in 1 .. n /\ (j + 1) - 1 = j
    BY <1>2
  <2>2. h[j - 1] = pos[j] /\ h[j] = pos[j + 1] /\ t[j] = l[j + 1]
    BY <2>1, <1>2
  <2>3. Gives(m, l[j + 1], pos[j], pos[j + 1])
    <3>1. Gives(m, l[j + 1], pos[(j + 1) - 1], pos[j + 1])
      BY <1>3, <2>1
    <3> QED
      BY <3>1, <2>1
  <2> QED
    BY <2>2, <2>3
<1> HIDE DEF h
<1>7. Stops(m, t, pos[1], e, h)
  BY <1>2, <1>5, <1>6 DEF Stops
<1>8. Gives(m, l[1], p, pos[1]) /\ pos[1] \in Nat
  <2>1. 1 \in 1 .. n /\ 1 - 1 = 0 /\ 1 \in 0 .. n
    BY <1>2
  <2>2. Gives(m, l[1], pos[1 - 1], pos[1])
    BY <2>1, <1>3
  <2> QED
    BY <2>1, <2>2, <1>3
<1> QED
  BY <1>2, <1>7, <1>8 DEF Leads, t

\* One chunk of a plan.
Part(m, rng, i) ==
  [chunk |-> m[i],
   from |-> IF rng[1] > Offset(m, i) THEN rng[1] - Offset(m, i) ELSE 0,
   to |-> Lesser(rng[2] - Offset(m, i), ChunkLen[m[i]])]
\* The chunks a plan takes its parts from.
Parts(m, rng) == {Part(m, rng, i) : i \in 1 .. Len(m)}

\* The loop over the chunks of an object is what its equation says.
LEMMA PlanRuns ==
  ASSUME NEW m \in Seq(Chunks), NEW rng, ~(rng[1] >= rng[2])
  PROVE  \E f : /\ PlanOf(m, rng) = f[Len(m)] /\ f[0] = <<>>
                /\ \A i \in 1 .. Len(m) : f[i] = IF Overlaps(m, i, rng) THEN Append(f[i - 1], Part(m, rng, i)) ELSE f[i - 1]
                /\ \A i \in 0 .. Len(m) : f[i] \in Seq(Parts(m, rng))
<1> DEFINE L == Len(m)
           At2(f, i) == IF i = 0 THEN <<>> ELSE IF Overlaps(m, i, rng) THEN Append(f[i - 1], Part(m, rng, i)) ELSE f[i - 1]
           F == CHOOSE f : f = [i \in 0 .. L |-> At2(f, i)]
           V == Seq(Parts(m, rng))
           G == [p \in (1 .. L) \X V |-> IF Overlaps(m, p[1], rng) THEN Append(p[2], Part(m, rng, p[1])) ELSE p[2]]
<1>1. L \in Nat
  BY LenProperties
<1>2. PlanOf(m, rng) = F[L]
  BY DEF PlanOf, Part
<1>p. \A i \in 1 .. L : Part(m, rng, i) \in Parts(m, rng)
  BY DEF Parts
<1> HIDE DEF L
<1>0. <<>> \in V
  OBVIOUS
<1>3. PICK f \in [0 .. L -> V] : f[0] = <<>> /\ \A i \in 1 .. L : f[i] = G[<<i, f[i - 1]>>]
  <2>1. ASSUME NEW p \in (1 .. L) \X V PROVE Append(p[2], Part(m, rng, p[1])) \in V /\ p[2] \in V
    <3>1. p[2] \in V /\ Part(m, rng, p[1]) \in Parts(m, rng)
      BY <1>p
    <3> QED
      BY <3>1, AppendProperties
  <2> HIDE DEF V
  <2>2. G \in [(1 .. L) \X V -> V]
    BY <2>1
  <2> DEFINE b == <<>>
  <2>3. b \in V
    BY <1>0
  <2> HIDE DEF G, b
  <2>4. \E f : IsLoop(L, V, b, G, f)
    BY <1>1, <2>2, <2>3, LoopRuns
  <2> QED
    BY <2>4 DEF IsLoop, b
<1> HIDE DEF V
<1>4. ASSUME NEW i \in 1 .. L PROVE i - 1 \in 0 .. L /\ i \in 0 .. L /\ i # 0
  BY <1>1
<1>5. ASSUME NEW i \in 0 .. L PROVE f[i] = At2(f, i)
  <2>1. CASE i = 0
    BY <2>1, <1>3
  <2>2. CASE i # 0
    <3>1. i \in 1 .. L
      BY <2>2, <1>1
    <3>2. <<i, f[i - 1]>> \in (1 .. L) \X V
      BY <3>1, <1>3, <1>4
    <3>3. G[<<i, f[i - 1]>>] = IF Overlaps(m, i, rng) THEN Append(f[i - 1], Part(m, rng, i)) ELSE f[i - 1]
      BY <3>2
    <3> QED
      BY <3>1, <3>3, <1>3, <2>2
  <2> QED
    BY <2>1, <2>2
<1>6. f = [i \in 0 .. L |-> At2(f, i)]
  <2> HIDE DEF At2
  <2> QED
    BY <1>3, <1>5
<1>7. F = [i \in 0 .. L |-> At2(F, i)]
  <2> HIDE DEF At2
  <2> QED
    BY <1>6
<1> HIDE DEF F
<1>8. \A i \in 0 .. L : F[i] = At2(F, i)
  <2> HIDE DEF At2
  <2> QED
    BY <1>7
<1>9. F[0] = <<>> /\ \A i \in 1 .. L : F[i] = IF Overlaps(m, i, rng) THEN Append(F[i - 1], Part(m, rng, i)) ELSE F[i - 1]
  <2>1. 0 \in 0 .. L
    BY <1>1
  <2> QED
    BY <1>4, <1>8, <2>1
<1>10. \A i \in 0 .. L : F[i] \in V
  <2> DEFINE Bad == {i \in 0 .. L : F[i] \notin V}
  <2>1. SUFFICES ASSUME Bad # {} PROVE FALSE
    OBVIOUS
  <2>2. PICK k \in Bad : \A j \in Bad : k <= j
    <3>1. Bad \in SUBSET Nat
      BY <1>1
    <3> HIDE DEF Bad
    <3> QED
      BY <2>1, <3>1, LeastPlace
  <2>3. k # 0 /\ k \in 0 .. L /\ F[k] \notin V
    BY <1>0, <1>9, <2>2
  <2>4. k \in 1 .. L /\ k - 1 \in 0 .. L /\ ~(k <= k - 1)
    BY <2>3, <1>1
  <2>5. k - 1 \notin Bad
    <3> HIDE DEF Bad
    <3> QED
      BY <2>2, <2>4
  <2>6. F[k - 1] \in V /\ Part(m, rng, k) \in Parts(m, rng)
    BY <2>4, <2>5, <1>p
  <2>7. Append(F[k - 1], Part(m, rng, k)) \in V
    BY <2>6, AppendProperties DEF V
  <2>8. F[k] = Append(F[k - 1], Part(m, rng, k)) \/ F[k] = F[k - 1]
    BY <2>4, <1>9
  <2> HIDE DEF Bad
  <2> QED
    BY <2>3, <2>6, <2>7, <2>8
<1> QED
  BY <1>2, <1>9, <1>10 DEF L, V

\* A plan for a range that lies in the object gives it, chunk by chunk.
LEMMA PlanLeads ==
  ASSUME NEW m \in Seq(Chunks), NEW rng, rng[1] \in Nat, rng[2] \in Nat,
         rng[1] < rng[2], rng[2] <= Size(m)
  PROVE  PlanOf(m, rng) \in Seq(Parts(m, rng)) /\ Leads(m, PlanOf(m, rng), rng[1], rng[2])
<1> DEFINE L == Len(m)  s == rng[1]  e == rng[2]
           U(i) == Upto(m, i)
           W(i) == ChunkLen[m[i]]
           T(i) == IF U(i) <= s THEN s ELSE IF U(i) < e THEN U(i) ELSE e
<1>1. L \in Nat /\ \A i \in 1 .. L : m[i] \in Chunks /\ W(i) \in Nat /\ W(i) > 0
  BY ChunkFacts
<1>2. /\ U(0) = 0 /\ \A i \in 1 .. L : U(i) = U(i - 1) + W(i)
      /\ \A i \in 0 .. L : U(i) \in Nat
  BY UptoIs
<1>3. \A i \in 1 .. L : \A x \in 1 .. W(i) : BytesOf(m)[U(i - 1) + x] = <<m[i], x - 1>>
  BY BytesIs
<1>4. U(L) = Size(m) /\ s \in Nat /\ e \in Nat /\ s < e /\ e <= U(L)
  BY DEF Size
<1>5. PICK f : /\ PlanOf(m, rng) = f[L] /\ f[0] = <<>>
               /\ \A i \in 1 .. L : f[i] = IF Overlaps(m, i, rng) THEN Append(f[i - 1], Part(m, rng, i)) ELSE f[i - 1]
               /\ \A i \in 0 .. L : f[i] \in Seq(Parts(m, rng))
  <2>1. ~(rng[1] >= rng[2])
    BY <1>4
  <2> QED
    BY <2>1, PlanRuns
<1>6. ASSUME NEW i \in 1 .. L
      PROVE  /\ Overlaps(m, i, rng) <=> U(i - 1) + W(i) > s /\ U(i - 1) < e
             /\ Part(m, rng, i).chunk = m[i]
             /\ Part(m, rng, i).from = IF s > U(i - 1) THEN s - U(i - 1) ELSE 0
             /\ Part(m, rng, i).to = IF e - U(i - 1) < W(i) THEN e - U(i - 1) ELSE W(i)
  BY DEF Overlaps, Part, Offset, Lesser
<1> HIDE DEF L, s, e, U, W
<1>7. ASSUME NEW i \in 1 .. L, Overlaps(m, i, rng)
      PROVE  Gives(m, Part(m, rng, i), T(i - 1), T(i))
  <2> DEFINE u == U(i - 1)  w == W(i)  part == Part(m, rng, i)  a == part.from  b == part.to
  <2>1. u \in Nat /\ w \in Nat /\ w > 0 /\ U(i) = u + w /\ u + w > s /\ u < e
    <3>1. i - 1 \in 0 .. L
      BY <1>1
    <3> QED
      BY <3>1, <1>1, <1>2, <1>6, <1>7
  <2>2. a = IF s > u THEN s - u ELSE 0
    BY <1>6
  <2>3. b = IF e - u < w THEN e - u ELSE w
    BY <1>6
  <2>4. \A x \in 1 .. w : BytesOf(m)[u + x] = <<m[i], x - 1>>
    BY <1>3
  <2>5. part.chunk = m[i] /\ m[i] \in Chunks
    BY <1>1, <1>6
  <2> DEFINE p == T(i - 1)  q == T(i)
  <2>6. p = (IF u <= s THEN s ELSE IF u < e THEN u ELSE e)
    OBVIOUS
  <2>7. q = (IF u + w <= s THEN s ELSE IF u + w < e THEN u + w ELSE e)
    BY <2>1
  <2> HIDE DEF u, w, part, a, b, p, q
  <2>8. a \in Nat /\ b \in Nat /\ a < b /\ b <= w /\ p = u + a /\ q = u + b /\ q \in Nat /\ p \in Nat
    <3>1. a \in Nat /\ p = u + a /\ a < w /\ u + a < e
      BY <2>1, <2>2, <2>6, <1>4
    <3>2. b \in Nat /\ q = u + b /\ b <= w /\ (b = w \/ u + b = e)
      BY <2>1, <2>3, <2>7, <1>4
    <3>3. a < b
      BY <3>1, <3>2, <2>1, <1>4
    <3> QED
      BY <3>1, <3>2, <3>3, <2>1
  <2>9. q = p + (b - a)
    BY <2>1, <2>8
  <2>10. ASSUME NEW x \in 1 .. (b - a) PROVE BytesOf(m)[p + x] = <<m[i], a + x - 1>>
    <3>1. a + x \in 1 .. w /\ p + x = u + (a + x)
      BY <2>1, <2>8
    <3>2. BytesOf(m)[u + (a + x)] = <<m[i], (a + x) - 1>>
      BY <2>4, <3>1
    <3>3. BytesOf(m)[u + (a + x)] = BytesOf(m)[p + x]
      BY <3>1
    <3>4. (a + x) - 1 = a + x - 1
      BY <2>8
    <3> QED
      BY <3>2, <3>3, <3>4
  <2> QED
    BY <2>5, <2>8, <2>9, <2>10 DEF Gives, a, b, part, p, q
<1>8. ASSUME NEW i \in 1 .. L, ~Overlaps(m, i, rng)
      PROVE  T(i - 1) = T(i)
  <2> DEFINE u == U(i - 1)  w == W(i)
  <2>1. u \in Nat /\ w \in Nat /\ w > 0 /\ U(i) = u + w /\ ~(u + w > s /\ u < e)
    <3>1. i - 1 \in 0 .. L
      BY <1>1
    <3> QED
      BY <3>1, <1>1, <1>2, <1>6, <1>8
  <2>2. T(i - 1) = (IF u <= s THEN s ELSE IF u < e THEN u ELSE e)
    OBVIOUS
  <2>3. T(i) = (IF u + w <= s THEN s ELSE IF u + w < e THEN u + w ELSE e)
    BY <2>1
  <2> HIDE DEF u, w, T
  <2> QED
    BY <2>1, <2>2, <2>3, <1>4
<1>t. T(0) = s /\ T(L) = e
  <2>1. L \in 0 .. L
    BY <1>1
  <2>2. U(0) = 0 /\ U(L) \in Nat
    BY <1>2, <2>1
  <2> QED
    BY <1>4, <2>2
<1> HIDE DEF T
<1> DEFINE Bad == {i \in 0 .. L : ~Leads(m, f[i], s, T(i))}
<1>9. Bad = {}
  <2>1. SUFFICES ASSUME Bad # {} PROVE FALSE
    OBVIOUS
  <2>2. PICK k \in Bad : \A j \in Bad : k <= j
    <3>1. Bad \in SUBSET Nat
      BY <1>1
    <3> HIDE DEF Bad
    <3> QED
      BY <2>1, <3>1, LeastPlace
  <2>3. k # 0 /\ k \in 0 .. L /\ ~Leads(m, f[k], s, T(k))
    <3>1. Leads(m, f[0], s, T(0))
      BY <1>4, <1>5, <1>t, LeadsNowhere
    <3> QED
      BY <3>1, <2>2
  <2>4. k \in 1 .. L /\ k - 1 \in 0 .. L /\ ~(k <= k - 1)
    BY <2>3, <1>1
  <2>5. k - 1 \notin Bad
    <3> HIDE DEF Bad
    <3> QED
      BY <2>2, <2>4
  <2>6. Leads(m, f[k - 1], s, T(k - 1)) /\ f[k - 1] \in Seq(Parts(m, rng))
    BY <2>4, <2>5, <1>5
  <2> HIDE DEF Bad
  <2>7. CASE Overlaps(m, k, rng)
    <3>1. f[k] = Append(f[k - 1], Part(m, rng, k)) /\ Gives(m, Part(m, rng, k), T(k - 1), T(k))
      BY <2>4, <2>7, <1>5, <1>7
    <3>2. Leads(m, Append(f[k - 1], Part(m, rng, k)), s, T(k))
      BY <3>1, <2>6, LeadsOn
    <3> QED
      BY <3>1, <3>2, <2>3
  <2>8. CASE ~Overlaps(m, k, rng)
    <3>1. f[k] = f[k - 1] /\ T(k) = T(k - 1)
      BY <2>4, <2>8, <1>5, <1>8
    <3> QED
      BY <3>1, <2>3, <2>6
  <2> QED
    BY <2>7, <2>8
<1>10. L \in 0 .. L /\ Leads(m, f[L], s, T(L))
  BY <1>1, <1>9
<1> QED
  BY <1>5, <1>10, <1>t DEF s, e

-----------------------------------------------------------------------------
(* What a range asks for, and an answer to it. *)

\* A request's range is the one its header means for the object head measured.
AimsAt(r, total, rng) ==
  IF r = Unset THEN rng = Whole
  ELSE total \in Nat /\ rng = ParseByteRange(r, total) /\ rng # Unset

\* The range a request was given has just the offsets it asked for.
LEMMA AimIs ==
  ASSUME NEW r \in Ranges \cup {Unset}, NEW total, NEW rng, AimsAt(r, total, rng)
  PROVE  /\ rng[1] \in Nat /\ rng[2] \in Nat
         /\ \A i \in Nat : i < Huge => (Wanted(r, total, i) <=> rng[1] <= i /\ i < rng[2])
<1>0. Huge \in Nat /\ Unset \notin Ranges
  BY GatewayAssumption
<1>1. CASE r = Unset
  <2>1. rng = <<0, Huge>>
    BY <1>1 DEF AimsAt, Whole
  <2>2. rng[1] = 0 /\ rng[2] = Huge
    BY <2>1
  <2>3. \A i : Wanted(r, total, i)
    BY <1>1 DEF Wanted
  <2> QED
    BY <1>0, <2>2, <2>3
<1>2. CASE r # Unset
  <2>1. r.kind \in {"bad", "suffix", "open", "closed"} /\ r.a \in Nat /\ r.b \in Nat
    BY <1>2 DEF Ranges
  <2> DEFINE a == r.a  b == r.b
  <2>2. total \in Nat /\ rng = ParseByteRange(r, total) /\ rng # Unset
    BY <1>2 DEF AimsAt
  <2>3. total # 0 /\ r.kind # "bad"
    BY <2>2 DEF ParseByteRange
  <2>4. CASE r.kind = "suffix"
    <3>1. a # 0 /\ rng = <<total - Lesser(a, total), total>>
      BY <2>2, <2>3, <2>4 DEF ParseByteRange
    <3>2. rng[1] = total - Lesser(a, total) /\ rng[2] = total
      BY <3>1
    <3>3. \A i : Wanted(r, total, i) <=> i + a >= total /\ i < total
      BY <1>2, <2>4 DEF Wanted
    <3> HIDE DEF a
    <3>4. a \in Nat
      BY <2>1 DEF a
    <3>5. total - Lesser(a, total) \in Nat /\ \A i \in Nat : i < total => (i + a >= total <=> total - Lesser(a, total) <= i)
      BY <2>2, <3>4 DEF Lesser
    <3> QED
      BY <2>2, <3>2, <3>3, <3>5
  <2>5. CASE r.kind = "open"
    <3>1. rng = <<a, total>>
      BY <2>2, <2>3, <2>5 DEF ParseByteRange
    <3>2. rng[1] = a /\ rng[2] = total
      BY <3>1
    <3>3. \A i : Wanted(r, total, i) <=> a <= i /\ i < total
      BY <1>2, <2>5 DEF Wanted
    <3> QED
      BY <2>1, <2>2, <3>2, <3>3
  <2>6. CASE r.kind = "closed"
    <3>1. rng = <<a, Lesser(b + 1, total)>>
      BY <2>2, <2>3, <2>6 DEF ParseByteRange
    <3>2. rng[1] = a /\ rng[2] = Lesser(b + 1, total)
      BY <3>1
    <3>3. \A i : Wanted(r, total, i) <=> a <= i /\ i <= b /\ i < total
      BY <1>2, <2>6 DEF Wanted
    <3>4. a \in Nat /\ b \in Nat
      BY <2>1
    <3> HIDE DEF a, b
    <3>5. Lesser(b + 1, total) \in Nat /\ \A i \in Nat : i < Lesser(b + 1, total) <=> i <= b /\ i < total
      BY <2>2, <3>4 DEF Lesser
    <3> QED
      BY <3>2, <3>3, <3>4, <3>5
  <2> QED
    BY <2>1, <2>3, <2>4, <2>5, <2>6
<1> QED
  BY <1>1, <1>2

\* get_range clamps: what is read lies in the object.
LEMMA ClampIs ==
  ASSUME NEW rng, rng[1] \in Nat, rng[2] \in Nat, NEW n \in Nat
  PROVE  LET w == Clamp(rng, n)
         IN  /\ w[1] \in Nat /\ w[2] \in Nat /\ w[1] <= w[2] /\ w[2] <= n
             /\ \A i \in Nat : w[1] <= i /\ i < w[2] <=> rng[1] <= i /\ i < rng[2] /\ i < n
<1> DEFINE s == Lesser(rng[1], n)  e == Lesser(rng[2], n)  f == IF e < s THEN s ELSE e
           a == rng[1]  b == rng[2]
<1>1. Clamp(rng, n)[1] = s /\ Clamp(rng, n)[2] = f
  BY DEF Clamp
<1>2. s = (IF a < n THEN a ELSE n) /\ e = IF b < n THEN b ELSE n
  BY DEF Lesser
<1>3. a \in Nat /\ b \in Nat
  OBVIOUS
<1> HIDE DEF s, e, a, b
<1>4. s \in Nat /\ e \in Nat /\ s <= n /\ e <= n
  BY <1>2, <1>3
<1>5. \A i \in Nat : s <= i /\ i < f <=> a <= i /\ i < b /\ i < n
  BY <1>2, <1>3, <1>4
<1> QED
  BY <1>1, <1>4, <1>5 DEF a, b

\* Reading to the end of the clamped range gives what was asked for.
LEMMA AnswersIs ==
  ASSUME NEW m \in Objects, NEW r \in Ranges \cup {Unset}, NEW total, NEW rng, AimsAt(r, total, rng),
         NEW out, NEW n \in Nat, Len(out) = n,
         n = Clamp(rng, Size(m))[2] - Clamp(rng, Size(m))[1],
         \A i \in 1 .. n : out[i] = BytesOf(m)[Clamp(rng, Size(m))[1] + i]
  PROVE  Answers(out, m, r, total)
<1> DEFINE b == BytesOf(m)  z == Size(m)  s == Clamp(rng, z)[1]  e == Clamp(rng, z)[2]
<1>1. m \in Seq(Chunks)
  BY GatewayAssumption
<1>2. z \in Nat /\ Len(b) = z /\ z <= Huge /\ Huge \in Nat
  BY <1>1, BytesIs, SizeAssumption, GatewayAssumption
<1>3. /\ rng[1] \in Nat /\ rng[2] \in Nat
      /\ \A i \in Nat : i < Huge => (Wanted(r, total, i) <=> rng[1] <= i /\ i < rng[2])
  BY AimIs
<1>4. /\ s \in Nat /\ e \in Nat /\ s <= e /\ e <= z
      /\ \A i \in Nat : s <= i /\ i < e <=> rng[1] <= i /\ i < rng[2] /\ i < z
  <2> HIDE DEF z
  <2> QED
    BY <1>2, <1>3, ClampIs
<1>5. n = e - s /\ \A i \in 1 .. n : out[i] = b[s + i]
  OBVIOUS
<1> HIDE DEF b, z, s, e
<1>6. {i \in 1 .. Len(b) : Wanted(r, total, i - 1)} = (s + 1) .. (s + Len(out))
  <2>1. ASSUME NEW i \in 1 .. z PROVE Wanted(r, total, i - 1) <=> i \in (s + 1) .. e
    <3>1. i - 1 \in Nat /\ i - 1 < z /\ i - 1 < Huge
      BY <1>2
    <3>2. Wanted(r, total, i - 1) <=> s <= i - 1 /\ i - 1 < e
      BY <3>1, <1>3, <1>4
    <3>3. s <= i - 1 /\ i - 1 < e <=> i \in (s + 1) .. e
      BY <1>2, <1>4
    <3> QED
      BY <3>2, <3>3
  <2>2. s + Len(out) = e /\ (s + 1) .. e \subseteq 1 .. z
    BY <1>2, <1>4, <1>5
  <2> QED
    BY <2>1, <2>2, <1>2
<1>7. s \in 0 .. Len(b)
  BY <1>2, <1>4
<1> QED
  BY <1>5, <1>6, <1>7 DEF Answers, b

\* The chunks an answer has bytes of.
Names(out) == {out[n][1] : n \in 1 .. Len(out)}

\* A chunk's slice, put after what there is, goes on with the object.
GoesOn(m, s, out) == \A n \in 1 .. Len(out) : out[n] = BytesOf(m)[s + n]

\* Reading one chunk more goes on from where the bytes read so far end, and leaves
\* a byte of that chunk in the answer.
LEMMA SliceGoesOn ==
  ASSUME NEW m, NEW part, NEW s \in Nat, NEW out \in Seq(Byte), NEW p, NEW q,
         Gives(m, part, p, q), p = s + Len(out), GoesOn(m, s, out)
  PROVE  LET new == out \o Slice(part)
         IN  /\ new \in Seq(Byte) /\ q = s + Len(new) /\ q \in Nat
             /\ GoesOn(m, s, new)
             /\ Names(out) \cup {part.chunk} \subseteq Names(new)
<1> DEFINE k == Len(out)  a == part.from  b == part.to  c == part.chunk  w == b - a
           sl == Slice(part)  new == out \o sl
<1>1. /\ a \in Nat /\ b \in Nat /\ a < b /\ c \in Chunks /\ q \in Nat /\ q = (s + k) + w
      /\ \A x \in 1 .. w : BytesOf(m)[(s + k) + x] = <<c, a + x - 1>>
  BY DEF Gives
<1>2. k \in Nat /\ w \in Nat /\ w > 0
  BY <1>1, LenProperties
<1>3. sl = [n \in 1 .. w |-> <<c, a + n - 1>>]
  BY <1>1 DEF Slice
<1>o. \A n \in 1 .. k : out[n] = BytesOf(m)[s + n]
  BY DEF GoesOn
<1> HIDE DEF k, a, b, c, w, sl
<1>4. sl \in Seq(Byte) /\ Len(sl) = w /\ \A x \in 1 .. w : sl[x] = <<c, a + x - 1>>
  <2>1. \A n \in 1 .. w : <<c, a + n - 1>> \in Byte
    BY <1>1, <1>2 DEF Byte
  <2>2. sl \in Seq(Byte)
    BY <1>2, <1>3, <2>1, SeqDef
  <2>3. DOMAIN sl = 1 .. w
    BY <1>3
  <2>4. Len(sl) = w
    BY <1>2, <2>2, <2>3, LenProperties
  <2> QED
    BY <1>3, <2>2, <2>4
<1>5. /\ new \in Seq(Byte) /\ Len(new) = k + w
      /\ (\A j \in 1 .. k : new[j] = out[j]) /\ \A x \in 1 .. w : new[k + x] = sl[x]
  <2>1. /\ out \o sl \in Seq(Byte) /\ Len(out \o sl) = Len(out) + Len(sl)
        /\ \A j \in 1 .. Len(out) + Len(sl) : (out \o sl)[j] = IF j <= Len(out) THEN out[j] ELSE sl[j - Len(out)]
    BY <1>4, ConcatProperties
  <2>2. new \in Seq(Byte) /\ Len(new) = k + w /\ \A j \in 1 .. k + w : new[j] = IF j <= k THEN out[j] ELSE sl[j - k]
    BY <2>1, <1>4 DEF k
  <2> HIDE DEF new
  <2>3. \A j \in 1 .. k : new[j] = out[j]
    <3>1. \A j \in 1 .. k : j \in 1 .. k + w /\ j <= k
      BY <1>2
    <3> QED
      BY <2>2, <3>1
  <2>4. \A x \in 1 .. w : new[k + x] = sl[x]
    <3>1. \A x \in 1 .. w : k + x \in 1 .. k + w /\ ~(k + x <= k) /\ (k + x) - k = x
      BY <1>2
    <3> QED
      BY <2>2, <3>1
  <2> QED
    BY <2>2, <2>3, <2>4
<1> HIDE DEF new
<1>6. \A n \in 1 .. k + w : n \in 1 .. k \/ (n - k \in 1 .. w /\ k + (n - k) = n /\ (s + k) + (n - k) = s + n)
  BY <1>2
<1>7. ASSUME NEW n \in 1 .. k + w PROVE new[n] = BytesOf(m)[s + n]
  <2>1. CASE n \in 1 .. k
    BY <2>1, <1>5, <1>o
  <2>2. CASE n - k \in 1 .. w /\ k + (n - k) = n /\ (s + k) + (n - k) = s + n
    <3>1. new[k + (n - k)] = sl[n - k] /\ BytesOf(m)[(s + k) + (n - k)] = sl[n - k]
      BY <2>2, <1>1, <1>4, <1>5
    <3> QED
      BY <3>1, <2>2
  <2> QED
    BY <2>1, <2>2, <1>6
<1>8. {out[n][1] : n \in 1 .. k} \subseteq {new[n][1] : n \in 1 .. k + w}
  <2>1. \A n \in 1 .. k : n \in 1 .. k + w
    BY <1>2
  <2> QED
    BY <2>1, <1>5
<1>9. c \in {new[n][1] : n \in 1 .. k + w}
  <2>1. 1 \in 1 .. w /\ k + 1 \in 1 .. k + w
    BY <1>2
  <2>2. new[k + 1] = <<c, a + 1 - 1>>
    BY <2>1, <1>4, <1>5
  <2>3. new[k + 1][1] = c
    BY <2>2
  <2> QED
    BY <2>1, <2>3
<1>10. q = s + (k + w)
  BY <1>1, <1>2
<1>11. Names(out) \cup {c} \subseteq Names(new)
  BY <1>5, <1>8, <1>9 DEF Names, k
<1> QED
  BY <1>1, <1>5, <1>7, <1>10, <1>11 DEF GoesOn, new, sl, k, c

\* A plan is a sequence of parts of the chunks.
LEMMA PlanIs ==
  ASSUME NEW m \in Seq(Chunks), NEW rng
  PROVE  \E S : PlanOf(m, rng) \in Seq(S) /\ \A e \in S : e.chunk \in Chunks
<1> DEFINE S == Parts(m, rng)
<1>1. Len(m) \in Nat /\ \A i \in 1 .. Len(m) : m[i] \in Chunks
  BY LenProperties, ElementOfSeq
<1>2. \A e \in S : e.chunk \in Chunks
  BY <1>1 DEF Part, Parts
<1> HIDE DEF S
<1>3. CASE rng[1] >= rng[2]
  <2>1. PlanOf(m, rng) = <<>> /\ <<>> \in Seq(S)
    BY <1>3 DEF PlanOf
  <2> QED
    BY <2>1, <1>2
<1>4. CASE ~(rng[1] >= rng[2])
  <2>1. PICK f : PlanOf(m, rng) = f[Len(m)] /\ \A i \in 0 .. Len(m) : f[i] \in Seq(S)
    BY <1>4, PlanRuns DEF S
  <2>2. Len(m) \in 0 .. Len(m)
    BY <1>1
  <2>3. PlanOf(m, rng) \in Seq(S)
    BY <2>1, <2>2
  <2> QED
    BY <2>3, <1>2
<1> QED
  BY <1>3, <1>4

-----------------------------------------------------------------------------
(* The working view. *)

\* The files of a key, the one that counts and the entry of the key, as Gateway
\* has them, of any HEAD p and any outbox b.
FilesIn(b, k) == {n \in Seqs : b[n] # Gone /\ b[n].key = k}
\* The file that overrode HEAD and all before it and that none after it did.
LastIn(p, b, k, n) ==
  /\ Overrides(b[n].entry, p[k])
  /\ \A i \in FilesIn(b, k) :
        /\ i < n => Overrides(b[n].entry, b[i].entry)
        /\ i > n => ~Overrides(b[i].entry, b[n].entry)
\* The entry of a key.
EntryIn(p, b, k) ==
  IF \E n \in FilesIn(b, k) : LastIn(p, b, k, n)
  THEN b[CHOOSE n \in FilesIn(b, k) : LastIn(p, b, k, n)].entry
  ELSE p[k]

\* The bucket is the working view of HEAD and the outbox, before and after a step.
LEMMA ViewIs ==
  /\ bucket = [k \in Keys |-> EntryIn(published, outbox, k)]
  /\ bucket' = [k \in Keys |-> EntryIn(published', outbox', k)]
<1>1. \A k : EntryOf(k) = EntryIn(published, outbox, k)
  BY DEF EntryOf, EntryIn, FilesOf, FilesIn, IsLast, LastIn
<1>2. \A k : EntryOf(k)' = EntryIn(published', outbox', k)
  BY DEF EntryOf, EntryIn, FilesOf, FilesIn, IsLast, LastIn, Overrides
<1> QED
  BY <1>1, <1>2 DEF bucket

\* An entry is HEAD's or that of the file that counts.
LEMMA EntryIs ==
  ASSUME NEW p, NEW b, NEW k
  PROVE  \/ \E n \in FilesIn(b, k) : LastIn(p, b, k, n) /\ EntryIn(p, b, k) = b[n].entry
         \/ (\A n \in FilesIn(b, k) : ~LastIn(p, b, k, n)) /\ EntryIn(p, b, k) = p[k]
<1>1. CASE \E n \in FilesIn(b, k) : LastIn(p, b, k, n)
  <2> DEFINE c == CHOOSE n \in FilesIn(b, k) : LastIn(p, b, k, n)
  <2>1. c \in FilesIn(b, k) /\ LastIn(p, b, k, c)
    BY <1>1
  <2>2. EntryIn(p, b, k) = b[c].entry
    BY <1>1 DEF EntryIn
  <2> HIDE DEF c
  <2> QED
    BY <2>1, <2>2
<1>2. CASE \A n \in FilesIn(b, k) : ~LastIn(p, b, k, n)
  BY <1>2 DEF EntryIn
<1> QED
  BY <1>1, <1>2

\* Only one file counts.
LEMMA OneLast ==
  ASSUME NEW p, NEW b, NEW k, NEW n \in FilesIn(b, k), LastIn(p, b, k, n)
  PROVE  EntryIn(p, b, k) = b[n].entry
<1>1. PICK c \in FilesIn(b, k) : LastIn(p, b, k, c) /\ EntryIn(p, b, k) = b[c].entry
  BY EntryIs
<1>2. n \in Nat /\ c \in Nat
  BY DEF FilesIn, Seqs
<1>3. c = n
  <2>1. ~(c < n)
    BY <1>1, <1>2 DEF LastIn
  <2>2. ~(n < c)
    BY <1>1, <1>2 DEF LastIn
  <2> QED
    BY <1>2, <2>1, <2>2
<1> QED
  BY <1>1, <1>3

\* A view has an object or none for each key.
LEMMA BucketIs ==
  ASSUME StoreFine
  PROVE  BucketFine
<1>1. ASSUME NEW k \in Keys PROVE EntryIn(published, outbox, k).object \in Objects \cup {Gone}
  <2>1. published[k].object \in Objects \cup {Gone}
    BY DEF StoreFine, StoreOf
  <2>2. \A n \in FilesIn(outbox, k) : outbox[n].entry.object \in Objects \cup {Gone}
    BY DEF StoreFine, StoreOf, FilesIn
  <2> QED
    BY <2>1, <2>2, EntryIs
<1> QED
  BY <1>1, ViewIs DEF BucketFine

\* What a view holds where keys can only be created: HEAD's object, or for a key
\* HEAD does not have the object of a delta.
LEMMA FittingIs ==
  ASSUME NEW p, NEW b, StoreOf(p, b), acl = {"append"}, NEW k \in Keys
  PROVE  LET e == EntryIn(p, b, k)
         IN  /\ p[k].object # Gone => e = p[k]
             /\ p[k].object = Gone => e = p[k] \/ (e.object # Gone /\ e.lamport = p[k].lamport + 1)
<1> DEFINE e == EntryIn(p, b, k)
<1>1. p[k].lamport \in Nat /\ \A n \in FilesIn(b, k) : FitsIn(p, k, b[n].entry)
  BY DEF StoreOf, FilesIn
<1>2. CASE e = p[k]
  BY <1>2
<1>3. CASE \E n \in FilesIn(b, k) : LastIn(p, b, k, n) /\ e = b[n].entry
  <2>1. PICK n \in FilesIn(b, k) : LastIn(p, b, k, n) /\ e = b[n].entry
    BY <1>3
  <2>2. FitsIn(p, k, e) /\ e.lamport > p[k].lamport
    BY <1>1, <2>1 DEF LastIn, Overrides
  <2> HIDE DEF e
  <2>3. p[k].object = Gone
    BY <1>1, <2>2 DEF FitsIn
  <2>4. e.object # Gone /\ e.lamport = p[k].lamport + 1
    BY <2>2, <2>3 DEF FitsIn
  <2> QED
    BY <2>3, <2>4 DEF e
<1>4. e = p[k] \/ \E n \in FilesIn(b, k) : LastIn(p, b, k, n) /\ e = b[n].entry
  BY EntryIs
<1> QED
  BY <1>2, <1>3, <1>4

\* A key that is not there is not in HEAD either, and no delta of it counts.
LEMMA AbsentIs ==
  ASSUME StoreFine, acl = {"append"}, NEW k \in Keys, bucket[k].object = Gone
  PROVE  bucket[k] = published[k] /\ published[k].object = Gone
<1>1. bucket[k] = EntryIn(published, outbox, k)
  BY ViewIs
<1>2. StoreOf(published, outbox)
  BY DEF StoreFine
<1> QED
  BY <1>1, <1>2, FittingIs

\* What leaves HEAD and the outbox alone leaves the view alone.
LEMMA SameStore ==
  ASSUME published' = published, outbox' = outbox
  PROVE  bucket' = bucket
BY ViewIs

\* So does one that also leaves the access list alone, and the store is fine.
LEMMA StaysStored ==
  ASSUME StoreFine, published' = published, outbox' = outbox, acl' = acl
  PROVE  StoreFine'
BY DEF StoreFine, StoreOf, FitsIn, Seqs

-----------------------------------------------------------------------------
(* Requests. *)

\* A gateway that replaces what it is doing.
LEMMA OpReplaced ==
  ASSUME OpsFine, acl' = acl, published' = published, NEW a \in Actors, NEW o, op' = [op EXCEPT ![a] = o], OpFine(a, o)
  PROVE  OpsFine' /\ op'[a] = o /\ \A b \in Actors : b # a => op'[b] = op[b]
<1>1. op = [b \in Actors |-> op[b]] /\ \A b \in Actors : OpFine(b, op[b])
  BY DEF OpsFine
<1>2. op' = [b \in Actors |-> op'[b]] /\ op'[a] = o /\ \A b \in Actors : b # a => op'[b] = op[b]
  BY <1>1
<1>3. \A b \in Actors : OpFine(b, op'[b])
  BY <1>1, <1>2
<1>4. \A b \in Actors : OpFine(b, op[b])'
  BY <1>3 DEF OpFine, IsRequest, SignedFor, LeftFine, FitsIn, Gws, Chunks
<1> QED
  BY <1>2, <1>4 DEF OpsFine, Actors, Gws

\* Setting fields of a request leaves a request.
Turned(o, x, s) == [o EXCEPT !.at = x, !.status = s]

\* A request that goes on to another step is well formed still.
LEMMA RequestSet ==
  ASSUME NEW o, IsRequest(o), NEW x, NEW s
  PROVE  IsRequest(Turned(o, x, s)) /\ Turned(o, x, s).at = x /\ Turned(o, x, s).req = o.req
<1> DEFINE r == o.req  u == o.out  f == o.fetched  n == o.rng  t == o.total  l == o.left
           p == [o EXCEPT !.at = x, !.status = s]
<1>1. o = [at |-> o.at, req |-> r, status |-> o.status, out |-> u, fetched |-> f, rng |-> n, total |-> t, left |-> l]
  BY DEF IsRequest
<1> HIDE DEF r, u, f, n, t, l
<1>2. p = [at |-> x, req |-> r, status |-> s, out |-> u, fetched |-> f, rng |-> n, total |-> t, left |-> l]
  <2> DEFINE q == [o EXCEPT !.at = x]
  <2>1. q = [at |-> x, req |-> r, status |-> o.status, out |-> u, fetched |-> f, rng |-> n, total |-> t, left |-> l]
    BY <1>1
  <2>2. p = [q EXCEPT !.status = s]
    OBVIOUS
  <2> HIDE DEF q, p
  <2> QED
    BY <2>1, <2>2
<1> HIDE DEF p
<1>3. /\ p.at = x /\ p.req = r /\ p.status = s /\ p.out = u /\ p.fetched = f /\ p.rng = n
      /\ p.total = t /\ p.left = l
  BY <1>2
<1>4. IsRequest(p)
  BY <1>2, <1>3 DEF IsRequest
<1>5. p.at = x /\ p.req = o.req
  BY <1>3 DEF r
<1>6. Turned(o, x, s) = p
  BY DEF Turned, p
<1> QED
  BY <1>4, <1>5, <1>6

\* A handler that writes is the S3 face's, and no gateway refused it.
LEMMA HandlerIs ==
  ASSUME NEW g \in Gws, NEW r, Refusal(g, r) = 0, Handler(r).at \in {"put", "delete"}
  PROVE  SignedFor(g, r)
<1>1. ~Dav(r)
  <2> SUFFICES ASSUME Dav(r) PROVE FALSE
    OBVIOUS
  <2>1. Handler(r) = DavHandler(r)
    BY DEF Handler
  <2>2. ReadHandler(r).at \notin {"put", "delete"}
    BY DEF ReadHandler, Step, Status
  <2>3. DavHandler(r).at \notin {"put", "delete"}
    BY <2>2 DEF DavHandler, Step, Status
  <2> QED
    BY <2>1, <2>3
<1>2. r.auth \notin {"basic", "badbasic"}
  BY <1>1 DEF Dav
<1>3. ASSUME g \in Tcp PROVE r.auth = "sigv4"
  <2>1. g \notin Unix
    BY <1>3, GatewayAssumption
  <2> QED
    BY <1>1, <2>1 DEF Refusal
<1> QED
  BY <1>2, <1>3 DEF SignedFor

\* Where the faces send a request.
LEMMA HandlerAt ==
  ASSUME NEW r
  PROVE  /\ Handler(r).at \in {"reply", "load", "head", "list", "size", "put", "delete", "propfind"}
         /\ Handler(r).at \in {"load", "head"} => r.key # Unset
<1>1. ReadHandler(r).at \in {"reply", "load", "head", "list", "size"}
      /\ (ReadHandler(r).at \in {"load", "head"} => r.key # Unset)
  BY DEF ReadHandler, Step, Status
<1>2. S3Handler(r).at \in {"reply", "load", "head", "list", "size", "put", "delete", "propfind"}
      /\ (S3Handler(r).at \in {"load", "head"} => r.key # Unset)
  BY <1>1 DEF S3Handler, Step, Status
<1>3. DavHandler(r).at \in {"reply", "load", "head", "list", "size", "put", "delete", "propfind"}
      /\ (DavHandler(r).at \in {"load", "head"} => r.key # Unset)
  BY <1>1 DEF DavHandler, Step, Status
<1> QED
  BY <1>2, <1>3 DEF Handler
\* So is one of which one field is set.
LEMMA OneField ==
  ASSUME NEW o, IsRequest(o), NEW v
  PROVE  /\ IsRequest([o EXCEPT !.rng = v]) /\ [o EXCEPT !.rng = v].at = o.at
         /\ [o EXCEPT !.rng = v].req = o.req /\ [o EXCEPT !.rng = v].left = o.left
         /\ IsRequest([o EXCEPT !.total = v]) /\ [o EXCEPT !.total = v].at = o.at
         /\ [o EXCEPT !.total = v].req = o.req /\ [o EXCEPT !.total = v].left = o.left
         /\ IsRequest([o EXCEPT !.left = v]) /\ [o EXCEPT !.left = v].at = o.at
         /\ [o EXCEPT !.left = v].req = o.req /\ [o EXCEPT !.left = v].left = v
         /\ IsRequest([o EXCEPT !.out = v]) /\ [o EXCEPT !.out = v].at = o.at
         /\ [o EXCEPT !.out = v].req = o.req /\ [o EXCEPT !.out = v].left = o.left
         /\ IsRequest([o EXCEPT !.fetched = v]) /\ [o EXCEPT !.fetched = v].at = o.at
         /\ [o EXCEPT !.fetched = v].req = o.req /\ [o EXCEPT !.fetched = v].left = o.left
         /\ IsRequest([o EXCEPT !.status = v]) /\ [o EXCEPT !.status = v].at = o.at
         /\ [o EXCEPT !.status = v].req = o.req /\ [o EXCEPT !.status = v].left = o.left
         /\ IsRequest([o EXCEPT !.at = v]) /\ [o EXCEPT !.at = v].at = v
         /\ [o EXCEPT !.at = v].req = o.req /\ [o EXCEPT !.at = v].left = o.left
<1> DEFINE a == o.at  r == o.req  s == o.status  u == o.out  f == o.fetched  n == o.rng  t == o.total  l == o.left
<1>1. o = [at |-> a, req |-> r, status |-> s, out |-> u, fetched |-> f, rng |-> n, total |-> t, left |-> l]
  BY DEF IsRequest
<1>a. o.at = a
  OBVIOUS
<1> HIDE DEF a, r, s, u, f, n, t, l
<1>2. IsRequest([o EXCEPT !.rng = v]) /\ [o EXCEPT !.rng = v].at = o.at /\ [o EXCEPT !.rng = v].req = o.req /\ [o EXCEPT !.rng = v].left = o.left
  BY <1>1 DEF IsRequest
<1>3. IsRequest([o EXCEPT !.total = v]) /\ [o EXCEPT !.total = v].at = o.at /\ [o EXCEPT !.total = v].req = o.req /\ [o EXCEPT !.total = v].left = o.left
  BY <1>1 DEF IsRequest
<1>4. IsRequest([o EXCEPT !.left = v]) /\ [o EXCEPT !.left = v].at = o.at /\ [o EXCEPT !.left = v].req = o.req /\ [o EXCEPT !.left = v].left = v
  BY <1>1 DEF IsRequest
<1>5. IsRequest([o EXCEPT !.out = v]) /\ [o EXCEPT !.out = v].at = o.at /\ [o EXCEPT !.out = v].req = o.req /\ [o EXCEPT !.out = v].left = o.left
  BY <1>1 DEF IsRequest
<1>6. IsRequest([o EXCEPT !.fetched = v]) /\ [o EXCEPT !.fetched = v].at = o.at /\ [o EXCEPT !.fetched = v].req = o.req /\ [o EXCEPT !.fetched = v].left = o.left
  BY <1>1 DEF IsRequest
<1>7. IsRequest([o EXCEPT !.status = v]) /\ [o EXCEPT !.status = v].at = o.at /\ [o EXCEPT !.status = v].req = o.req /\ [o EXCEPT !.status = v].left = o.left
  BY <1>1 DEF IsRequest
<1>8. IsRequest([o EXCEPT !.at = v]) /\ [o EXCEPT !.at = v].at = v /\ [o EXCEPT !.at = v].req = o.req /\ [o EXCEPT !.at = v].left = o.left
  BY <1>1 DEF IsRequest
<1> QED
  BY <1>2, <1>3, <1>4, <1>5, <1>6, <1>7, <1>8

\* What is shown of each step: requests stay well formed, and a gateway only
\* turns to writing for a request that was let through.
Signed == \A h \in Gws : op[h].at # "enqueue" /\ op'[h].at = "enqueue" => SignedFor(h, op[h].req)
\* What a step has to keep of the requests, and of who may write.
OpStep == OpsFine' /\ Signed

\* A step of one actor keeps it when the new state of that actor is fine.
LEMMA OpTurns ==
  ASSUME OpsFine, acl' = acl, published' = published, NEW a \in Actors, NEW o, op' = [op EXCEPT ![a] = o], OpFine(a, o),
         a \in Gws /\ o.at = "enqueue" => SignedFor(a, op[a].req)
  PROVE  OpStep
<1>1. OpsFine' /\ op'[a] = o /\ \A b \in Actors : b # a => op'[b] = op[b]
  BY OpReplaced
<1>2. \A h \in Gws : h \in Actors
  BY DEF Actors
<1> QED
  BY <1>1, <1>2 DEF OpStep, Signed

\* So does one that leaves the requests alone.
LEMMA SameOps ==
  ASSUME OpsFine, acl' = acl, published' = published, op' = op
  PROVE  OpsFine' /\ Signed
BY DEF OpsFine, OpFine, FitsIn, Signed

\* A request that is read, listed or refused.
LEMMA TurnsQuietly ==
  ASSUME OpsFine, acl' = acl, published' = published, NEW g \in Gws, NEW o, op' = [op EXCEPT ![g] = o], IsRequest(o),
         o.at \in {"reply", "load", "read"}, o.at = "load" => o.req.key \in Keys,
         o.at = "read" => LeftFine(o.left)
  PROVE  OpStep
<1>1. OpFine(g, o)
  BY DEF OpFine
<1>2. g \in Actors
  BY DEF Actors
<1> QED
  BY <1>1, <1>2, OpTurns

\* A gateway that is at a step of a request has all of its fields.
LEMMA IsBusy ==
  ASSUME OpsFine, NEW g \in Gws, op[g].at \notin {"idle", "enqueue", "write"}
  PROVE  IsRequest(op[g])
BY DEF OpsFine, OpFine, Actors

\* An answer.
LEMMA Responds ==
  ASSUME OpsFine, acl' = acl, published' = published, NEW g \in Gws, IsRequest(op[g]), NEW s, Respond(g, s)
  PROVE  OpStep
<1> DEFINE o == [op[g] EXCEPT !.at = "reply", !.status = s]
<1>1. op' = [op EXCEPT ![g] = o]
  <2>1. op = [a \in Actors |-> op[a]] /\ g \in Actors
    BY DEF OpsFine, Actors
  <2>2. op' = [op EXCEPT ![g].at = "reply", ![g].status = s]
    BY DEF Respond
  <2> QED
    BY <2>1, <2>2
<1>2. IsRequest(o) /\ o.at = "reply"
  <2>1. o = Turned(op[g], "reply", s)
    BY DEF Turned
  <2> HIDE DEF o
  <2> QED
    BY <2>1, RequestSet
<1> HIDE DEF o
<1> QED
  BY <1>1, <1>2, TurnsQuietly

\* The size is read before the range is parsed.
LEMMA MeasureOps ==
  ASSUME OpsFine, NEW g \in Gws, Measure(g)
  PROVE  OpStep
<1>1. IsRequest(op[g]) /\ acl' = acl /\ published' = published /\ op = [a \in Actors |-> op[a]] /\ g \in Actors
  BY IsBusy DEF Measure, At, Quiet, store, OpsFine, Actors
<1>k. op[g].req.key \in Keys
  BY <1>1 DEF Measure, At, OpsFine, OpFine
<1> DEFINE m == Live(op[g].req.key)
           rng == ParseByteRange(op[g].req.range, Size(m))
<1>2. CASE m = Gone
  BY <1>1, <1>2, Responds DEF Measure
<1>3. CASE m # Gone /\ rng = Unset
  BY <1>1, <1>3, Responds DEF Measure
<1>4. CASE m # Gone /\ rng # Unset
  <2> DEFINE p == [op[g] EXCEPT !.at = "load"]  q == [p EXCEPT !.rng = rng]  o == [q EXCEPT !.total = Size(m)]
  <2>1. op' = [op EXCEPT ![g].at = "load", ![g].rng = rng, ![g].total = Size(m)]
    BY <1>4 DEF Measure
  <2>2. op' = [op EXCEPT ![g] = o]
    <3> HIDE DEF rng, m
    <3> QED
      BY <1>1, <2>1
  <2>3. IsRequest(o) /\ o.at = "load" /\ o.req = op[g].req
    <3> HIDE DEF rng, m
    <3>1. IsRequest(p) /\ p.at = "load" /\ p.req = op[g].req
      BY <1>1, OneField
    <3>2. IsRequest(q) /\ q.at = p.at /\ q.req = p.req
      <4> HIDE DEF p
      <4> QED
        BY <3>1, OneField
    <3>3. IsRequest(o) /\ o.at = q.at /\ o.req = q.req
      <4> HIDE DEF q
      <4> QED
        BY <3>2, OneField
    <3> HIDE DEF o, p, q
    <3> QED
      BY <3>1, <3>2, <3>3
  <2> HIDE DEF o
  <2> QED
    BY <1>1, <1>k, <2>2, <2>3, TurnsQuietly
<1> QED
  BY <1>2, <1>3, <1>4

\* The manifest is read and the plan made.
LEMMA LoadOps ==
  ASSUME OpsFine, BucketFine, NEW g \in Gws, Load(g)
  PROVE  OpStep
<1>1. IsRequest(op[g]) /\ acl' = acl /\ published' = published /\ op = [a \in Actors |-> op[a]] /\ g \in Actors
  BY IsBusy DEF Load, At, Quiet, store, OpsFine, Actors
<1> DEFINE m == Live(op[g].req.key)
           rng == Clamp(op[g].rng, Size(m))
           status == IF op[g].req.range = Unset THEN 200 ELSE 206
           plan == PlanOf(m, rng)
           x == IF plan = <<>> THEN "reply" ELSE "read"
<1>2. CASE m = Gone
  BY <1>1, <1>2, Responds DEF Load
<1>3. CASE m # Gone
  <2> DEFINE p == [op[g] EXCEPT !.at = x]  q == [p EXCEPT !.left = plan]  o == [q EXCEPT !.status = status]
  <2>1. op' = [op EXCEPT ![g].at = x, ![g].left = plan, ![g].status = status]
    BY <1>3 DEF Load
  <2>0. x \in {"reply", "read"} /\ (x = "read" => plan # <<>>)
    OBVIOUS
  <2>6. x = "read" => LeftFine(plan)
    <3>1. op[g].req.key \in Keys
      BY <1>1 DEF Load, At, OpsFine, OpFine
    <3>2. m \in Seq(Chunks)
      BY <1>3, <3>1, GatewayAssumption DEF BucketFine, Live
    <3> HIDE DEF x, m, rng
    <3>3. \E S : plan \in Seq(S) /\ \A e \in S : e.chunk \in Chunks
      BY <3>2, PlanIs
    <3> QED
      BY <2>0, <3>3 DEF LeftFine
  <2> HIDE DEF x, plan, status
  <2>2. op' = [op EXCEPT ![g] = o]
    BY <1>1, <2>1
  <2>3. IsRequest(p) /\ p.at = x
    BY <1>1, OneField
  <2>4. IsRequest(q) /\ q.at = p.at /\ q.left = plan
    <3> HIDE DEF p
    <3> QED
      BY <2>3, OneField
  <2>5. IsRequest(o) /\ o.at = q.at /\ o.left = q.left
    <3> HIDE DEF q
    <3> QED
      BY <2>4, OneField
  <2> HIDE DEF o, p, q
  <2> QED
    BY <1>1, <2>0, <2>2, <2>3, <2>4, <2>5, <2>6, TurnsQuietly
<1> QED
  BY <1>2, <1>3

\* A chunk is read.
LEMMA ReadOps ==
  ASSUME OpsFine, NEW g \in Gws, ReadChunk(g)
  PROVE  OpStep
<1>1. IsRequest(op[g]) /\ acl' = acl /\ published' = published /\ op = [a \in Actors |-> op[a]] /\ g \in Actors
  BY IsBusy DEF ReadChunk, At, store, OpsFine, Actors
<1> DEFINE c == Head(op[g].left)
           rest == Tail(op[g].left)
           hit == files[c.chunk] = boot[g]
           x == IF rest = <<>> THEN "reply" ELSE "read"
           y == op[g].out \o Slice(c)
           z == IF hit THEN op[g].fetched ELSE op[g].fetched \cup {c.chunk}
           p == [op[g] EXCEPT !.at = x]  q == [p EXCEPT !.left = rest]
           r == [q EXCEPT !.out = y]  o == [r EXCEPT !.fetched = z]
<1>2. op' = [op EXCEPT ![g].at = x, ![g].left = rest, ![g].out = @ \o Slice(c),
                       ![g].fetched = IF hit THEN @ ELSE @ \cup {c.chunk}]
  BY DEF ReadChunk
<1>0. x \in {"reply", "read"} /\ (x = "read" => rest # <<>>)
  OBVIOUS
<1>l. x = "read" => LeftFine(rest)
  <2>1. LeftFine(op[g].left)
    BY <1>1 DEF ReadChunk, At, OpsFine, OpFine
  <2>2. PICK S : op[g].left \in Seq(S) /\ \A e \in S : e.chunk \in Chunks
    BY <2>1 DEF LeftFine
  <2>3. rest \in Seq(S)
    BY <2>1, <2>2 DEF LeftFine
  <2> HIDE DEF rest, x
  <2> QED
    BY <1>0, <2>2, <2>3 DEF LeftFine
<1>a. op' = [op EXCEPT ![g].at = x, ![g].left = rest, ![g].out = y, ![g].fetched = z]
  BY <1>1, <1>2 DEF IsRequest
<1> HIDE DEF x, y, z, rest
<1>3. op' = [op EXCEPT ![g] = o]
  BY <1>1, <1>a
<1>4. IsRequest(p) /\ p.at = x
  BY <1>1, OneField
<1>5. IsRequest(q) /\ q.at = p.at /\ q.left = rest
  <2> HIDE DEF p
  <2> QED
    BY <1>4, OneField
<1>6. IsRequest(r) /\ r.at = q.at /\ r.left = q.left
  <2> HIDE DEF q
  <2> QED
    BY <1>5, OneField
<1>7. IsRequest(o) /\ o.at = r.at /\ o.left = r.left
  <2> HIDE DEF r
  <2> QED
    BY <1>6, OneField
<1> HIDE DEF o, p, q, r
<1> QED
  BY <1>0, <1>1, <1>l, <1>3, <1>4, <1>5, <1>6, <1>7, TurnsQuietly

\* A request arrives: it is refused, or sent to the handler of its face.
LEMMA AcceptOps ==
  ASSUME OpsFine, NEW g \in Gws, Accept(g)
  PROVE  OpStep
<1>1. PICK r \in Requests :
        LET next == IF Refusal(g, r) # 0 THEN Status(Refusal(g, r)) ELSE Handler(r) IN
          op' = [op EXCEPT ![g] = [Fresh(r) EXCEPT !.at = next.at, !.status = next.status]]
  BY DEF Accept
<1>2. acl' = acl /\ published' = published /\ g \in Actors
  BY DEF Accept, store, Actors
<1> DEFINE next == IF Refusal(g, r) # 0 THEN Status(Refusal(g, r)) ELSE Handler(r)
           f == Fresh(r)  x == next.at  s == next.status
           o == [f EXCEPT !.at = x, !.status = s]
<1>3. op' = [op EXCEPT ![g] = o]
  BY <1>1
<1>4. IsRequest(f) /\ f.req = r
  BY DEF IsRequest, Fresh
<1>5. x \in {"reply", "load", "head", "list", "size", "put", "delete", "propfind"}
      /\ (x \in {"put", "delete"} => SignedFor(g, r)) /\ (x \in {"load", "head"} => r.key \in Keys)
  <2>1. CASE Refusal(g, r) # 0
    BY <2>1 DEF Status
  <2>2. CASE Refusal(g, r) = 0
    <3>1. next = Handler(r)
      BY <2>2
    <3> HIDE DEF next
    <3> QED
      BY <2>2, <3>1, HandlerAt, HandlerIs, GatewayAssumption
  <2> QED
    BY <2>1, <2>2
<1> HIDE DEF f, x, s
<1>6. IsRequest(o) /\ o.at = x /\ o.req = f.req
  <2>1. o = Turned(f, x, s)
    BY DEF Turned
  <2> HIDE DEF o
  <2> QED
    BY <1>4, <2>1, RequestSet
<1> HIDE DEF o
<1>7. OpFine(g, o)
  BY <1>4, <1>5, <1>6 DEF OpFine
<1>8. o.at # "enqueue"
  BY <1>5, <1>6
<1> QED
  BY <1>2, <1>3, <1>7, <1>8, OpTurns

\* A request ends.
LEMMA IdleOps ==
  ASSUME OpsFine, acl' = acl, published' = published, NEW a \in Actors, op' = [op EXCEPT ![a] = AtRest]
  PROVE  OpStep
<1>1. AtRest.at = "idle"
  BY DEF AtRest
<1>2. OpFine(a, AtRest)
  BY <1>1 DEF OpFine
<1> QED
  BY <1>1, <1>2, OpTurns

\* What put and rm prepare where keys can only be created.
LEMMA PendingIs ==
  ASSUME StoreFine, NEW a \in Actors, NEW k, NEW m \in Objects, Live(k) = Gone
  PROVE  OpFine(a, Pending(k, m)) /\ Pending(k, m).at = "enqueue"
<1> DEFINE p == Pending(k, m)
<1>1. p.at = "enqueue" /\ p.key = k /\ p.entry.lamport = bucket[k].lamport + 1 /\ p.entry.object = m
  BY DEF Pending
<1>2. acl = {"append"} /\ k \in Keys => bucket[k] = published[k] /\ published[k].object = Gone
  BY AbsentIs DEF Live
<1>3. m # Gone
  BY GatewayAssumption
<1> HIDE DEF p
<1>4. acl = {"append"} /\ k \in Keys => FitsIn(published, k, p.entry)
  BY <1>1, <1>2, <1>3 DEF FitsIn
<1>5. OpFine(a, p)
  BY <1>1, <1>3, <1>4 DEF OpFine
<1> QED
  BY <1>1, <1>5 DEF p

\* A device that may only append may not replace.
LEMMA MayNotWrite ==
  ASSUME acl = {"append"}
  PROVE  ~MayWrite
<1>1. {"append"} \in SUBSET {"read", "append", "write"}
  OBVIOUS
<1>2. NoAcl # {"append"}
  BY <1>1, GatewayAssumption
<1> QED
  BY <1>2 DEF MayWrite

\* What a put goes on to.
LEMMA PutNextIs ==
  ASSUME StoreFine, NEW a \in Actors, NEW k, NEW m \in Objects, NEW denied,
         OpFine(a, denied)
  PROVE  OpFine(a, PutNext(k, m, denied)) /\ (PutNext(k, m, denied) = denied \/ PutNext(k, m, denied).at = "enqueue")
<1>1. CASE Live(k) = Gone
  BY <1>1, PendingIs DEF PutNext
<1>2. CASE Live(k) # Gone
  <2>1. CASE acl = {"append"}
    BY <1>2, <2>1, MayNotWrite DEF PutNext
  <2>2. CASE acl # {"append"}
    <3>1. Pending(k, m).at = "enqueue" /\ Pending(k, m).entry.object = m
      BY DEF Pending
    <3>2. OpFine(a, Pending(k, m))
      BY <3>1, <2>2 DEF OpFine
    <3> QED
      BY <3>1, <3>2 DEF PutNext
  <2> QED
    BY <2>1, <2>2
<1> QED
  BY <1>1, <1>2

\* What a delete goes on to.
LEMMA DeleteNextIs ==
  ASSUME NEW a \in Actors, NEW k, NEW denied, NEW missing, OpFine(a, denied), OpFine(a, missing)
  PROVE  /\ OpFine(a, DeleteNext(k, denied, missing))
         /\ \/ DeleteNext(k, denied, missing) \in {denied, missing}
            \/ DeleteNext(k, denied, missing).at = "enqueue"
<1>1. Pending(k, Gone).at = "enqueue" /\ Pending(k, Gone).entry.object = Gone
  BY DEF Pending
<1>2. MayWrite => OpFine(a, Pending(k, Gone))
  BY <1>1, MayNotWrite DEF OpFine
<1> QED
  BY <1>1, <1>2 DEF DeleteNext

\* A put through a gateway.
LEMMA PutOps ==
  ASSUME OpsFine, StoreFine, NEW g \in Gws, PutStep(g)
  PROVE  OpStep
<1> DEFINE d == [op[g] EXCEPT !.at = "reply", !.status = 403]
<1>1. PICK m \in Objects : op' = [op EXCEPT ![g] = PutNext(op[g].req.key, m, d)]
  <2>1. op = [a \in Actors |-> op[a]] /\ g \in Actors
    BY DEF OpsFine, Actors
  <2> QED
    BY <2>1 DEF PutStep
<1>2. op[g].at = "put" /\ acl' = acl /\ published' = published /\ g \in Actors
  BY DEF PutStep, At, Quiet, store, Actors
<1>3. IsRequest(op[g]) /\ SignedFor(g, op[g].req)
  BY <1>2, IsBusy DEF OpsFine, OpFine
<1>4. IsRequest(d) /\ d.at = "reply"
  <2>1. d = Turned(op[g], "reply", 403)
    BY DEF Turned
  <2> HIDE DEF d
  <2> QED
    BY <1>3, <2>1, RequestSet
<1> HIDE DEF d
<1>5. OpFine(g, d)
  BY <1>4 DEF OpFine
<1>6. OpFine(g, PutNext(op[g].req.key, m, d))
  BY <1>2, <1>5, PutNextIs
<1> QED
  BY <1>1, <1>2, <1>3, <1>6, OpTurns

\* A delete through a gateway.
LEMMA DeleteOps ==
  ASSUME OpsFine, NEW g \in Gws, DeleteStep(g)
  PROVE  OpStep
<1> DEFINE d == [op[g] EXCEPT !.at = "reply", !.status = 403]
           n == [op[g] EXCEPT !.at = "reply", !.status = 404]
<1>1. op' = [op EXCEPT ![g] = DeleteNext(op[g].req.key, d, n)]
  <2>1. op = [a \in Actors |-> op[a]] /\ g \in Actors
    BY DEF OpsFine, Actors
  <2> QED
    BY <2>1 DEF DeleteStep
<1>2. op[g].at = "delete" /\ acl' = acl /\ published' = published /\ g \in Actors
  BY DEF DeleteStep, At, Quiet, store, Actors
<1>3. IsRequest(op[g]) /\ SignedFor(g, op[g].req)
  BY <1>2, IsBusy DEF OpsFine, OpFine
<1>4. IsRequest(d) /\ d.at = "reply" /\ IsRequest(n) /\ n.at = "reply"
  <2>1. d = Turned(op[g], "reply", 403) /\ n = Turned(op[g], "reply", 404)
    BY DEF Turned
  <2> HIDE DEF d, n
  <2> QED
    BY <1>3, <2>1, RequestSet
<1> HIDE DEF d, n
<1>5. OpFine(g, d) /\ OpFine(g, n)
  BY <1>4 DEF OpFine
<1>6. OpFine(g, DeleteNext(op[g].req.key, d, n))
  BY <1>2, <1>5, DeleteNextIs
<1> QED
  BY <1>1, <1>2, <1>3, <1>6, OpTurns

\* A command.
LEMMA CliOps ==
  ASSUME OpsFine, StoreFine, CliStart
  PROVE  OpStep
<1>1. acl' = acl /\ published' = published /\ Cli \in Actors /\ Cli \notin Gws
  BY GatewayAssumption DEF CliStart, store, Actors
<1>2. OpFine(Cli, AtRest)
  BY <1>1 DEF OpFine, AtRest
<1>3. ASSUME NEW k, NEW m \in Objects, op' = [op EXCEPT ![Cli] = PutNext(k, m, AtRest)] PROVE OpStep
  <2>1. OpFine(Cli, PutNext(k, m, AtRest))
    BY <1>1, <1>2, PutNextIs
  <2> QED
    BY <1>1, <1>3, <2>1, OpTurns
<1>4. ASSUME NEW k, op' = [op EXCEPT ![Cli] = DeleteNext(k, AtRest, AtRest)] PROVE OpStep
  <2>1. OpFine(Cli, DeleteNext(k, AtRest, AtRest))
    BY <1>1, <1>2, DeleteNextIs
  <2> QED
    BY <1>1, <1>4, <2>1, OpTurns
<1> QED
  BY <1>3, <1>4 DEF CliStart

-----------------------------------------------------------------------------
(* Writes and syncs. *)

\* A number is taken for a delta, which is as it was.
LEMMA TakeOps ==
  ASSUME OpsFine, NEW a \in Actors, TakeSeq(a)
  PROVE  OpStep /\ op'[a].at = "write" /\ \A b \in Actors : b # a => op'[b] = op[b]
<1>1. PICK n \in Seqs :
        op' = [op EXCEPT ![a] = [at |-> "write", key |-> op[a].key, entry |-> op[a].entry, seq |-> n]]
  <2>1. op = [b \in Actors |-> op[b]]
    BY DEF OpsFine
  <2> QED
    BY <2>1 DEF TakeSeq
<1>2. op[a].at = "enqueue" /\ acl' = acl /\ published' = published
  BY DEF TakeSeq, Quiet, store
<1> DEFINE o == [at |-> "write", key |-> op[a].key, entry |-> op[a].entry, seq |-> n]
<1>3. o.at = "write" /\ o.key = op[a].key /\ o.entry = op[a].entry /\ o.seq = n
  OBVIOUS
<1>4. OpFine(a, op[a]) /\ op' = [op EXCEPT ![a] = o]
  BY <1>1 DEF OpsFine
<1> HIDE DEF o
<1>5. OpFine(a, o)
  BY <1>2, <1>3, <1>4 DEF OpFine
<1>6. OpStep
  BY <1>2, <1>3, <1>4, <1>5, OpTurns
<1> QED
  BY <1>2, <1>3, <1>4, <1>5, <1>6, OpReplaced

\* A delta that is written fits HEAD.
LEMMA DeltaStores ==
  ASSUME OpsFine, StoreFine, NEW a \in Actors, WriteFile(a)
  PROVE  StoreFine'
<1> DEFINE s == op[a].seq  d == [key |-> op[a].key, entry |-> op[a].entry]
<1>1. /\ outbox' = [outbox EXCEPT ![s] = d] /\ published' = published /\ acl' = acl
      /\ op[a].at = "write"
  BY DEF WriteFile
<1>2. /\ d.key \in Keys => d.entry.object \in Objects \cup {Gone}
      /\ acl = {"append"} /\ d.key \in Keys => FitsIn(published, d.key, d.entry)
  BY <1>1 DEF OpsFine, OpFine
<1> HIDE DEF s, d
<1>3. outbox = [n \in Seqs |-> outbox[n]] /\ StoreOf(published, outbox)
  BY DEF StoreFine, StoreOf
<1>4. /\ outbox' = [n \in Seqs |-> outbox'[n]]
      /\ \A n \in Seqs : outbox'[n] = IF n = s THEN d ELSE outbox[n]
  BY <1>1, <1>3
<1>5. /\ \A n \in Seqs : outbox'[n] # Gone /\ outbox'[n].key \in Keys =>
                          outbox'[n].entry.object \in Objects \cup {Gone}
      /\ acl = {"append"} => \A n \in Seqs : outbox'[n] # Gone /\ outbox'[n].key \in Keys =>
                               FitsIn(published, outbox'[n].key, outbox'[n].entry)
  BY <1>2, <1>3, <1>4 DEF StoreOf
<1>6. StoreOf(published, outbox')
  BY <1>3, <1>4, <1>5 DEF StoreOf
<1> QED
  BY <1>1, <1>6 DEF StoreFine, StoreOf, FitsIn, Seqs

\* Where keys can only be created, a delta with a number above those of all files
\* changes no key that is there: HEAD has it, or an earlier delta made it.
LEMMA WriteKeeps ==
  ASSUME OpsFine, StoreFine, NEW a \in Actors, WriteFile(a), acl = {"append"},
         NEW k \in Keys, bucket[k].object # Gone, bucket'[k] # bucket[k]
  PROVE  \E n \in Seqs : outbox[n] # Gone /\ n >= op[a].seq
<1> DEFINE s == op[a].seq  d == [key |-> op[a].key, entry |-> op[a].entry]
<1>1. outbox' = [outbox EXCEPT ![s] = d] /\ published' = published /\ op[a].at = "write"
  BY DEF WriteFile
<1>2. s \in Seqs
  BY <1>1 DEF OpsFine, OpFine
<1>a. s = op[a].seq
  OBVIOUS
<1> HIDE DEF s, d
<1>3. bucket[k] = EntryIn(published, outbox, k) /\ bucket'[k] = EntryIn(published, outbox', k)
  BY <1>1, ViewIs
<1>4. StoreOf(published, outbox) /\ StoreOf(published, outbox')
  <2>1. StoreFine'
    BY DeltaStores
  <2>2. acl' = acl
    BY DEF WriteFile
  <2> QED
    BY <1>1, <2>1, <2>2 DEF StoreFine, StoreOf, FitsIn, Seqs
<1>5. published[k].object = Gone
  BY <1>3, <1>4, FittingIs
<1>6. PICK n \in FilesIn(outbox, k) : LastIn(published, outbox, k, n) /\ bucket[k] = outbox[n].entry
  BY <1>3, <1>5, EntryIs
<1>7. SUFFICES ASSUME \A i \in Seqs : outbox[i] # Gone => ~(i >= s) PROVE FALSE
  BY <1>a
<1>8. /\ outbox = [i \in Seqs |-> outbox[i]] /\ n \in Seqs /\ outbox[n] # Gone /\ outbox[n].key = k
      /\ Seqs \subseteq Nat
  BY <1>4 DEF StoreOf, FilesIn, Seqs
<1>9. n # s /\ outbox'[n] = outbox[n] /\ \A i \in Seqs : i # s => outbox'[i] = outbox[i]
  BY <1>1, <1>2, <1>7, <1>8
<1>10. n \in FilesIn(outbox', k)
  BY <1>8, <1>9 DEF FilesIn
<1>11. LastIn(published, outbox', k, n)
  <2>1. Overrides(outbox'[n].entry, published[k])
    BY <1>6, <1>9 DEF LastIn
  <2>2. ASSUME NEW i \in FilesIn(outbox', k), i < n PROVE Overrides(outbox'[n].entry, outbox'[i].entry)
    <3>1. i \in Seqs /\ i # s
      BY <1>2, <1>7, <1>8, <2>2 DEF FilesIn
    <3>2. i \in FilesIn(outbox, k) /\ outbox'[i] = outbox[i]
      BY <1>9, <3>1 DEF FilesIn
    <3> QED
      BY <1>6, <1>9, <2>2, <3>2 DEF LastIn
  <2>3. ASSUME NEW i \in FilesIn(outbox', k) PROVE ~Overrides(outbox'[i].entry, outbox'[n].entry)
    <3>1. FitsIn(published, k, outbox'[i].entry) /\ FitsIn(published, k, outbox'[n].entry)
      BY <1>4, <1>10, <2>3 DEF StoreOf, FilesIn
    <3>2. published[k].lamport \in Nat
      BY <1>4 DEF StoreOf
    <3> QED
      BY <1>5, <3>1, <3>2 DEF FitsIn, Overrides
  <2> QED
    BY <2>1, <2>2, <2>3 DEF LastIn
<1>12. EntryIn(published, outbox', k) = outbox'[n].entry
  BY <1>10, <1>11, OneLast
<1> QED
  BY <1>3, <1>6, <1>9, <1>12

\* A sync makes HEAD of the view and leaves no delta: the view is as it was, and
\* what is on its way fits the new HEAD.
LEMMA ReplayStores ==
  ASSUME OpsFine, StoreFine, Replay
  PROVE  bucket' = bucket /\ StoreFine' /\ OpsFine' /\ Signed
<1>1. published' = bucket /\ outbox' = [n \in Seqs |-> Gone] /\ op' = op /\ acl' = acl
  BY DEF Replay
<1>2. BucketFine
  BY BucketIs
<1>3. \A n \in Seqs : outbox'[n] = Gone
  BY <1>1
<1>4. bucket' = bucket
  <2>1. \A k : FilesIn(outbox', k) = {}
    BY <1>3 DEF FilesIn
  <2>2. \A k \in Keys : EntryIn(published', outbox', k) = bucket[k]
    BY <1>1, <2>1 DEF EntryIn
  <2>3. bucket = [k \in Keys |-> bucket[k]]
    BY <1>2 DEF BucketFine
  <2> QED
    BY <2>2, <2>3, ViewIs
<1>5. ASSUME acl = {"append"}, NEW k \in Keys
      PROVE  /\ bucket[k].lamport \in Nat
             /\ \A e : FitsIn(published, k, e) => FitsIn(bucket, k, e)
  <2>1. StoreOf(published, outbox) /\ published[k].lamport \in Nat
    BY <1>5 DEF StoreFine, StoreOf
  <2>2. bucket[k] = EntryIn(published, outbox, k)
    BY ViewIs
  <2>3. /\ published[k].object # Gone => bucket[k] = published[k]
        /\ published[k].object = Gone =>
             bucket[k] = published[k] \/ (bucket[k].object # Gone /\ bucket[k].lamport = published[k].lamport + 1)
    BY <1>5, <2>1, <2>2, FittingIs
  <2> QED
    BY <2>1, <2>3 DEF FitsIn
<1>6. StoreFine'
  <2>1. /\ published' = [k \in Keys |-> published'[k]] /\ outbox' = [n \in Seqs |-> outbox'[n]]
        /\ \A k \in Keys : published'[k].object \in Objects \cup {Gone}
    BY <1>1, <1>2 DEF BucketFine
  <2>2. acl = {"append"} => \A k \in Keys : published'[k].lamport \in Nat
    BY <1>1, <1>5
  <2>3. StoreOf(published', outbox')
    BY <1>3, <2>1, <2>2 DEF StoreOf
  <2> QED
    BY <1>1, <2>3 DEF StoreFine, StoreOf, FitsIn, Seqs
<1>7. OpsFine'
  <2>1. ASSUME NEW b \in Actors PROVE OpFine(b, op[b])'
    <3>1. OpFine(b, op[b])
      BY DEF OpsFine
    <3>2. ASSUME acl = {"append"}, op[b].at \in {"enqueue", "write"}, op[b].key \in Keys
          PROVE  FitsIn(bucket, op[b].key, op[b].entry)
      BY <1>5, <3>1, <3>2 DEF OpFine
    <3>3. ASSUME acl = {"append"}, op[b].at \in {"enqueue", "write"}, op[b].key \in Keys
          PROVE  FitsIn(published', op[b].key, op[b].entry)
      BY <1>1, <3>2, <3>3
    <3> QED
      BY <1>1, <3>1, <3>3 DEF OpFine, IsRequest, SignedFor, LeftFine, FitsIn, Gws, Chunks, Seqs
  <2>2. op' = [b \in Actors |-> op'[b]]
    BY <1>1 DEF OpsFine
  <2> QED
    BY <2>1, <2>2 DEF OpsFine, Actors, Gws
<1> QED
  BY <1>1, <1>4, <1>6, <1>7 DEF Signed

-----------------------------------------------------------------------------
(* The cache. *)

\* The recursive function of retain is what its equation says.
LEMMA RetainRuns ==
  ASSUME NEW S, NEW q \in Seq(S), NEW c
  PROVE  \E f : /\ Retain(q, c) = f[Len(q)] /\ f[0] = <<>>
                /\ \A i \in 1 .. Len(q) : f[i] = IF q[i] = c THEN f[i - 1] ELSE Append(f[i - 1], q[i])
<1> DEFINE L == Len(q)
           At2(f, i) == IF i = 0 THEN <<>> ELSE IF q[i] = c THEN f[i - 1] ELSE Append(f[i - 1], q[i])
           F == CHOOSE f : f = [i \in 0 .. L |-> At2(f, i)]
           V == Seq(S)
           G == [p \in (1 .. L) \X V |-> IF q[p[1]] = c THEN p[2] ELSE Append(p[2], q[p[1]])]
<1>1. L \in Nat /\ \A i \in 1 .. L : q[i] \in S
  BY LenProperties, ElementOfSeq
<1>2. Retain(q, c) = F[L]
  BY DEF Retain
<1> HIDE DEF L
<1>0. <<>> \in V
  OBVIOUS
<1>3. PICK f \in [0 .. L -> V] : f[0] = <<>> /\ \A i \in 1 .. L : f[i] = G[<<i, f[i - 1]>>]
  <2>1. ASSUME NEW p \in (1 .. L) \X V PROVE Append(p[2], q[p[1]]) \in V /\ p[2] \in V
    <3>1. p[2] \in V /\ q[p[1]] \in S
      BY <1>1
    <3> QED
      BY <3>1, AppendProperties
  <2> HIDE DEF V
  <2>2. G \in [(1 .. L) \X V -> V]
    BY <2>1
  <2> DEFINE b == <<>>
  <2>3. b \in V
    BY <1>0
  <2> HIDE DEF G, b
  <2>4. \E f : IsLoop(L, V, b, G, f)
    BY <1>1, <2>2, <2>3, LoopRuns
  <2> QED
    BY <2>4 DEF IsLoop, b
<1> HIDE DEF V
<1>4. ASSUME NEW i \in 1 .. L PROVE i - 1 \in 0 .. L /\ i \in 0 .. L /\ i # 0
  BY <1>1
<1>5. ASSUME NEW i \in 0 .. L PROVE f[i] = At2(f, i)
  <2>1. CASE i = 0
    BY <2>1, <1>3
  <2>2. CASE i # 0
    <3>1. i \in 1 .. L
      BY <2>2, <1>1
    <3>2. <<i, f[i - 1]>> \in (1 .. L) \X V
      BY <3>1, <1>3, <1>4
    <3>3. G[<<i, f[i - 1]>>] = IF q[i] = c THEN f[i - 1] ELSE Append(f[i - 1], q[i])
      BY <3>2
    <3> QED
      BY <3>1, <3>3, <1>3, <2>2
  <2> QED
    BY <2>1, <2>2
<1>6. f = [i \in 0 .. L |-> At2(f, i)]
  <2> HIDE DEF At2
  <2> QED
    BY <1>3, <1>5
<1>7. F = [i \in 0 .. L |-> At2(F, i)]
  <2> HIDE DEF At2
  <2> QED
    BY <1>6
<1> HIDE DEF F
<1>8. \A i \in 0 .. L : F[i] = At2(F, i)
  <2> HIDE DEF At2
  <2> QED
    BY <1>7
<1>9. F[0] = <<>> /\ \A i \in 1 .. L : F[i] = IF q[i] = c THEN F[i - 1] ELSE Append(F[i - 1], q[i])
  <2>1. 0 \in 0 .. L
    BY <1>1
  <2> QED
    BY <1>4, <1>8, <2>1
<1> QED
  BY <1>2, <1>9 DEF L

\* What is retained: everything but c, and less than there was if c was there.
Retained(q, c, n, r) ==
  /\ Len(r) <= n
  /\ (\E j \in 1 .. n : q[j] = c) => Len(r) < n
  /\ \A j \in 1 .. n : q[j] # c => InQueue(q[j], r)

\* The loop of retain leaves all but c.
LEMMA RetainIs ==
  ASSUME NEW S, NEW q \in Seq(S), NEW c
  PROVE  Retain(q, c) \in Seq(S) /\ Retained(q, c, Len(q), Retain(q, c))
<1> DEFINE L == Len(q)
<1>1. L \in Nat /\ \A i \in 1 .. L : q[i] \in S
  BY LenProperties, ElementOfSeq
<1>2. PICK f : /\ Retain(q, c) = f[L] /\ f[0] = <<>>
               /\ \A i \in 1 .. L : f[i] = IF q[i] = c THEN f[i - 1] ELSE Append(f[i - 1], q[i])
  BY <1>1, RetainRuns
<1> HIDE DEF L
<1> DEFINE Wrong == {n \in 0 .. L : ~(f[n] \in Seq(S) /\ Retained(q, c, n, f[n]))}
<1>3. Wrong = {}
  <2>1. SUFFICES ASSUME Wrong # {} PROVE FALSE
    OBVIOUS
  <2>2. PICK n \in Wrong : \A m \in Wrong : n <= m
    <3>1. Wrong \in SUBSET Nat
      BY <1>1
    <3> HIDE DEF Wrong
    <3> QED
      BY <2>1, <3>1, LeastPlace
  <2>3. n \in 0 .. L /\ ~(f[n] \in Seq(S) /\ Retained(q, c, n, f[n]))
    BY <2>2
  <2>4. n # 0
    <3>1. f[0] \in Seq(S) /\ Len(f[0]) = 0 /\ 1 .. 0 = {}
      BY <1>2
    <3>2. Retained(q, c, 0, f[0])
      BY <3>1 DEF Retained
    <3> QED
      BY <2>3, <3>1, <3>2
  <2>5. n \in 1 .. L /\ n - 1 \in 0 .. L /\ ~(n <= n - 1) /\ n \in Nat
    BY <2>3, <2>4, <1>1
  <2>6. f[n - 1] \in Seq(S) /\ Retained(q, c, n - 1, f[n - 1])
    <3>1. n - 1 \notin Wrong
      <4> HIDE DEF Wrong
      <4> QED
        BY <2>2, <2>5
    <3> QED
      BY <3>1, <2>5
  <2> DEFINE r == f[n - 1]  t == f[n]
  <2>7. r \in Seq(S) /\ Len(r) \in Nat /\ t = IF q[n] = c THEN r ELSE Append(r, q[n])
    BY <2>5, <2>6, <1>2, LenProperties
  <2>8. /\ Len(r) <= n - 1
        /\ (\E j \in 1 .. n - 1 : q[j] = c) => Len(r) < n - 1
        /\ \A j \in 1 .. n - 1 : q[j] # c => InQueue(q[j], r)
    BY <2>6 DEF Retained
  <2>9. q[n] \in S /\ \A j \in 1 .. n : j = n \/ j \in 1 .. n - 1
    BY <2>5, <1>1
  <2> HIDE DEF r, t, Wrong
  <2>10. CASE q[n] = c
    <3>1. t = r
      BY <2>7, <2>10
    <3>2. Len(r) < n /\ Len(r) <= n
      BY <2>5, <2>7, <2>8
    <3>3. Retained(q, c, n, t)
      BY <3>1, <3>2, <2>8, <2>9, <2>10 DEF Retained
    <3> QED
      BY <3>1, <3>3, <2>3, <2>7 DEF t
  <2>11. CASE q[n] # c
    <3>1. t = Append(r, q[n])
      BY <2>7, <2>11
    <3>2. t \in Seq(S) /\ Len(t) = Len(r) + 1 /\ t[Len(r) + 1] = q[n] /\ \A i \in 1 .. Len(r) : t[i] = r[i]
      <4> DEFINE v == q[n]
      <4>1. v \in S /\ t = Append(r, v) /\ r \in Seq(S)
        BY <3>1, <2>7, <2>9
      <4> HIDE DEF v
      <4>2. t \in Seq(S) /\ Len(t) = Len(r) + 1 /\ t[Len(r) + 1] = v /\ \A i \in 1 .. Len(r) : t[i] = r[i]
        BY <4>1, AppendProperties
      <4> QED
        BY <4>2 DEF v
    <3>3. Len(t) <= n /\ (Len(r) < n - 1 => Len(t) < n)
      BY <3>2, <2>5, <2>7, <2>8
    <3>4. InQueue(q[n], t)
      BY <3>2, <2>7 DEF InQueue
    <3>5. \A x : InQueue(x, r) => InQueue(x, t)
      BY <3>2, <2>7 DEF InQueue
    <3>6. \A j \in 1 .. n : q[j] # c => InQueue(q[j], t)
      BY <3>4, <3>5, <2>8, <2>9
    <3>7. (\E j \in 1 .. n : q[j] = c) => Len(t) < n
      BY <3>3, <2>8, <2>9, <2>11
    <3>8. Retained(q, c, n, t)
      BY <3>3, <3>6, <3>7 DEF Retained
    <3> QED
      BY <3>2, <3>8, <2>3 DEF t
  <2> QED
    BY <2>10, <2>11
<1>4. L \in 0 .. L
  BY <1>1
<1> QED
  BY <1>2, <1>3, <1>4 DEF L

\* A chunk that is touched is last in the queue, and no other is dropped.
LEMMA TouchIs ==
  ASSUME NEW S, NEW q \in Seq(S), NEW c
  PROVE  /\ Touch(q, c) \in Seq(S \cup {c}) /\ Len(Touch(q, c)) \in Nat
         /\ Len(Touch(q, c)) <= Len(q) + 1
         /\ InQueue(c, q) => Len(Touch(q, c)) <= Len(q)
         /\ Len(Touch(q, c)) > 0 /\ Touch(q, c)[Len(Touch(q, c))] = c
         /\ \A x : InQueue(x, q) => InQueue(x, Touch(q, c))
<1> DEFINE r == Retain(q, c)  t == Touch(q, c)
<1>1. r \in Seq(S) /\ Retained(q, c, Len(q), r) /\ t = Append(r, c) /\ Len(q) \in Nat
  BY RetainIs, LenProperties DEF Touch
<1> HIDE DEF r, t
<1>2. r \in Seq(S \cup {c}) /\ Len(r) \in Nat
  <2>1. S \subseteq S \cup {c}
    OBVIOUS
  <2> QED
    BY <1>1, <2>1, LenProperties
<1>3. t \in Seq(S \cup {c}) /\ Len(t) = Len(r) + 1 /\ t[Len(r) + 1] = c /\ \A i \in 1 .. Len(r) : t[i] = r[i]
  BY <1>1, <1>2
<1>4. Len(r) <= Len(q) /\ (InQueue(c, q) => Len(r) < Len(q))
  BY <1>1 DEF Retained, InQueue
<1>5. Len(t) \in Nat /\ Len(t) <= Len(q) + 1 /\ (InQueue(c, q) => Len(t) <= Len(q)) /\ Len(t) > 0 /\ t[Len(t)] = c
  BY <1>1, <1>2, <1>3, <1>4
<1>6. ASSUME NEW x, InQueue(x, q) PROVE InQueue(x, t)
  <2>1. PICK j \in 1 .. Len(q) : q[j] = x
    BY <1>6 DEF InQueue
  <2>2. CASE x = c
    <3>1. Len(t) \in 1 .. Len(t)
      BY <1>5
    <3> QED
      BY <3>1, <2>2, <1>5 DEF InQueue
  <2>3. CASE x # c
    <3>1. InQueue(x, r)
      BY <1>1, <2>1, <2>3 DEF Retained
    <3> QED
      BY <3>1, <1>2, <1>3 DEF InQueue
  <2> QED
    BY <2>2, <2>3
<1> QED
  BY <1>3, <1>5, <1>6 DEF t

\* put: the queue is within its cap, and a file that is not evicted is in it.
LEMMA EvictIs ==
  ASSUME NEW S, NEW t \in Seq(S), Len(t) \in Nat, NEW over,
         over = IF Len(t) > Cap THEN Len(t) - Cap ELSE 0
  PROVE  /\ IsQueue(SubSeq(t, over + 1, Len(t)))
         /\ \A x : InQueue(x, t) /\ x \notin {t[i] : i \in 1 .. over} => InQueue(x, SubSeq(t, over + 1, Len(t)))
<1> DEFINE n == Len(t)  u == SubSeq(t, over + 1, n)
<1>1. Cap \in Nat /\ n \in Nat
  BY GatewayAssumption
<1> HIDE DEF n
<1>2. over \in Nat /\ over <= n /\ n - over <= Cap
  BY <1>1 DEF n
<1>3. \A i \in 1 .. n : t[i] \in S
  BY ElementOfSeq DEF n
<1>4. u \in Seq(S) /\ Len(u) = n - over /\ \A i \in 1 .. n - over : u[i] = t[over + i]
  <2>1. \A i \in (over + 1) .. n : t[i] \in S
    BY <1>1, <1>2, <1>3
  <2> DEFINE m == over + 1
  <2>2. m \in Int /\ n \in Int
    BY <1>1, <1>2
  <2>3. /\ u \in Seq(S) /\ Len(u) = IF m <= n THEN n - m + 1 ELSE 0
        /\ \A i \in 1 .. n - m + 1 : u[i] = t[m + i - 1]
    <3> HIDE DEF m
    <3> QED
      BY <2>1, <2>2, SubSeqProperties DEF m
  <2> HIDE DEF u
  <2>4. n - m + 1 = n - over /\ (m <= n \/ n - over = 0)
    BY <1>1, <1>2
  <2>5. \A i \in 1 .. n - over : m + i - 1 = over + i
    BY <1>1, <1>2
  <2> HIDE DEF m
  <2>6. Len(u) = n - over
    <3>1. m <= n \/ ~(m <= n)
      OBVIOUS
    <3> QED
      BY <2>3, <2>4
  <2> QED
    BY <2>3, <2>4, <2>5, <2>6
<1> HIDE DEF u
<1>5. ASSUME NEW x, InQueue(x, t), x \notin {t[i] : i \in 1 .. over} PROVE InQueue(x, u)
  <2>1. PICK j \in 1 .. n : t[j] = x
    BY <1>5 DEF InQueue, n
  <2>2. j \notin 1 .. over
    BY <1>5, <2>1
  <2>3. j - over \in 1 .. n - over /\ over + (j - over) = j
    BY <1>1, <1>2, <2>1, <2>2
  <2>4. u[j - over] = x
    BY <1>4, <2>1, <2>3
  <2> QED
    BY <1>4, <2>3, <2>4 DEF InQueue
<1>6. IsQueue(u)
  BY <1>2, <1>4 DEF IsQueue
<1> QED
  BY <1>5, <1>6 DEF u, n

\* A gateway that starts has swept what it cannot read.
LEMMA OpenCache ==
  ASSUME CacheFine, NEW g \in Gws, Open(g)
  PROVE  CacheFine'
<1>1. /\ boot[g] = 0 /\ boots' = boots + 1 /\ boot' = [boot EXCEPT ![g] = boots + 1]
      /\ files' = Sweep(files, boots + 1) /\ order' = [order EXCEPT ![g] = <<>>]
  BY DEF Open
<1>2. /\ boots \in Nat /\ boot = [h \in Gws |-> boot[h]] /\ \A h \in Gws : boot[h] \in 0 .. boots
      /\ \A h, i \in Gws : boot[h] = boot[i] /\ boot[h] # 0 => h = i
      /\ \A c \in Chunks : files[c] \in 0 .. boots
      /\ order = [h \in Gws |-> order[h]] /\ \A h \in Gws : IsQueue(order[h])
  BY DEF CacheFine, CacheOf
<1>3. files' = [c \in Chunks |-> files'[c]] /\ \A c \in Chunks : files'[c] = 0
  <2>1. \A c \in Chunks : files[c] # boots + 1
    BY <1>2
  <2> QED
    BY <1>1, <2>1 DEF Sweep
<1>4. /\ boot' = [h \in Gws |-> boot'[h]] /\ boot'[g] = boots + 1
      /\ \A h \in Gws : h # g => boot'[h] = boot[h]
  BY <1>1, <1>2
<1>5. \A h \in Gws : boot'[h] \in 0 .. boots' /\ (h # g => boot'[h] # boot'[g]) /\ boot'[g] # 0
  BY <1>1, <1>2, <1>4
<1>6. \A h, i \in Gws : boot'[h] = boot'[i] /\ boot'[h] # 0 => h = i
  BY <1>2, <1>4, <1>5
<1>7. order' = [h \in Gws |-> order'[h]] /\ \A h \in Gws : IsQueue(order'[h])
  <2>1. IsQueue(<<>>)
    <3>1. <<>> \in Seq({}) /\ Len(<<>>) = 0
      OBVIOUS
    <3>2. 0 <= Cap
      BY GatewayAssumption
    <3> QED
      BY <3>1, <3>2 DEF IsQueue
  <2>2. order' = [h \in Gws |-> order'[h]] /\ order'[g] = <<>> /\ \A h \in Gws : h # g => order'[h] = order[h]
    BY <1>1, <1>2
  <2> QED
    BY <1>2, <2>1, <2>2
<1>8. boots' \in Nat /\ \A c \in Chunks : files'[c] \in 0 .. boots'
  BY <1>1, <1>2, <1>3
<1>9. \A c \in Chunks, h \in Gws : boot'[h] # 0 => files'[c] # boot'[h]
  BY <1>3
<1> QED
  BY <1>3, <1>4, <1>5, <1>6, <1>7, <1>8, <1>9 DEF CacheFine, CacheOf

\* One that is killed leaves files that no key opens any more.
LEMMA KillCache ==
  ASSUME CacheFine, NEW g \in Gws, Kill(g)
  PROVE  CacheFine'
<1>1. boot' = [boot EXCEPT ![g] = 0] /\ files' = files /\ order' = order /\ boots' = boots
  BY DEF Kill
<1>2. /\ boots \in Nat /\ boot = [h \in Gws |-> boot[h]] /\ \A h \in Gws : boot[h] \in 0 .. boots
      /\ \A h, i \in Gws : boot[h] = boot[i] /\ boot[h] # 0 => h = i
      /\ files = [c \in Chunks |-> files[c]] /\ \A c \in Chunks : files[c] \in 0 .. boots
      /\ order = [h \in Gws |-> order[h]] /\ \A h \in Gws : IsQueue(order[h])
      /\ \A c \in Chunks, h \in Gws : boot[h] # 0 /\ files[c] = boot[h] => InQueue(c, order[h])
      /\ \A c \in Chunks : files[c] # 0 => \E h \in Gws : InQueue(c, order[h])
  BY DEF CacheFine, CacheOf
<1>3. boot' = [h \in Gws |-> boot'[h]] /\ boot'[g] = 0 /\ \A h \in Gws : h # g => boot'[h] = boot[h]
  BY <1>1, <1>2
<1>4. \A h \in Gws : boot'[h] \in 0 .. boots'
  BY <1>1, <1>2, <1>3
<1>5. \A h, i \in Gws : boot'[h] = boot'[i] /\ boot'[h] # 0 => h = i
  BY <1>2, <1>3
<1>6. \A c \in Chunks, h \in Gws : boot'[h] # 0 /\ files'[c] = boot'[h] => InQueue(c, order'[h])
  BY <1>1, <1>2, <1>3
<1> QED
  BY <1>1, <1>2, <1>3, <1>4, <1>5, <1>6 DEF CacheFine, CacheOf

\* A read that fills the cache evicts no more than it must.
LEMMA ReadCache ==
  ASSUME OpsFine, CacheFine, NEW g \in Gws, ReadChunk(g), boot[g] # 0
  PROVE  CacheFine'
<1> DEFINE c == Head(op[g].left).chunk
           t == Touch(order[g], c)
           over == IF Len(t) > Cap THEN Len(t) - Cap ELSE 0
           out == {t[i] : i \in 1 .. over}
           u == SubSeq(t, over + 1, Len(t))
           hit == files[c] = boot[g]
<1>1. boot' = boot /\ boots' = boots
  BY DEF ReadChunk
<1>2. /\ boots \in Nat /\ boot = [h \in Gws |-> boot[h]] /\ \A h \in Gws : boot[h] \in 0 .. boots
      /\ \A h, i \in Gws : boot[h] = boot[i] /\ boot[h] # 0 => h = i
      /\ files = [x \in Chunks |-> files[x]] /\ \A x \in Chunks : files[x] \in 0 .. boots
      /\ order = [h \in Gws |-> order[h]] /\ \A h \in Gws : IsQueue(order[h])
      /\ \A x \in Chunks, h \in Gws : boot[h] # 0 /\ files[x] = boot[h] => InQueue(x, order[h])
      /\ \A x \in Chunks : files[x] # 0 => \E h \in Gws : InQueue(x, order[h])
  BY DEF CacheFine, CacheOf
<1>3. \/ hit /\ order' = [order EXCEPT ![g] = t] /\ files' = files
      \/ /\ ~hit
         /\ files' = [x \in Chunks |-> IF x \in out THEN 0 ELSE IF x = c THEN boot[g] ELSE files[x]]
         /\ order' = [order EXCEPT ![g] = u]
  <2>1. CASE hit
    <3>1. order' = [order EXCEPT ![g] = Touch(@, c)] /\ files' = files
      BY <2>1 DEF ReadChunk
    <3> QED
      BY <2>1, <3>1, <1>2
  <2>2. CASE ~hit
    BY <2>2 DEF ReadChunk, CachePut
  <2> QED
    BY <2>1, <2>2
<1>4. PICK S : order[g] \in Seq(S)
  BY <1>2 DEF IsQueue
<1>5. Len(order[g]) <= Cap /\ Len(order[g]) \in Nat /\ Cap \in Nat
  BY <1>2, <1>4, LenProperties, GatewayAssumption DEF IsQueue
<1>6. /\ t \in Seq(S \cup {c}) /\ Len(t) \in Nat
      /\ InQueue(c, order[g]) => Len(t) <= Len(order[g])
      /\ Len(t) > 0 /\ t[Len(t)] = c
      /\ \A x : InQueue(x, order[g]) => InQueue(x, t)
  <2> DEFINE q == order[g]
  <2>1. q \in Seq(S) /\ t = Touch(q, c)
    BY <1>4
  <2> HIDE DEF q, c, t
  <2>2. /\ t \in Seq(S \cup {c}) /\ Len(t) \in Nat
        /\ InQueue(c, q) => Len(t) <= Len(q)
        /\ Len(t) > 0 /\ t[Len(t)] = c
        /\ \A x : InQueue(x, q) => InQueue(x, t)
    BY <2>1, TouchIs
  <2> QED
    BY <2>2 DEF q
<1>c. c \in Chunks
  <2>1. op[g].at = "read" /\ g \in Actors
    BY DEF ReadChunk, At, Actors
  <2>2. LeftFine(op[g].left)
    BY <2>1 DEF OpsFine, OpFine
  <2> DEFINE l == op[g].left
  <2>3. PICK T : l \in Seq(T) /\ (\A p \in T : p.chunk \in Chunks) /\ l # <<>>
    BY <2>2 DEF LeftFine
  <2> HIDE DEF l
  <2>4. Head(l) \in T
    BY <2>3, HeadTailProperties
  <2> QED
    BY <2>3, <2>4 DEF l
<1> HIDE DEF t
<1>7. IsQueue(u) /\ \A x : InQueue(x, t) /\ x \notin out => InQueue(x, u)
  BY <1>6, EvictIs
<1>8. InQueue(c, t)
  <2>1. Len(t) \in 1 .. Len(t)
    BY <1>6
  <2> QED
    BY <1>6, <2>1 DEF InQueue
<1> HIDE DEF over, out, u, c, hit
<1>9. CASE hit /\ order' = [order EXCEPT ![g] = t] /\ files' = files
  <2>1. order' = [h \in Gws |-> order'[h]] /\ order'[g] = t /\ \A h \in Gws : h # g => order'[h] = order[h]
    BY <1>2, <1>9
  <2>2. ASSUME NEW x, NEW h \in Gws, InQueue(x, order[h]) PROVE InQueue(x, order'[h])
    BY <2>1, <2>2, <1>6
  <2>3. InQueue(c, order[g])
    BY <1>c, <1>2, <1>9 DEF hit
  <2>4. \A x \in Chunks, h \in Gws : boot'[h] # 0 /\ files'[x] = boot'[h] => InQueue(x, order'[h])
    BY <1>1, <1>2, <1>9, <2>2
  <2>5. \A x \in Chunks : files'[x] # 0 => \E h \in Gws : InQueue(x, order'[h])
    BY <1>2, <1>9, <2>2
  <2>6. IsQueue(t)
    <3>1. Len(t) <= Cap
      <4> DEFINE n == Len(order[g])
      <4>1. n \in Nat /\ n <= Cap /\ Len(t) <= n
        BY <1>5, <1>6, <2>3
      <4> HIDE DEF n
      <4> QED
        BY <4>1, <1>5, <1>6
    <3> QED
      BY <3>1, <1>6 DEF IsQueue
  <2>7. \A h \in Gws : IsQueue(order'[h])
    BY <2>1, <2>6, <1>2
  <2> QED
    BY <1>1, <1>2, <1>9, <2>1, <2>4, <2>5, <2>7 DEF CacheFine, CacheOf
<1>10. CASE /\ files' = [x \in Chunks |-> IF x \in out THEN 0 ELSE IF x = c THEN boot[g] ELSE files[x]]
            /\ order' = [order EXCEPT ![g] = u]
  <2>1. order' = [h \in Gws |-> order'[h]] /\ order'[g] = u /\ \A h \in Gws : h # g => order'[h] = order[h]
    BY <1>2, <1>10
  <2>2. files' = [x \in Chunks |-> files'[x]]
        /\ \A x \in Chunks : files'[x] = IF x \in out THEN 0 ELSE IF x = c THEN boot[g] ELSE files[x]
    BY <1>10
  <2>3. \A x \in Chunks : files'[x] \in 0 .. boots'
    BY <1>1, <1>2, <2>2
  <2>4. ASSUME NEW x \in Chunks, x \notin out, x = c \/ InQueue(x, order[g]) PROVE InQueue(x, order'[g])
    BY <2>1, <2>4, <1>6, <1>7, <1>8
  <2>5. ASSUME NEW x \in Chunks, NEW h \in Gws, boot[h] # 0, files'[x] = boot[h] PROVE InQueue(x, order'[h])
    <3>1. x \notin out
      BY <2>2, <2>5
    <3>2. CASE h = g
      <4>1. x = c \/ files[x] = boot[g]
        BY <2>2, <2>5, <3>1, <3>2
      <4>2. x = c \/ InQueue(x, order[g])
        BY <4>1, <1>2
      <4> QED
        BY <2>4, <3>1, <3>2, <4>2
    <3>3. CASE h # g
      <4>1. x # c
        BY <2>2, <2>5, <3>1, <3>3, <1>2
      <4>2. files[x] = boot[h]
        BY <2>2, <2>5, <3>1, <4>1
      <4> QED
        BY <4>2, <2>1, <2>5, <3>3, <1>2
    <3> QED
      BY <3>2, <3>3
  <2>6. ASSUME NEW x \in Chunks, files'[x] # 0 PROVE \E h \in Gws : InQueue(x, order'[h])
    <3>1. x \notin out
      BY <2>2, <2>6
    <3>2. CASE x = c
      BY <3>1, <3>2, <2>4
    <3>3. CASE x # c
      <4>1. PICK h \in Gws : InQueue(x, order[h])
        BY <3>1, <3>3, <2>2, <2>6, <1>2
      <4>2. InQueue(x, order'[h])
        BY <4>1, <3>1, <2>1, <2>4
      <4> QED
        BY <4>2
    <3> QED
      BY <3>2, <3>3
  <2>7. \A h \in Gws : IsQueue(order'[h])
    BY <2>1, <1>2, <1>7
  <2> QED
    BY <1>1, <1>2, <2>1, <2>2, <2>3, <2>5, <2>6, <2>7 DEF CacheFine, CacheOf
<1> QED
  BY <1>3, <1>9, <1>10

\* A request for the content of a key.
ReadsKey(o) == o.req.method = "GET" /\ o.req.key # Unset
\* What was read so far is the beginning of the range of m, and what is left of
\* the plan leads to its end.
Reading(o, m) ==
  /\ AimsAt(o.req.range, o.total, o.rng) /\ o.status \in {200, 206}
  /\ LET w == Clamp(o.rng, Size(m))
     IN  /\ \A n \in 1 .. Len(o.out) : o.out[n] = BytesOf(m)[w[1] + n]
         /\ Leads(m, o.left, w[1] + Len(o.out), w[2])
\* The length a range was worked out on is that of an object the key held.
Measured(o, d) == o.req.range # Unset => \E x \in d \cap Objects : o.total = Size(x)
\* What an answer is to be, given what the key held meanwhile.
Replied(o, d) ==
  /\ o.status \in {200, 206} =>
       Measured(o, d) /\ \E m \in d \cap Objects : Answers(o.out, m, o.req.range, o.total)
  /\ o.status = 404 => Gone \in d
\* A request at each of its steps.
AskFine(o, d) ==
  /\ o.req \in Requests /\ o.out \in Seq(Byte) /\ o.fetched \subseteq Names(o.out)
  /\ o.at \in {"size", "list", "propfind", "put", "delete"} => ~ReadsKey(o)
  /\ o.at \in {"head", "load"} => o.out = <<>>
  /\ o.at = "head" => o.req.range # Unset
  /\ o.at = "load" => AimsAt(o.req.range, o.total, o.rng) /\ Measured(o, d)
  /\ o.at = "read" => Measured(o, d) /\ \E m \in d \cap Objects : Reading(o, m)
  /\ o.at = "reply" /\ ReadsKey(o) => Replied(o, d)
\* Among what the key held meanwhile is what it holds now.
AskHeld(o, d, b) == AskFine(o, d) /\ (o.req.key # Unset => b[o.req.key].object \in d)
\* All requests.
AsksOf(o, d, b) ==
  /\ d = [g \in Gws |-> d[g]]
  /\ \A g \in Gws : Asking(o[g]) => AskHeld(o[g], d[g], b)
\* All requests as they are.
AsksFine == AsksOf(op, during, bucket)

-----------------------------------------------------------------------------
(* Reads. *)

\* One gateway goes on; the others and the bucket are as they were.
LEMMA AskStep ==
  ASSUME AsksFine, NEW g \in Gws, bucket' = bucket, during' = [h \in Gws |-> during'[h]],
         \A h \in Gws : h # g => op'[h] = op[h] /\ during'[h] = during[h],
         Asking(op'[g]) => AskHeld(op'[g], during'[g], bucket)
  PROVE  AsksFine'
<1>1. ASSUME NEW h \in Gws, Asking(op'[h]) PROVE AskHeld(op'[h], during'[h], bucket')
  <2>1. CASE h = g
    BY <2>1, <1>1
  <2>2. CASE h # g
    <3>1. op'[h] = op[h] /\ during'[h] = during[h]
      BY <2>2
    <3>2. AskHeld(op[h], during[h], bucket)
      BY <3>1, <1>1 DEF AsksFine, AsksOf
    <3> QED
      BY <3>1, <3>2
  <2> QED
    BY <2>1, <2>2
<1>2. AsksOf(op', during', bucket')
  BY <1>1 DEF AsksOf
<1> QED
  BY <1>2 DEF AsksFine

\* What leaves requests and buckets alone.
LEMMA SameAsks ==
  ASSUME AsksFine, during' = during, bucket' = bucket, \A h \in Gws : op'[h] = op[h]
  PROVE  AsksFine'
<1>1. AsksOf(op', during', bucket')
  <2>1. \A h \in Gws : Asking(op'[h]) => AskHeld(op'[h], during'[h], bucket')
    BY DEF AsksFine, AsksOf
  <2>2. during' = [h \in Gws |-> during'[h]]
    BY DEF AsksFine, AsksOf
  <2> QED
    BY <2>1, <2>2 DEF AsksOf
<1> QED
  BY <1>1 DEF AsksFine

\* A request in flight.
LEMMA AskIs ==
  ASSUME AsksFine, NEW g \in Gws, Asking(op[g])
  PROVE  AskFine(op[g], during[g]) /\ (op[g].req.key # Unset => Live(op[g].req.key) \in during[g])
BY DEF AsksFine, AsksOf, AskHeld, Live

\* One that ends.
LEMMA IdleAsks ==
  ASSUME AsksFine, OpsFine, NEW g \in Gws, bucket' = bucket,
         op' = [op EXCEPT ![g] = AtRest], during' = [during EXCEPT ![g] = {}]
  PROVE  AsksFine'
<1>1. during = [h \in Gws |-> during[h]] /\ op = [a \in Actors |-> op[a]] /\ Gws \subseteq Actors
  BY DEF AsksFine, AsksOf, OpsFine, Actors
<1>2. /\ during' = [h \in Gws |-> during'[h]] /\ op'[g] = AtRest
      /\ \A h \in Gws : h # g => op'[h] = op[h] /\ during'[h] = during[h]
  BY <1>1
<1>3. ~Asking(AtRest)
  BY DEF Asking, AtRest
<1> QED
  BY <1>2, <1>3, AskStep

\* The fields of a request.
Rec(at, req, status, out, fetched, rng, total, left) ==
  [at |-> at, req |-> req, status |-> status, out |-> out, fetched |-> fetched, rng |-> rng,
   total |-> total, left |-> left]

\* The fields of a request.
LEMMA RecIs ==
  ASSUME NEW at, NEW req, NEW status, NEW out, NEW fetched, NEW rng, NEW total, NEW left, NEW o,
         o = Rec(at, req, status, out, fetched, rng, total, left)
  PROVE  /\ o.at = at /\ o.req = req /\ o.status = status /\ o.out = out /\ o.fetched = fetched
         /\ o.rng = rng /\ o.total = total /\ o.left = left
BY DEF Rec

\* The fields of one that goes on to another step.
LEMMA TurnedIs ==
  ASSUME NEW o, IsRequest(o), NEW x, NEW s
  PROVE  LET t == Turned(o, x, s)
         IN  /\ t.at = x /\ t.req = o.req /\ t.status = s /\ t.out = o.out /\ t.fetched = o.fetched
             /\ t.rng = o.rng /\ t.total = o.total /\ t.left = o.left
<1> DEFINE r == o.req  u == o.out  f == o.fetched  n == o.rng  w == o.total  l == o.left
           y == o.at  z == o.status
           p == [o EXCEPT !.at = x]  t == Turned(o, x, s)
<1>1. o = Rec(y, r, z, u, f, n, w, l)
  BY DEF IsRequest, Rec
<1>2. t = [p EXCEPT !.status = s]
  BY DEF Turned
<1> HIDE DEF r, u, f, n, w, l, t, y, z
<1>3. p = Rec(x, r, z, u, f, n, w, l)
  BY <1>1 DEF Rec
<1> HIDE DEF p
<1>4. t = Rec(x, r, s, u, f, n, w, l)
  BY <1>2, <1>3 DEF Rec
<1>5. /\ t.at = x /\ t.req = r /\ t.status = s /\ t.out = u /\ t.fetched = f /\ t.rng = n /\ t.total = w /\ t.left = l
  BY <1>4, RecIs
<1> QED
  BY <1>5 DEF r, u, f, n, w, l, t

\* A reply to a request that has read nothing that matters.
LEMMA RefusedAsks ==
  ASSUME AsksFine, NEW g \in Gws, Asking(op[g]), IsRequest(op[g]), NEW s,
         ReadsKey(op[g]) => s \notin {200, 206} /\ (s = 404 => Gone \in during[g])
  PROVE  AskHeld(Turned(op[g], "reply", s), during[g], bucket)
<1> DEFINE t == Turned(op[g], "reply", s)
<1>1. /\ t.at = "reply" /\ t.req = op[g].req /\ t.status = s /\ t.out = op[g].out /\ t.fetched = op[g].fetched
  BY TurnedIs
<1> HIDE DEF t
<1>2. AskHeld(op[g], during[g], bucket)
  BY DEF AsksFine, AsksOf
<1>3. op[g].req \in Requests /\ op[g].out \in Seq(Byte) /\ op[g].fetched \subseteq Names(op[g].out)
  BY <1>2 DEF AskHeld, AskFine
<1>4. ReadsKey(t) => Replied(t, during[g])
  BY <1>1 DEF ReadsKey, Replied
<1>5. AskFine(t, during[g])
  BY <1>1, <1>3, <1>4 DEF AskFine
<1>6. AskHeld(t, during[g], bucket)
  BY <1>1, <1>2, <1>5 DEF AskHeld
<1> QED
  BY <1>6 DEF t

\* An answer without content.
LEMMA RespondAsks ==
  ASSUME AsksFine, OpsFine, NEW g \in Gws, Asking(op[g]), NEW s, Respond(g, s), Quiet,
         ReadsKey(op[g]) => s \notin {200, 206} /\ (s = 404 => Gone \in during[g])
  PROVE  AsksFine'
<1>1. during = [h \in Gws |-> during[h]] /\ op = [a \in Actors |-> op[a]] /\ Gws \subseteq Actors
  BY DEF AsksFine, AsksOf, OpsFine, Actors
<1>2. during' = during /\ bucket' = bucket
  BY SameStore DEF Quiet, store
<1>3. op' = [op EXCEPT ![g].at = "reply", ![g].status = s]
  BY DEF Respond
<1>4. op'[g] = Turned(op[g], "reply", s) /\ \A h \in Gws : h # g => op'[h] = op[h]
  BY <1>1, <1>3 DEF Turned
<1>5. IsRequest(op[g])
  BY IsBusy DEF Asking
<1>6. AskHeld(Turned(op[g], "reply", s), during[g], bucket)
  BY <1>5, RefusedAsks
<1> QED
  BY <1>1, <1>2, <1>4, <1>6, AskStep

\* The steps that read no content.
LEMMA ListAsks ==
  ASSUME AsksFine, OpsFine, NEW g \in Gws, SizeOf(g) \/ List(g) \/ PropfindStep(g)
  PROVE  AsksFine'
<1>1. op[g].at \in {"size", "list", "propfind"} /\ Quiet /\ \E s : Respond(g, s)
  BY DEF SizeOf, List, PropfindStep, At
<1>2. Asking(op[g])
  BY <1>1 DEF Asking
<1>3. ~ReadsKey(op[g])
  BY <1>1, <1>2, AskIs DEF AskFine
<1> QED
  BY <1>1, <1>2, <1>3, RespondAsks

\* What the bucket holds for a key that is read.
LEMMA HeldIs ==
  ASSUME AsksFine, OpsFine, BucketFine, NEW g \in Gws, op[g].at \in {"head", "load"}
  PROVE  LET m == Live(op[g].req.key)
         IN  /\ m \in during[g] /\ Asking(op[g]) /\ AskFine(op[g], during[g])
             /\ m # Gone => m \in Objects /\ m \in Seq(Chunks) /\ Size(m) \in Nat
<1> DEFINE m == Live(op[g].req.key)
<1>1. Asking(op[g]) /\ g \in Actors
  BY DEF Asking, Actors
<1>2. op[g].req.key \in Keys
  BY <1>1 DEF OpsFine, OpFine
<1>3. op[g].req.key # Unset
  BY <1>2, GatewayAssumption
<1>4. m \in during[g] /\ AskFine(op[g], during[g])
  BY <1>1, <1>3, AskIs
<1>5. m \in Objects \cup {Gone}
  BY <1>2 DEF BucketFine, Live
<1> HIDE DEF m
<1>6. m # Gone => m \in Objects /\ m \in Seq(Chunks)
  BY <1>5, GatewayAssumption
<1>7. m # Gone => Size(m) \in Nat
  BY <1>6, BytesIs
<1> QED
  BY <1>1, <1>4, <1>6, <1>7 DEF m

\* The size a range was measured against is kept with it: the object may be
\* replaced before its manifest is read.
LEMMA MeasureAsks ==
  ASSUME AsksFine, OpsFine, BucketFine, NEW g \in Gws, Measure(g)
  PROVE  AsksFine'
<1> DEFINE m == Live(op[g].req.key)  r == op[g].req
           rng == ParseByteRange(r.range, Size(m))
<1>1. op[g].at = "head" /\ Quiet
  BY DEF Measure, At
<1>2. /\ m \in during[g] /\ Asking(op[g]) /\ AskFine(op[g], during[g])
      /\ (m # Gone => m \in Objects /\ Size(m) \in Nat)
  BY <1>1, HeldIs
<1>3. CASE m = Gone
  <2>1. Respond(g, 404)
    BY <1>3 DEF Measure
  <2> QED
    BY <1>1, <1>2, <1>3, <2>1, RespondAsks
<1>4. CASE m # Gone /\ rng = Unset
  <2>1. Respond(g, 416)
    BY <1>4 DEF Measure
  <2> QED
    BY <1>1, <1>2, <2>1, RespondAsks
<1>5. CASE m # Gone /\ rng # Unset
  <2>1. op' = [op EXCEPT ![g].at = "load", ![g].rng = rng, ![g].total = Size(m)]
    BY <1>5 DEF Measure
  <2>2. during = [h \in Gws |-> during[h]] /\ op = [a \in Actors |-> op[a]] /\ Gws \subseteq Actors
        /\ during' = during /\ bucket' = bucket
    BY <1>1, SameStore DEF AsksFine, AsksOf, OpsFine, Actors, Quiet, store
  <2>3. r.range # Unset /\ Size(m) \in Nat
    BY <1>1, <1>2, <1>5 DEF AskFine
  <2>4. AimsAt(r.range, Size(m), rng)
    BY <1>5, <2>3 DEF AimsAt
  <2> DEFINE o == op[g]
             a == [o EXCEPT !.at = "load"]  b == [a EXCEPT !.rng = rng]  c == [b EXCEPT !.total = Size(m)]
             z == Size(m)
  <2> HIDE DEF rng, m
  <2>5. op'[g] = c /\ \A h \in Gws : h # g => op'[h] = op[h]
    BY <2>1, <2>2
  <2>6. IsRequest(o)
    BY <1>2, IsBusy DEF Asking
  <2>7. o = Rec(o.at, o.req, o.status, o.out, o.fetched, o.rng, o.total, o.left)
    BY <2>6 DEF IsRequest, Rec
  <2>8. c = Rec("load", o.req, o.status, o.out, o.fetched, rng, z, o.left)
    <3> DEFINE at == o.at  req == o.req  st == o.status  out == o.out  fe == o.fetched  rn == o.rng
               to == o.total  le == o.left
    <3>1. o = Rec(at, req, st, out, fe, rn, to, le)
      BY <2>7
    <3> HIDE DEF o, at, req, st, out, fe, rn, to, le, z
    <3>2. a = Rec("load", req, st, out, fe, rn, to, le)
      BY <3>1 DEF Rec
    <3> HIDE DEF a
    <3>3. b = Rec("load", req, st, out, fe, rng, to, le)
      BY <3>2 DEF Rec
    <3>4. c = [b EXCEPT !.total = z]
      BY DEF z
    <3> HIDE DEF b, c
    <3>5. c = Rec("load", req, st, out, fe, rng, z, le)
      BY <3>3, <3>4 DEF Rec
    <3> QED
      BY <3>5 DEF req, st, out, fe, le
  <2> HIDE DEF c, z
  <2>9. c.at = "load" /\ c.req = o.req /\ c.out = o.out /\ c.fetched = o.fetched /\ c.rng = rng /\ c.total = z
    <3> HIDE DEF o
    <3> QED
      BY <2>8, RecIs
  <2>10. /\ o.req \in Requests /\ o.out \in Seq(Byte) /\ o.fetched \subseteq Names(o.out) /\ o.out = <<>>
    BY <1>1, <1>2 DEF AskFine
  <2>11. AimsAt(c.req.range, c.total, c.rng) /\ Measured(c, during[g])
    BY <1>2, <1>5, <2>4, <2>9 DEF z, Measured
  <2>12. AskFine(c, during[g])
    <3> HIDE DEF o
    <3> QED
      BY <2>9, <2>10, <2>11 DEF AskFine
  <2>13. AskHeld(op[g], during[g], bucket)
    BY <1>2 DEF AsksFine, AsksOf
  <2>14. AskHeld(c, during[g], bucket)
    BY <2>9, <2>12, <2>13 DEF AskHeld
  <2> QED
    BY <2>2, <2>5, <2>14, AskStep
<1> QED
  BY <1>3, <1>4, <1>5

\* The plan gives the range of the object loaded, which the key holds now.
LEMMA LoadAsks ==
  ASSUME AsksFine, OpsFine, BucketFine, NEW g \in Gws, Load(g)
  PROVE  AsksFine'
<1> DEFINE m == Live(op[g].req.key)  o == op[g]
           w == Clamp(o.rng, Size(m))
           status == IF o.req.range = Unset THEN 200 ELSE 206
           plan == PlanOf(m, w)
           x == IF plan = <<>> THEN "reply" ELSE "read"
<1>1. op[g].at = "load" /\ Quiet
  BY DEF Load, At
<1>2. /\ m \in during[g] /\ Asking(op[g]) /\ AskFine(op[g], during[g])
      /\ (m # Gone => m \in Objects /\ m \in Seq(Chunks) /\ Size(m) \in Nat)
  BY <1>1, HeldIs
<1>3. CASE m = Gone
  <2>1. Respond(g, 404)
    BY <1>3 DEF Load
  <2> QED
    BY <1>1, <1>2, <1>3, <2>1, RespondAsks
<1>4. CASE m # Gone
  <2>1. op' = [op EXCEPT ![g].at = x, ![g].left = plan, ![g].status = status]
    BY <1>4 DEF Load
  <2>2. during = [h \in Gws |-> during[h]] /\ op = [a \in Actors |-> op[a]] /\ Gws \subseteq Actors
        /\ during' = during /\ bucket' = bucket
    BY <1>1, SameStore DEF AsksFine, AsksOf, OpsFine, Actors, Quiet, store
  <2>3. /\ AimsAt(o.req.range, o.total, o.rng) /\ o.req \in Requests /\ o.out = <<>> /\ o.fetched \subseteq Names(o.out)
        /\ Measured(o, during[g])
    BY <1>1, <1>2 DEF AskFine
  <2>r. o.req.range \in Ranges \cup {Unset}
    BY <2>3, GatewayAssumption
  <2>4. w[1] \in Nat /\ w[2] \in Nat /\ w[1] <= w[2] /\ w[2] <= Size(m)
    <3> DEFINE r == o.req.range  t == o.total  rng == o.rng  z == Size(m)
    <3>1. r \in Ranges \cup {Unset} /\ AimsAt(r, t, rng)
      BY <2>3, <2>r
    <3>2. z \in Nat /\ w = Clamp(rng, z)
      BY <1>2, <1>4
    <3> HIDE DEF r, t, rng, z, w
    <3>3. rng[1] \in Nat /\ rng[2] \in Nat
      BY <3>1, AimIs
    <3>4. w[1] \in Nat /\ w[2] \in Nat /\ w[1] <= w[2] /\ w[2] <= z
      BY <3>2, <3>3, ClampIs
    <3> QED
      BY <3>4 DEF z
  <2>5. w[1] < w[2] => plan \in Seq(Parts(m, w)) /\ Leads(m, plan, w[1], w[2])
    <3> HIDE DEF w, m
    <3> QED
      BY <1>2, <1>4, <2>4, PlanLeads
  <2>6. w[1] >= w[2] => plan = <<>>
    BY DEF PlanOf
  <2>s. x \in {"reply", "read"} /\ (x = "reply" <=> plan = <<>>)
    OBVIOUS
  <2> DEFINE a == [o EXCEPT !.at = x]  b == [a EXCEPT !.left = plan]  c == [b EXCEPT !.status = status]
  <2> HIDE DEF x, plan, status
  <2>7. op'[g] = c /\ \A h \in Gws : h # g => op'[h] = op[h]
    BY <2>1, <2>2
  <2>8. IsRequest(o)
    BY <1>2, IsBusy DEF Asking
  <2>9. /\ c.at = x /\ c.req = o.req /\ c.status = status /\ c.out = o.out /\ c.fetched = o.fetched
        /\ c.rng = o.rng /\ c.total = o.total /\ c.left = plan
    <3> DEFINE at == o.at  req == o.req  st == o.status  out == o.out  fe == o.fetched  rn == o.rng
               to == o.total  le == o.left
    <3>1. o = Rec(at, req, st, out, fe, rn, to, le)
      BY <2>8 DEF IsRequest, Rec
    <3> HIDE DEF o, at, req, st, out, fe, rn, to, le
    <3>2. a = Rec(x, req, st, out, fe, rn, to, le)
      BY <3>1 DEF Rec
    <3> HIDE DEF a
    <3>3. b = Rec(x, req, st, out, fe, rn, to, plan)
      BY <3>2 DEF Rec
    <3> HIDE DEF b
    <3>4. c = Rec(x, req, status, out, fe, rn, to, plan)
      BY <3>3 DEF Rec
    <3> HIDE DEF c
    <3>5. /\ c.at = x /\ c.req = req /\ c.status = status /\ c.out = out /\ c.fetched = fe
          /\ c.rng = rn /\ c.total = to /\ c.left = plan
      BY <3>4, RecIs
    <3> QED
      BY <3>5 DEF req, out, fe, rn, to
  <2>10. Len(c.out) = 0 /\ c.out = <<>> /\ c.out \in Seq(Byte) /\ c.fetched \subseteq Names(c.out) /\ c.req \in Requests
    <3>1. <<>> \in Seq(Byte) /\ Len(<<>>) = 0
      OBVIOUS
    <3>2. c.out = <<>> /\ c.fetched \subseteq Names(c.out) /\ c.req \in Requests
      BY <2>3, <2>9
    <3> HIDE DEF c
    <3> QED
      BY <3>1, <3>2
  <2>11. m \in during[g] \cap Objects /\ m # Gone
    BY <1>2, <1>4
  <2>p. /\ c.at = x /\ c.left = plan /\ c.req = o.req /\ c.total = o.total
        /\ AimsAt(c.req.range, c.total, c.rng) /\ w = Clamp(c.rng, Size(m))
        /\ c.req.range \in Ranges \cup {Unset} /\ c.status \in {200, 206}
    BY <2>3, <2>r, <2>9 DEF status
  <2>m. Measured(c, during[g])
    BY <2>3, <2>9 DEF Measured
  <2>h. c.req.key # Unset => bucket[c.req.key].object \in during[g]
    BY <1>2, <2>9, AskIs DEF Live
  <2> HIDE DEF m, w, o, c
  <2>12. CASE plan = <<>>
    <3>1. w[1] = w[2]
      <4>1. w[1] < w[2] => w[1] = w[2]
        BY <2>4, <2>5, <2>12, LeadsNowhere
      <4> QED
        BY <4>1, <2>4
    <3>2. Answers(c.out, m, c.req.range, c.total)
      <4> DEFINE r == c.req.range  t == c.total  rng == c.rng  out == c.out  n == 0
      <4>1. r \in Ranges \cup {Unset} /\ AimsAt(r, t, rng) /\ m \in Objects /\ Len(out) = n /\ n \in Nat
        BY <2>p, <2>10, <2>11
      <4>2. n = Clamp(rng, Size(m))[2] - Clamp(rng, Size(m))[1]
        BY <3>1, <2>4, <2>p
      <4>3. \A i \in 1 .. n : out[i] = BytesOf(m)[Clamp(rng, Size(m))[1] + i]
        OBVIOUS
      <4> HIDE DEF r, t, rng, out, n
      <4>4. Answers(out, m, r, t)
        BY <4>1, <4>2, <4>3, AnswersIs
      <4> QED
        BY <4>4 DEF r, t, out
    <3>3. \E e \in during[g] \cap Objects : Answers(c.out, e, c.req.range, c.total)
      BY <3>2, <2>11
    <3>4. c.status # 404
      BY <2>p
    <3>5. Replied(c, during[g])
      BY <2>m, <3>3, <3>4 DEF Replied
    <3>6. AskFine(c, during[g])
      BY <3>5, <2>10, <2>12, <2>p, <2>s DEF AskFine
    <3> QED
      BY <3>6, <2>h, <2>2, <2>7, AskStep DEF AskHeld
  <2>13. CASE plan # <<>>
    <3>1. w[1] < w[2]
      BY <2>4, <2>6, <2>13
    <3>2. Leads(m, c.left, w[1] + Len(c.out), w[2])
      <4>1. w[1] + Len(c.out) = w[1]
        BY <2>4, <2>10
      <4> QED
        BY <4>1, <3>1, <2>5, <2>p
    <3>3. \A n \in 1 .. Len(c.out) : c.out[n] = BytesOf(m)[w[1] + n]
      BY <2>10
    <3>4. Reading(c, m)
      BY <3>2, <3>3, <2>p DEF Reading
    <3>5. \E e \in during[g] \cap Objects : Reading(c, e)
      BY <3>4, <2>11
    <3>6. AskFine(c, during[g])
      BY <3>5, <2>m, <2>10, <2>13, <2>p, <2>s DEF AskFine
    <3> QED
      BY <3>6, <2>h, <2>2, <2>7, AskStep DEF AskHeld
  <2> QED
    BY <2>12, <2>13
<1> QED
  BY <1>3, <1>4

\* The next chunk of a read: the answer goes on with the same object.
LEMMA ReadAsks ==
  ASSUME AsksFine, OpsFine, NEW g \in Gws, ReadChunk(g)
  PROVE  AsksFine'
<1> DEFINE o == op[g]
           part == Head(o.left)
           rest == Tail(o.left)
           hit == files[part.chunk] = boot[g]
           x == IF rest = <<>> THEN "reply" ELSE "read"
           y == o.out \o Slice(part)
           z == IF hit THEN o.fetched ELSE o.fetched \cup {part.chunk}
           a == [o EXCEPT !.at = x]  b == [a EXCEPT !.left = rest]
           c == [b EXCEPT !.out = y]  d == [c EXCEPT !.fetched = z]
<1>1. op[g].at = "read" /\ during' = during /\ bucket' = bucket
  BY SameStore DEF ReadChunk, At, store
<1>2. Asking(op[g])
  BY <1>1 DEF Asking
<1>3. IsRequest(o) /\ AskFine(o, during[g]) /\ (o.req.key # Unset => Live(o.req.key) \in during[g])
  BY <1>2, IsBusy, AskIs DEF Asking
<1>4. during = [h \in Gws |-> during[h]] /\ op = [e \in Actors |-> op[e]] /\ Gws \subseteq Actors
  BY DEF AsksFine, AsksOf, OpsFine, Actors
<1>5. op' = [op EXCEPT ![g].at = x, ![g].left = rest, ![g].out = @ \o Slice(part),
                       ![g].fetched = IF hit THEN @ ELSE @ \cup {part.chunk}]
  BY DEF ReadChunk
<1>6. op' = [op EXCEPT ![g].at = x, ![g].left = rest, ![g].out = y, ![g].fetched = z]
  BY <1>3, <1>4, <1>5 DEF IsRequest
<1>7. x \in {"reply", "read"} /\ (x = "reply" <=> rest = <<>>)
  OBVIOUS
<1>8. LeftFine(o.left)
  BY <1>1, <1>4 DEF OpsFine, OpFine
<1>9. z \subseteq o.fetched \cup {part.chunk}
  OBVIOUS
<1>10. PICK m \in during[g] \cap Objects : Reading(o, m)
  BY <1>1, <1>3 DEF AskFine
<1>m. Measured(o, during[g])
  BY <1>1, <1>3 DEF AskFine
<1>11. o.req \in Requests /\ o.out \in Seq(Byte) /\ o.fetched \subseteq Names(o.out) /\ o.req.range \in Ranges \cup {Unset}
  BY <1>3, GatewayAssumption DEF AskFine
<1>12. m # Gone
  BY <1>10, GatewayAssumption
<1> DEFINE w == Clamp(o.rng, Size(m))  s == w[1]  e == w[2]
<1>13. /\ AimsAt(o.req.range, o.total, o.rng)
       /\ (\A n \in 1 .. Len(o.out) : o.out[n] = BytesOf(m)[s + n])
       /\ Leads(m, o.left, s + Len(o.out), e) /\ o.status \in {200, 206}
  BY <1>10 DEF Reading
<1>14. s \in Nat /\ e \in Nat
  <2> DEFINE r == o.req.range  t == o.total  rng == o.rng  n == Size(m)
  <2>1. r \in Ranges \cup {Unset} /\ AimsAt(r, t, rng)
    BY <1>11, <1>13
  <2>2. n \in Nat
    BY <1>10, GatewayAssumption, BytesIs
  <2>3. w = Clamp(rng, n)
    OBVIOUS
  <2> HIDE DEF r, t, rng, n, w
  <2>4. rng[1] \in Nat /\ rng[2] \in Nat
    BY <2>1, AimIs
  <2> QED
    BY <2>2, <2>3, <2>4, ClampIs
<1>15. PICK q \in Nat : Gives(m, part, s + Len(o.out), q) /\ Leads(m, rest, q, e)
  <2> DEFINE l == o.left  p == s + Len(o.out)
  <2>1. PICK S : l \in Seq(S)
    BY <1>8 DEF LeftFine
  <2>2. l # <<>> /\ Leads(m, l, p, e)
    BY <1>8, <1>13 DEF LeftFine
  <2> HIDE DEF l, p, e
  <2>3. \E q \in Nat : Gives(m, Head(l), p, q) /\ Leads(m, Tail(l), q, e)
    BY <2>1, <2>2, LeadsAfter
  <2> QED
    BY <2>3 DEF l, p
<1> HIDE DEF w, s, e
<1>16. /\ y \in Seq(Byte) /\ q = s + Len(y)
       /\ \A n \in 1 .. Len(y) : y[n] = BytesOf(m)[s + n]
       /\ Names(o.out) \cup {part.chunk} \subseteq Names(y)
  <2> DEFINE out == o.out
  <2>1. out \in Seq(Byte) /\ Gives(m, part, s + Len(out), q) /\ \A n \in 1 .. Len(out) : out[n] = BytesOf(m)[s + n]
    BY <1>11, <1>13, <1>15
  <2>2. y = out \o Slice(part)
    OBVIOUS
  <2> HIDE DEF out, part, y
  <2> QED
    <3> DEFINE p == s + Len(out)
    <3>0. Gives(m, part, p, q) /\ GoesOn(m, s, out)
      BY <2>1 DEF GoesOn
    <3>p. p = s + Len(out)
      OBVIOUS
    <3> HIDE DEF p
    <3>1. /\ y \in Seq(Byte) /\ q = s + Len(y) /\ GoesOn(m, s, y)
          /\ Names(out) \cup {part.chunk} \subseteq Names(y)
      BY <1>14, <2>1, <2>2, <3>0, <3>p, SliceGoesOn
    <3>2. /\ y \in Seq(Byte) /\ q = s + Len(y)
          /\ \A n \in 1 .. Len(y) : y[n] = BytesOf(m)[s + n]
          /\ Names(out) \cup {part.chunk} \subseteq Names(y)
      BY <3>1 DEF GoesOn
    <3> QED
      BY <3>2 DEF out
<1>17. z \subseteq Names(y) /\ Len(y) \in Nat
  <2> HIDE DEF y, z, part
  <2> QED
    BY <1>9, <1>11, <1>16, LenProperties
<1>x. part = Head(o.left)
  OBVIOUS
<1> HIDE DEF x, y, z, rest, part
<1>18. op'[g] = d /\ \A h \in Gws : h # g => op'[h] = op[h]
  BY <1>4, <1>6
<1>19. /\ d.at = x /\ d.req = o.req /\ d.status = o.status /\ d.out = y /\ d.fetched = z
       /\ d.rng = o.rng /\ d.total = o.total /\ d.left = rest
  <2> DEFINE at == o.at  req == o.req  st == o.status  out == o.out  fe == o.fetched  rn == o.rng
             to == o.total  le == o.left
  <2>1. o = Rec(at, req, st, out, fe, rn, to, le)
    BY <1>3 DEF IsRequest, Rec
  <2> HIDE DEF o, at, req, st, out, fe, rn, to, le
  <2>2. a = Rec(x, req, st, out, fe, rn, to, le)
    BY <2>1 DEF Rec
  <2> HIDE DEF a
  <2>3. b = Rec(x, req, st, out, fe, rn, to, rest)
    BY <2>2 DEF Rec
  <2> HIDE DEF b
  <2>4. c = Rec(x, req, st, y, fe, rn, to, rest)
    BY <2>3 DEF Rec
  <2> HIDE DEF c
  <2>5. d = Rec(x, req, st, y, z, rn, to, rest)
    BY <2>4 DEF Rec
  <2> HIDE DEF d
  <2>6. /\ d.at = x /\ d.req = req /\ d.status = st /\ d.out = y /\ d.fetched = z
        /\ d.rng = rn /\ d.total = to /\ d.left = rest
    BY <2>5, RecIs
  <2> QED
    BY <2>6 DEF req, st, rn, to
<1>20. /\ d.req \in Requests /\ d.out \in Seq(Byte) /\ d.fetched \subseteq Names(d.out)
       /\ AimsAt(d.req.range, d.total, d.rng) /\ w = Clamp(d.rng, Size(m))
       /\ d.req.range \in Ranges \cup {Unset} /\ d.status \in {200, 206}
  BY <1>11, <1>13, <1>16, <1>17, <1>19 DEF w
<1>n. Measured(d, during[g])
  BY <1>m, <1>19 DEF Measured
<1>21. d.req.key # Unset => bucket[d.req.key].object \in during[g]
  BY <1>3, <1>19 DEF Live
<1> HIDE DEF o, d
<1>22. CASE rest = <<>>
  <2>1. q = e
    BY <1>15, <1>22, LeadsNowhere
  <2>2. Answers(d.out, m, d.req.range, d.total)
    <3> DEFINE r == d.req.range  t == d.total  rng == d.rng  n == Len(y)
    <3>1. r \in Ranges \cup {Unset} /\ AimsAt(r, t, rng) /\ m \in Objects /\ n \in Nat
      BY <1>10, <1>17, <1>20
    <3>2. n = Clamp(rng, Size(m))[2] - Clamp(rng, Size(m))[1]
      <4>1. n = e - s
        BY <2>1, <1>14, <1>16, <1>17
      <4> QED
        BY <4>1, <1>20 DEF s, e
    <3>3. \A i \in 1 .. n : y[i] = BytesOf(m)[Clamp(rng, Size(m))[1] + i]
      BY <1>16, <1>20 DEF s
    <3>4. Len(y) = n
      OBVIOUS
    <3> HIDE DEF r, t, rng, n
    <3>5. Answers(y, m, r, t)
      BY <3>1, <3>2, <3>3, <3>4, AnswersIs
    <3> QED
      BY <3>5, <1>19 DEF r, t
  <2>3. \E k \in during[g] \cap Objects : Answers(d.out, k, d.req.range, d.total)
    BY <2>2, <1>10
  <2>4. d.status # 404
    BY <1>20
  <2>5. Replied(d, during[g])
    BY <1>n, <2>3, <2>4 DEF Replied
  <2>6. AskHeld(d, during[g], bucket)
    BY <2>5, <1>7, <1>19, <1>20, <1>21, <1>22 DEF AskFine, AskHeld
  <2> QED
    BY <2>6, <1>1, <1>4, <1>18, AskStep
<1>23. CASE rest # <<>>
  <2>1. Reading(d, m)
    BY <1>15, <1>16, <1>19, <1>20 DEF Reading, s, e
  <2>2. \E k \in during[g] \cap Objects : Reading(d, k)
    BY <2>1, <1>10
  <2>3. AskHeld(d, during[g], bucket)
    BY <2>2, <1>n, <1>7, <1>19, <1>20, <1>21, <1>23 DEF AskFine, AskHeld
  <2> QED
    BY <2>3, <1>1, <1>4, <1>18, AskStep
<1> QED
  BY <1>22, <1>23

\* A read with a key goes to load or head, or is refused.
Routed(r, next) ==
  /\ next.at \in {"reply", "load", "head", "list", "size", "put", "delete", "propfind"}
  /\ next.at \in {"size", "list", "propfind", "put", "delete"} => ~(r.method = "GET" /\ r.key # Unset)
  /\ next.at = "head" => r.range # Unset
  /\ next.at = "load" => r.range = Unset
  /\ next.at = "reply" /\ r.method = "GET" => next.status \notin {200, 206, 404}

\* The handler a request is sent to suits its method and its key.
LEMMA HandlerRoutes ==
  ASSUME NEW r
  PROVE  Routed(r, Handler(r))
<1>1. Routed(r, ReadHandler(r))
  <2>1. CASE r.method = "GET" /\ r.key # Unset /\ r.range = Unset
    <3>1. ReadHandler(r) = Step("load")
      BY <2>1 DEF ReadHandler
    <3> QED
      BY <2>1, <3>1 DEF Routed, Step
  <2>2. CASE r.method = "GET" /\ r.key # Unset /\ r.range # Unset
    <3>1. ReadHandler(r) = Step("head")
      BY <2>2 DEF ReadHandler
    <3> QED
      BY <2>2, <3>1 DEF Routed, Step
  <2>3. CASE r.method = "HEAD"
    <3>1. ReadHandler(r) = Step("list") \/ ReadHandler(r) = Step("size")
      BY <2>3 DEF ReadHandler
    <3> QED
      BY <2>3, <3>1 DEF Routed, Step
  <2>4. CASE r.method # "HEAD" /\ ~(r.method = "GET" /\ r.key # Unset)
    <3>1. ReadHandler(r) = Status(405)
      BY <2>4 DEF ReadHandler
    <3> QED
      BY <3>1 DEF Routed, Status
  <2> QED
    BY <2>1, <2>2, <2>3, <2>4
<1>2. Routed(r, S3Handler(r))
  <2>1. CASE r.method = "GET" /\ r.key = Unset
    <3>1. S3Handler(r) = Step("list")
      BY <2>1 DEF S3Handler
    <3> QED
      BY <2>1, <3>1 DEF Routed, Step
  <2>2. CASE r.method \in {"PUT", "DELETE"} /\ r.key # Unset
    <3>1. S3Handler(r) = Step("put") \/ S3Handler(r) = Step("delete")
      BY <2>2 DEF S3Handler
    <3> QED
      BY <2>2, <3>1 DEF Routed, Step
  <2>3. CASE ~(r.method = "GET" /\ r.key = Unset) /\ ~(r.method \in {"PUT", "DELETE"} /\ r.key # Unset)
    <3>1. S3Handler(r) = ReadHandler(r)
      BY <2>3 DEF S3Handler
    <3> QED
      BY <3>1, <1>1
  <2> QED
    BY <2>1, <2>2, <2>3
<1>3. Routed(r, DavHandler(r))
  <2>1. CASE r.method = "OPTIONS"
    <3>1. DavHandler(r) = Status(200)
      BY <2>1 DEF DavHandler
    <3> QED
      BY <2>1, <3>1 DEF Routed, Status
  <2>2. CASE r.method = "PROPFIND"
    <3>1. DavHandler(r) = Step("propfind")
      BY <2>2 DEF DavHandler
    <3> QED
      BY <2>2, <3>1 DEF Routed, Step
  <2>3. CASE r.method \notin {"OPTIONS", "PROPFIND"}
    <3>1. DavHandler(r) = ReadHandler(r)
      BY <2>3 DEF DavHandler
    <3> QED
      BY <3>1, <1>1
  <2> QED
    BY <2>1, <2>2, <2>3
<1> QED
  BY <1>2, <1>3 DEF Handler

\* A request that arrives has read nothing yet.
LEMMA AcceptAsks ==
  ASSUME AsksFine, OpsFine, NEW g \in Gws, Accept(g)
  PROVE  AsksFine'
<1>1. PICK r \in Requests :
        LET next == IF Refusal(g, r) # 0 THEN Status(Refusal(g, r)) ELSE Handler(r) IN
          /\ op' = [op EXCEPT ![g] = [Fresh(r) EXCEPT !.at = next.at, !.status = next.status]]
          /\ during' = [during EXCEPT ![g] = IF r.key = Unset THEN {} ELSE {Live(r.key)}]
  BY DEF Accept
<1> DEFINE next == IF Refusal(g, r) # 0 THEN Status(Refusal(g, r)) ELSE Handler(r)
           f == Fresh(r)  x == next.at  s == next.status
           o == Turned(f, x, s)
           d == IF r.key = Unset THEN {} ELSE {Live(r.key)}
<1>2. op' = [op EXCEPT ![g] = o] /\ during' = [during EXCEPT ![g] = d] /\ bucket' = bucket
  BY <1>1, SameStore DEF Turned, Accept, store
<1>3. Routed(r, next)
  <2>1. CASE Refusal(g, r) # 0
    <3>1. next = Status(Refusal(g, r)) /\ Refusal(g, r) \in {401, 403, 413}
      BY <2>1 DEF Refusal
    <3> HIDE DEF next
    <3>2. next.at = "reply" /\ next.status \in {401, 403, 413}
      BY <3>1 DEF Status
    <3> QED
      BY <3>2 DEF Routed
  <2>2. CASE Refusal(g, r) = 0
    <3>1. next = Handler(r)
      BY <2>2
    <3> HIDE DEF next
    <3> QED
      BY <3>1, HandlerRoutes
  <2> QED
    BY <2>1, <2>2
<1>4. during = [h \in Gws |-> during[h]] /\ op = [a \in Actors |-> op[a]] /\ Gws \subseteq Actors
  BY DEF AsksFine, AsksOf, OpsFine, Actors
<1>5. /\ IsRequest(f) /\ f.req = r /\ f.out = <<>> /\ f.fetched = {} /\ f.rng = Whole
  BY DEF IsRequest, Fresh
<1>6. /\ x \in {"reply", "load", "head", "list", "size", "put", "delete", "propfind"}
      /\ x \in {"size", "list", "propfind", "put", "delete"} => ~(r.method = "GET" /\ r.key # Unset)
      /\ x = "head" => r.range # Unset
      /\ x = "load" => r.range = Unset
      /\ x = "reply" /\ r.method = "GET" => s \notin {200, 206, 404}
  <2> HIDE DEF next
  <2> QED
    BY <1>3 DEF Routed
<1>7. r.key # Unset => bucket[r.key].object \in d
  BY DEF Live
<1> HIDE DEF f, x, s, d
<1>8. /\ o.at = x /\ o.req = r /\ o.status = s /\ o.out = <<>> /\ o.fetched = {} /\ o.rng = Whole
  BY <1>5, TurnedIs
<1> HIDE DEF o
<1>9. op'[g] = o /\ during'[g] = d /\ during' = [h \in Gws |-> during'[h]]
      /\ \A h \in Gws : h # g => op'[h] = op[h] /\ during'[h] = during[h]
  BY <1>2, <1>4
<1>10. o.at = "load" => AimsAt(o.req.range, o.total, o.rng) /\ Measured(o, d)
  BY <1>6, <1>8 DEF AimsAt, Measured
<1>11. o.at = "reply" /\ ReadsKey(o) => Replied(o, d)
  BY <1>6, <1>8 DEF ReadsKey, Replied
<1>12. <<>> \in Seq(Byte) /\ {} \subseteq Names(<<>>)
  OBVIOUS
<1>13. AskFine(o, d)
  BY <1>6, <1>8, <1>10, <1>11, <1>12 DEF AskFine, ReadsKey
<1>14. AskHeld(o, d, bucket)
  BY <1>7, <1>8, <1>13 DEF AskHeld
<1> QED
  BY <1>2, <1>9, <1>14, AskStep

\* A put reads no content.
LEMMA PutAsks ==
  ASSUME AsksFine, OpsFine, NEW g \in Gws, PutStep(g)
  PROVE  AsksFine'
<1> DEFINE d == Turned(op[g], "reply", 403)
<1>1. op[g].at = "put" /\ during' = during /\ bucket' = bucket
  BY SameStore DEF PutStep, At, Quiet, store
<1>2. during = [h \in Gws |-> during[h]] /\ op = [a \in Actors |-> op[a]] /\ Gws \subseteq Actors
  BY DEF AsksFine, AsksOf, OpsFine, Actors
<1>3. PICK m \in Objects : op' = [op EXCEPT ![g] = PutNext(op[g].req.key, m, d)]
  BY <1>2 DEF PutStep, Turned
<1>4. Asking(op[g]) /\ IsRequest(op[g])
  BY <1>1, IsBusy DEF Asking
<1>5. AskHeld(d, during[g], bucket)
  <2>1. ~ReadsKey(op[g])
    BY <1>1, <1>4, AskIs DEF AskFine
  <2> QED
    BY <1>4, <2>1, RefusedAsks
<1> HIDE DEF d
<1> DEFINE o == PutNext(op[g].req.key, m, d)
<1>6. o = d \/ ~Asking(o)
  <2>1. o = d \/ o = Pending(op[g].req.key, m)
    BY DEF PutNext
  <2>2. ~Asking(Pending(op[g].req.key, m))
    BY DEF Pending, Asking
  <2> QED
    BY <2>1, <2>2
<1> HIDE DEF o
<1>7. op'[g] = o /\ \A h \in Gws : h # g => op'[h] = op[h]
  BY <1>2, <1>3 DEF o
<1> QED
  BY <1>1, <1>2, <1>5, <1>6, <1>7, AskStep

\* Neither does a delete.
LEMMA DeleteAsks ==
  ASSUME AsksFine, OpsFine, NEW g \in Gws, DeleteStep(g)
  PROVE  AsksFine'
<1> DEFINE d == Turned(op[g], "reply", 403)  n == Turned(op[g], "reply", 404)
<1>1. op[g].at = "delete" /\ during' = during /\ bucket' = bucket
  BY SameStore DEF DeleteStep, At, Quiet, store
<1>2. during = [h \in Gws |-> during[h]] /\ op = [a \in Actors |-> op[a]] /\ Gws \subseteq Actors
  BY DEF AsksFine, AsksOf, OpsFine, Actors
<1>3. op' = [op EXCEPT ![g] = DeleteNext(op[g].req.key, d, n)]
  BY <1>2 DEF DeleteStep, Turned
<1>4. Asking(op[g]) /\ IsRequest(op[g])
  BY <1>1, IsBusy DEF Asking
<1>5. AskHeld(d, during[g], bucket) /\ AskHeld(n, during[g], bucket)
  <2>1. ~ReadsKey(op[g])
    BY <1>1, <1>4, AskIs DEF AskFine
  <2> QED
    BY <1>4, <2>1, RefusedAsks
<1> HIDE DEF d, n
<1> DEFINE o == DeleteNext(op[g].req.key, d, n)
<1>6. o = d \/ o = n \/ ~Asking(o)
  <2>1. o = d \/ o = n \/ o = Pending(op[g].req.key, Gone)
    BY DEF DeleteNext
  <2>2. ~Asking(Pending(op[g].req.key, Gone))
    BY DEF Pending, Asking
  <2> QED
    BY <2>1, <2>2
<1> HIDE DEF o
<1>7. op'[g] = o /\ \A h \in Gws : h # g => op'[h] = op[h]
  BY <1>2, <1>3 DEF o
<1> QED
  BY <1>1, <1>2, <1>5, <1>6, <1>7, AskStep

\* What a key has held is not forgotten while it is read.
LEMMA AskGrows ==
  ASSUME NEW o, NEW d, NEW e, AskFine(o, d), d \subseteq e
  PROVE  AskFine(o, e)
<1>1. (\E m \in d \cap Objects : Reading(o, m)) => \E m \in e \cap Objects : Reading(o, m)
  OBVIOUS
<1>2. Measured(o, d) => Measured(o, e)
  BY DEF Measured
<1>3. Replied(o, d) => Replied(o, e)
  BY <1>2 DEF Replied
<1> QED
  BY <1>1, <1>2, <1>3 DEF AskFine

\* A step that leaves an actor with no request, and the view and the requests of
\* the others alone.
LEMMA OtherAsks ==
  ASSUME AsksFine, NEW a \in Actors, during' = during, bucket' = bucket, ~Asking(op'[a]),
         \A b \in Actors : b # a => op'[b] = op[b]
  PROVE  AsksFine'
<1>1. ASSUME NEW g \in Gws, Asking(op'[g]) PROVE AskHeld(op'[g], during'[g], bucket')
  <2>1. g # a /\ g \in Actors
    BY <1>1 DEF Actors
  <2>2. op'[g] = op[g]
    BY <2>1
  <2> QED
    BY <1>1, <2>2 DEF AsksFine, AsksOf
<1>2. during' = [g \in Gws |-> during'[g]]
  BY DEF AsksFine, AsksOf
<1>3. AsksOf(op', during', bucket')
  BY <1>1, <1>2 DEF AsksOf
<1> QED
  BY <1>3 DEF AsksFine

\* A key that is written is written for all who are reading it.
LEMMA WriteAsks ==
  ASSUME AsksFine, OpsFine, NEW a \in Actors, WriteFile(a)
  PROVE  AsksFine'
<1>1. /\ op' = [op EXCEPT ![a] = AtRest]
      /\ during' = [g \in Gws |-> IF Asking(op[g]) /\ op[g].req.key # Unset
                                  THEN during[g] \cup {Live(op[g].req.key)'} ELSE during[g]]
  BY DEF WriteFile
<1>2. op = [b \in Actors |-> op[b]] /\ Gws \subseteq Actors
  BY DEF OpsFine, Actors
<1>3. op'[a] = AtRest /\ \A b \in Actors : b # a => op'[b] = op[b]
  BY <1>1, <1>2
<1>4. ~Asking(AtRest)
  BY DEF Asking, AtRest
<1>5. ASSUME NEW g \in Gws, Asking(op'[g]) PROVE AskHeld(op'[g], during'[g], bucket')
  <2>1. op'[g] = op[g] /\ Asking(op[g])
    BY <1>2, <1>3, <1>4, <1>5
  <2>2. AskHeld(op[g], during[g], bucket)
    BY <2>1 DEF AsksFine, AsksOf
  <2>3. during[g] \subseteq during'[g]
    BY <1>1
  <2>4. AskFine(op[g], during'[g])
    BY <2>2, <2>3, AskGrows DEF AskHeld
  <2>5. ASSUME op[g].req.key # Unset PROVE bucket'[op[g].req.key].object \in during'[g]
    <3>1. Live(op[g].req.key)' \in during'[g]
      BY <1>1, <2>1, <2>5
    <3>2. Live(op[g].req.key)' = bucket'[op[g].req.key].object
      BY <2>1 DEF Live
    <3> QED
      BY <3>1, <3>2
  <2> QED
    BY <2>1, <2>4, <2>5 DEF AskHeld
<1>6. during' = [g \in Gws |-> during'[g]]
  BY <1>1
<1>7. AsksOf(op', during', bucket')
  BY <1>5, <1>6 DEF AsksOf
<1> QED
  BY <1>7 DEF AsksFine

-----------------------------------------------------------------------------
(* The invariant. *)

\* What every state of the gateways satisfies.
GwInv == OpsFine /\ StoreFine /\ CacheFine /\ UpFine /\ AsksFine

\* A step that changes what a running gateway or the command line does.
LEMMA StaysUp ==
  ASSUME UpFine, NEW a \in Actors, a \in Gws => boot[a] # 0, boot' = boot,
         \A h \in Gws : h # a => op'[h] = op[h]
  PROVE  UpFine'
<1>1. ASSUME NEW h \in Gws, op'[h].at # "idle" PROVE boot'[h] # 0
  <2>1. CASE h = a
    BY <2>1
  <2>2. CASE h # a
    BY <2>2, <1>1 DEF UpFine
  <2> QED
    BY <2>1, <2>2
<1> QED
  BY <1>1 DEF UpFine, Gws

\* A step of a request leaves the other actors alone.
LEMMA ActsAlone ==
  ASSUME OpsFine, NEW g \in Gws,
         \/ Accept(g) \/ Answer(g) \/ SizeOf(g) \/ List(g) \/ PropfindStep(g)
         \/ Measure(g) \/ Load(g) \/ ReadChunk(g) \/ PutStep(g) \/ DeleteStep(g)
  PROVE  /\ \A h \in Gws : h # g => op'[h] = op[h]
         /\ boot' = boot /\ (op[g].at # "idle" \/ boot[g] # 0)
<1>0. op = [a \in Actors |-> op[a]] /\ Gws \subseteq Actors
  BY DEF OpsFine, Actors
<1>1. CASE Accept(g)
  BY <1>0, <1>1 DEF Accept
<1>2. CASE Answer(g)
  BY <1>0, <1>2 DEF Answer
<1>3. CASE SizeOf(g)
  BY <1>0, <1>3 DEF SizeOf, At, Respond, Quiet
<1>4. CASE List(g)
  BY <1>0, <1>4 DEF List, At, Respond, Quiet
<1>5. CASE PropfindStep(g)
  BY <1>0, <1>5 DEF PropfindStep, At, Respond, Quiet
<1>6. CASE Measure(g)
  BY <1>0, <1>6 DEF Measure, At, Respond, Quiet
<1>7. CASE Load(g)
  BY <1>0, <1>7 DEF Load, At, Respond, Quiet
<1>8. CASE ReadChunk(g)
  BY <1>0, <1>8 DEF ReadChunk, At
<1>9. CASE PutStep(g)
  BY <1>0, <1>9 DEF PutStep, At, Quiet
<1>10. CASE DeleteStep(g)
  BY <1>0, <1>10 DEF DeleteStep, At, Quiet
<1> QED
  BY <1>1, <1>2, <1>3, <1>4, <1>5, <1>6, <1>7, <1>8, <1>9, <1>10

\* What leaves the cache alone.
LEMMA SameCache ==
  ASSUME CacheFine, boots' = boots, boot' = boot, files' = files, order' = order
  PROVE  CacheFine'
BY DEF CacheFine

\* The gateways start down, the cache empty.
LEMMA GwInitially ==
  ASSUME GwInit
  PROVE  GwInv
<1>1. OpsFine
  BY DEF GwInit, OpsFine, OpFine, AtRest
<1>2. StoreFine
  <2>1. /\ published = [k \in Keys |-> published[k]] /\ outbox = [n \in Seqs |-> outbox[n]]
        /\ (\A k \in Keys : published[k].object = Gone /\ published[k].lamport = 0)
        /\ \A n \in Seqs : outbox[n] = Gone
    BY DEF GwInit
  <2> QED
    BY <2>1 DEF StoreFine, StoreOf
<1>3. CacheFine
  <2>1. IsQueue(<<>>)
    <3>1. <<>> \in Seq({}) /\ Len(<<>>) = 0
      OBVIOUS
    <3>2. 0 <= Cap
      BY GatewayAssumption
    <3> QED
      BY <3>1, <3>2 DEF IsQueue
  <2> QED
    BY <2>1 DEF GwInit, CacheFine, CacheOf
<1>4. UpFine
  BY DEF GwInit, UpFine, AtRest, Actors
<1>5. AsksFine
  <2>1. ~Asking(AtRest)
    BY DEF Asking, AtRest
  <2>2. \A g \in Gws : op[g] = AtRest
    BY DEF GwInit, Actors
  <2>3. during = [g \in Gws |-> during[g]]
    BY DEF GwInit
  <2> QED
    BY <2>1, <2>2, <2>3 DEF AsksFine, AsksOf
<1> QED
  BY <1>1, <1>2, <1>3, <1>4, <1>5 DEF GwInv

\* One step, and the two things it may not do.
KeysKept == acl = {"append"} /\ ~Reuses => \A k \in LiveKeys : bucket'[k] = bucket[k]
\* What every step keeps.
GwSafe == GwInv' /\ KeysKept /\ Signed

\* A step of one request that writes nothing.
LEMMA AloneSafe ==
  ASSUME GwInv, NEW g \in Gws, OpStep, AsksFine', published' = published, outbox' = outbox, acl' = acl,
         boots' = boots, files' = files, order' = order,
         \/ Accept(g) \/ Answer(g) \/ SizeOf(g) \/ List(g) \/ PropfindStep(g)
         \/ Measure(g) \/ Load(g) \/ PutStep(g) \/ DeleteStep(g)
  PROVE  GwSafe
<1>1. OpsFine /\ StoreFine /\ CacheFine /\ UpFine /\ g \in Actors
  BY DEF GwInv, Actors
<1>2. /\ \A h \in Gws : h # g => op'[h] = op[h]
      /\ boot' = boot /\ (op[g].at # "idle" \/ boot[g] # 0)
  BY <1>1, ActsAlone
<1>3. boot[g] # 0
  BY <1>1, <1>2 DEF UpFine
<1>4. UpFine' /\ CacheFine' /\ StoreFine' /\ bucket' = bucket
  BY <1>1, <1>2, <1>3, StaysUp, SameCache, StaysStored, SameStore
<1> QED
  BY <1>4 DEF GwSafe, GwInv, KeysKept, OpStep

\* Every step.
LEMMA GwStep ==
  ASSUME GwInv, [GwNext]_gwVars
  PROVE  GwSafe
<1>0. OpsFine /\ StoreFine /\ BucketFine /\ CacheFine /\ UpFine /\ AsksFine /\ Gws \subseteq Actors
  BY BucketIs DEF GwInv, Actors
<1>1. ASSUME NEW g \in Gws, Open(g) PROVE GwSafe
  <2>1. /\ acl' = acl /\ published' = published /\ outbox' = outbox /\ op' = op /\ during' = during
        /\ boots' = boots + 1 /\ boot' = [boot EXCEPT ![g] = boots + 1]
    BY <1>1 DEF Open, store
  <2>2. StoreFine' /\ CacheFine'
    BY <1>0, <1>1, <2>1, StaysStored, OpenCache
  <2>3. OpsFine' /\ Signed
    BY <1>0, <2>1, SameOps
  <2>4. UpFine'
    <3>1. boots \in Nat /\ boot = [h \in Gws |-> boot[h]]
      BY <1>0 DEF CacheFine, CacheOf
    <3>2. \A h \in Gws : boot[h] # 0 => boot'[h] # 0
      BY <2>1, <3>1
    <3>3. ASSUME NEW h \in Gws, op'[h].at # "idle" PROVE boot'[h] # 0
      BY <1>0, <2>1, <3>2, <3>3 DEF UpFine
    <3> QED
      BY <3>3 DEF UpFine, Gws
  <2>6. bucket' = bucket
    BY <2>1, SameStore
  <2>5. AsksFine'
    BY <1>0, <2>1, <2>6, SameAsks
  <2> QED
    BY <2>1, <2>2, <2>3, <2>4, <2>5, <2>6 DEF GwSafe, GwInv, KeysKept
<1>2. ASSUME NEW g \in Gws, Kill(g) PROVE GwSafe
  <2>1. /\ acl' = acl /\ published' = published /\ outbox' = outbox /\ op' = [op EXCEPT ![g] = AtRest]
        /\ boot' = [boot EXCEPT ![g] = 0] /\ during' = [during EXCEPT ![g] = {}]
    BY <1>2 DEF Kill, store
  <2>2. StoreFine' /\ CacheFine'
    BY <1>0, <1>2, <2>1, StaysStored, KillCache
  <2>3. OpStep
    BY <1>0, <2>1, IdleOps
  <2>4. UpFine'
    <3>1. op = [a \in Actors |-> op[a]] /\ boot = [h \in Gws |-> boot[h]]
      BY <1>0 DEF OpsFine, CacheFine, CacheOf
    <3>2. op'[g] = AtRest /\ \A h \in Gws : h # g => op'[h] = op[h] /\ boot'[h] = boot[h]
      BY <1>0, <2>1, <3>1
    <3>3. AtRest.at = "idle"
      BY DEF AtRest
    <3>4. ASSUME NEW h \in Gws, op'[h].at # "idle" PROVE boot'[h] # 0
      BY <1>0, <3>2, <3>3, <3>4 DEF UpFine
    <3> QED
      BY <3>4 DEF UpFine, Gws
  <2>6. bucket' = bucket
    BY <2>1, SameStore
  <2>5. AsksFine'
    BY <1>0, <2>1, <2>6, IdleAsks
  <2> QED
    BY <2>1, <2>2, <2>3, <2>4, <2>5, <2>6 DEF GwSafe, GwInv, KeysKept, OpStep
<1>3. ASSUME NEW g \in Gws, Accept(g) PROVE GwSafe
  <2>1. /\ acl' = acl /\ published' = published /\ outbox' = outbox /\ boots' = boots /\ files' = files /\ order' = order
    BY <1>3 DEF Accept, store
  <2>2. OpStep /\ AsksFine'
    BY <1>0, <1>3, AcceptOps, AcceptAsks
  <2> QED
    BY <1>3, <2>1, <2>2, AloneSafe
<1>4. ASSUME NEW g \in Gws, Answer(g) PROVE GwSafe
  <2>1. /\ acl' = acl /\ published' = published /\ outbox' = outbox /\ boots' = boots /\ files' = files /\ order' = order
        /\ op' = [op EXCEPT ![g] = AtRest] /\ during' = [during EXCEPT ![g] = {}]
    BY <1>4 DEF Answer, store
  <2>2. OpStep /\ AsksFine'
    BY <1>0, <2>1, SameStore, IdleOps, IdleAsks
  <2> QED
    BY <1>4, <2>1, <2>2, AloneSafe
<1>5. ASSUME NEW g \in Gws, SizeOf(g) \/ List(g) \/ PropfindStep(g) PROVE GwSafe
  <2>1. /\ acl' = acl /\ published' = published /\ outbox' = outbox /\ boots' = boots /\ files' = files /\ order' = order
        /\ op[g].at \notin {"idle", "enqueue", "write"} /\ \E s : Respond(g, s)
    BY <1>5 DEF SizeOf, List, PropfindStep, Quiet, store, At
  <2>2. OpStep /\ AsksFine'
    BY <1>0, <1>5, <2>1, IsBusy, Responds, ListAsks
  <2> QED
    BY <1>5, <2>1, <2>2, AloneSafe
<1>6. ASSUME NEW g \in Gws, Measure(g) \/ Load(g) \/ PutStep(g) \/ DeleteStep(g) PROVE GwSafe
  <2>1. acl' = acl /\ published' = published /\ outbox' = outbox /\ boots' = boots /\ files' = files /\ order' = order
    BY <1>6 DEF Measure, Load, PutStep, DeleteStep, Quiet, store
  <2>2. OpStep
    BY <1>0, <1>6, MeasureOps, LoadOps, PutOps, DeleteOps
  <2>3. AsksFine'
    BY <1>0, <1>6, MeasureAsks, LoadAsks, PutAsks, DeleteAsks
  <2> QED
    BY <1>6, <2>1, <2>2, <2>3, AloneSafe
<1>7. ASSUME NEW g \in Gws, ReadChunk(g) PROVE GwSafe
  <2>1. acl' = acl /\ published' = published /\ outbox' = outbox /\ g \in Actors
    BY <1>0, <1>7 DEF ReadChunk, store
  <2>2. /\ \A h \in Gws : h # g => op'[h] = op[h]
        /\ boot' = boot /\ (op[g].at # "idle" \/ boot[g] # 0)
    BY <1>0, <1>7, ActsAlone
  <2>3. boot[g] # 0
    BY <1>0, <2>2 DEF UpFine
  <2>4. OpStep /\ CacheFine'
    BY <1>0, <1>7, <2>3, ReadOps, ReadCache
  <2>5. UpFine' /\ StoreFine'
    BY <1>0, <2>1, <2>2, <2>3, StaysUp, StaysStored
  <2>6. AsksFine'
    BY <1>0, <1>7, ReadAsks
  <2>7. bucket' = bucket
    BY <2>1, SameStore
  <2> QED
    BY <2>1, <2>4, <2>5, <2>6, <2>7 DEF GwSafe, GwInv, KeysKept, OpStep
<1>8. CASE CliStart
  <2>1. /\ acl' = acl /\ published' = published /\ outbox' = outbox /\ boots' = boots /\ boot' = boot /\ files' = files /\ order' = order
        /\ during' = during
    BY <1>8 DEF CliStart, store
  <2>2. OpStep /\ CacheFine' /\ StoreFine'
    BY <1>0, <1>8, <2>1, CliOps, SameCache, StaysStored
  <2>3. UpFine' /\ AsksFine'
    <3>1. Cli \in Actors /\ Cli \notin Gws
      BY GatewayAssumption DEF Actors
    <3>2. op = [a \in Actors |-> op[a]]
      BY <1>0 DEF OpsFine
    <3>3. \A h \in Gws : h # Cli => op'[h] = op[h]
      BY <1>0, <1>8, <3>2 DEF CliStart
    <3>4. \A h \in Gws : op'[h] = op[h]
      BY <3>1, <3>3
    <3> QED
      BY <1>0, <2>1, <3>1, <3>3, <3>4, StaysUp, SameStore, SameAsks
  <2>4. bucket' = bucket
    BY <2>1, SameStore
  <2> QED
    BY <2>1, <2>2, <2>3, <2>4 DEF GwSafe, GwInv, KeysKept, OpStep
<1>9. ASSUME NEW a \in Actors, TakeSeq(a) PROVE GwSafe
  <2>1. /\ acl' = acl /\ published' = published /\ outbox' = outbox /\ boots' = boots /\ boot' = boot
        /\ files' = files /\ order' = order /\ during' = during /\ op[a].at = "enqueue"
    BY <1>9 DEF TakeSeq, Quiet, store
  <2>2. OpStep /\ op'[a].at = "write" /\ \A b \in Actors : b # a => op'[b] = op[b]
    BY <1>0, <1>9, TakeOps
  <2>3. StoreFine' /\ CacheFine' /\ bucket' = bucket
    BY <1>0, <2>1, StaysStored, SameCache, SameStore
  <2>4. UpFine'
    <3>1. a \in Gws => boot[a] # 0
      BY <1>0, <2>1 DEF UpFine
    <3> QED
      BY <1>0, <2>1, <2>2, <3>1, StaysUp
  <2>5. AsksFine'
    <3>1. ~Asking(op'[a])
      BY <2>2 DEF Asking
    <3> QED
      BY <1>0, <2>1, <2>2, <2>3, <3>1, OtherAsks
  <2> QED
    BY <2>2, <2>3, <2>4, <2>5 DEF GwSafe, GwInv, KeysKept, OpStep
<1>11. ASSUME NEW a \in Actors, WriteFile(a) PROVE GwSafe
  <2>1. /\ acl' = acl /\ published' = published /\ boots' = boots /\ boot' = boot /\ files' = files
        /\ order' = order /\ op' = [op EXCEPT ![a] = AtRest] /\ op[a].at = "write"
    BY <1>11 DEF WriteFile
  <2>2. OpStep /\ CacheFine'
    BY <1>0, <2>1, IdleOps, SameCache
  <2>3. StoreFine' /\ AsksFine'
    BY <1>0, <1>11, DeltaStores, WriteAsks
  <2>4. op'[a] = AtRest /\ \A h \in Gws : h # a => op'[h] = op[h]
    <3>1. op = [b \in Actors |-> op[b]]
      BY <1>0 DEF OpsFine
    <3> QED
      BY <1>0, <2>1, <3>1
  <2>5. UpFine'
    <3>1. a \in Gws => boot[a] # 0
      BY <1>0, <2>1 DEF UpFine
    <3> QED
      BY <1>0, <2>1, <2>4, <3>1, StaysUp
  <2>6. KeysKept
    <3>1. SUFFICES ASSUME acl = {"append"}, NEW k \in LiveKeys, bucket'[k] # bucket[k] PROVE Reuses
      BY DEF KeysKept
    <3>2. k \in Keys /\ bucket[k].object # Gone
      BY DEF LiveKeys, Live
    <3>3. \E n \in Seqs : outbox[n] # Gone /\ n >= op[a].seq
      BY <1>0, <1>11, <3>1, <3>2, WriteKeeps
    <3>4. outbox' # outbox
      BY <2>1, <3>1, SameStore
    <3> QED
      BY <2>1, <2>4, <3>3, <3>4 DEF Reuses
  <2> QED
    BY <2>2, <2>3, <2>5, <2>6 DEF GwSafe, GwInv, OpStep
<1>12. CASE Replay
  <2>1. /\ acl' = acl /\ op' = op /\ during' = during /\ boots' = boots /\ boot' = boot
        /\ files' = files /\ order' = order
    BY <1>12 DEF Replay
  <2>2. bucket' = bucket /\ StoreFine' /\ OpsFine' /\ Signed
    BY <1>0, <1>12, ReplayStores
  <2>3. CacheFine' /\ AsksFine'
    BY <1>0, <2>1, <2>2, SameCache, SameAsks
  <2>4. UpFine'
    BY <1>0, <2>1 DEF UpFine
  <2> QED
    BY <2>2, <2>3, <2>4 DEF GwSafe, GwInv, KeysKept
<1>10. CASE UNCHANGED gwVars
  <2>1. /\ acl' = acl /\ published' = published /\ outbox' = outbox /\ op' = op /\ boots' = boots /\ boot' = boot
        /\ files' = files /\ order' = order /\ during' = during
    BY <1>10 DEF gwVars
  <2>2. OpsFine' /\ Signed /\ StoreFine' /\ CacheFine' /\ AsksFine'
    BY <1>0, <2>1, SameOps, StaysStored, SameCache, SameStore, SameAsks
  <2>3. UpFine'
    BY <1>0, <2>1 DEF UpFine
  <2>4. bucket' = bucket
    BY <2>1, SameStore
  <2> QED
    BY <2>2, <2>3, <2>4 DEF GwSafe, GwInv, KeysKept
<1> QED
  BY <1>1, <1>2, <1>3, <1>4, <1>5, <1>6, <1>7, <1>8, <1>9, <1>10, <1>11, <1>12 DEF GwNext

\* Whatever gateways, the command line and syncs do at once, wherever a gateway is
\* killed and whichever files are written over: requests are well formed and those
\* that write were let through, every delta of a bucket where keys can only be
\* created makes its key or has lost already, every cached file is in a queue, and
\* what a read has so far is the beginning of its range, worked out on the length
\* of one object that the key held meanwhile, of another.
THEOREM GatewayInductive == GwSpec => []GwInv
<1>1. GwInit => GwInv
  BY GwInitially
<1>2. GwInv /\ [GwNext]_gwVars => GwInv'
  BY GwStep DEF GwSafe
<1> QED
  BY <1>1, <1>2, PTL DEF GwSpec

\* A delta that is prepared came from a signed request (or the command line), and
\* where keys can only be created none is replaced or deleted, except by a write
\* of a number that is in use (WritesAreAllowed, with Reuses).
THEOREM WritesAllowed == GwSpec => WritesAreAllowed
<1>1. GwInv /\ [GwNext]_gwVars => [acl = {"append"} /\ ~Reuses => \A k \in LiveKeys : bucket'[k] = bucket[k]]_gwVars
  BY GwStep DEF GwSafe, KeysKept
<1>2. GwInv /\ [GwNext]_gwVars =>
        [\A g \in Gws : op[g].at # "enqueue" /\ op'[g].at = "enqueue" =>
           /\ op[g].req.auth \notin {"basic", "badbasic"}
           /\ g \in Tcp => op[g].req.auth = "sigv4"]_gwVars
  BY GwStep DEF GwSafe, Signed, SignedFor
<1> QED
  BY <1>1, <1>2, GatewayInductive, PTL DEF GwSpec, WritesAreAllowed, AppendOnlyKeeps, WritesAreSigned

\* The files of the cache directory are numbered by the places of the queues.
LEMMA BoundedCache ==
  ASSUME CacheFine
  PROVE  CacheIsBounded
<1> DEFINE F == {c \in Chunks : files[c] # 0}
           P == Gws \X (1 .. Cap)
           f == [c \in F |-> CHOOSE p \in P : order[p[1]][p[2]] = c]
<1>1. IsFiniteSet(Gws) /\ Cap \in Nat
  BY GatewayAssumption
<1>2. IsFiniteSet(1 .. Cap) /\ Cardinality(1 .. Cap) = Cap
  BY <1>1, FS_Interval
<1>3. IsFiniteSet(P) /\ Cardinality(P) = Cardinality(Gws) * Cap
  BY <1>1, <1>2, FS_Product
<1>4. ASSUME NEW c \in F PROVE f[c] \in P /\ order[f[c][1]][f[c][2]] = c
  <2>1. PICK g \in Gws : InQueue(c, order[g])
    BY <1>4 DEF CacheFine, CacheOf
  <2>2. PICK i \in 1 .. Len(order[g]) : order[g][i] = c
    BY <2>1 DEF InQueue
  <2>3. PICK S : order[g] \in Seq(S) /\ Len(order[g]) <= Cap
    BY DEF CacheFine, CacheOf, IsQueue
  <2> DEFINE n == Len(order[g])
  <2>4. n \in Nat /\ n <= Cap /\ i \in 1 .. n
    BY <2>2, <2>3, LenProperties
  <2> HIDE DEF n
  <2>5. i \in 1 .. Cap
    BY <2>4, <1>1
  <2>6. <<g, i>> \in P /\ order[<<g, i>>[1]][<<g, i>>[2]] = c
    BY <2>2, <2>5
  <2> HIDE DEF P
  <2>7. \E p \in P : order[p[1]][p[2]] = c
    BY <2>6
  <2> QED
    BY <2>7
<1>5. f \in Injection(F, P)
  <2>1. f = [c \in F |-> f[c]]
    OBVIOUS
  <2> HIDE DEF F, f, P
  <2>2. f \in [F -> P]
    BY <2>1, <1>4
  <2>3. \A c, d \in F : f[c] = f[d] => c = d
    BY <1>4
  <2> QED
    BY <2>2, <2>3 DEF Injection, IsInjective
<1> HIDE DEF F, f, P
<1>6. IsFiniteSet(F) /\ Cardinality(F) <= Cardinality(P)
  BY <1>3, <1>5, FS_Injection
<1>7. Cardinality(Gws) \in Nat
  BY <1>1, FS_CardinalityType
<1>8. Cardinality(F) <= Cap * Cardinality(Gws)
  BY <1>1, <1>3, <1>6, <1>7
<1> QED
  BY <1>8 DEF CacheIsBounded, F

\* An answer is a run of the bytes of its object.
LEMMA AnswerIsPart ==
  ASSUME NEW m \in Objects, NEW out \in Seq(Byte), NEW r, NEW total, Answers(out, m, r, total)
  PROVE  IsPart(out, m)
<1> DEFINE b == BytesOf(m)  z == Size(m)  l == Len(out)
<1>1. m \in Seq(Chunks)
  BY GatewayAssumption
<1>2. z \in Nat /\ Len(b) = z /\ l \in Nat
  BY <1>1, BytesIs, LenProperties
<1>3. PICK s \in 0 .. Len(b) :
        /\ {i \in 1 .. Len(b) : Wanted(r, total, i - 1)} = (s + 1) .. (s + l)
        /\ \A n \in 1 .. l : out[n] = b[s + n]
  BY DEF Answers
<1> HIDE DEF b, z, l
<1>4. (s + 1) .. (s + l) \subseteq 1 .. z /\ s \in 0 .. z
  <2>1. {i \in 1 .. Len(b) : Wanted(r, total, i - 1)} \subseteq 1 .. Len(b)
    OBVIOUS
  <2> QED
    BY <1>2, <1>3, <2>1
<1>5. s + l <= z
  <2>1. CASE l = 0
    BY <1>2, <1>4, <2>1
  <2>2. CASE l # 0
    <3>1. s + l \in (s + 1) .. (s + l)
      BY <1>2, <1>4, <2>2
    <3> QED
      BY <1>2, <1>4, <3>1
  <2> QED
    BY <2>1, <2>2
<1> QED
  BY <1>3, <1>4, <1>5 DEF IsPart, b, z, l

\* Without a range the length does not matter.
LEMMA WholeAnswers ==
  ASSUME NEW m, NEW out, NEW t, NEW u, Answers(out, m, Unset, t)
  PROVE  Answers(out, m, Unset, u)
<1>1. \A i : Wanted(Unset, t, i) = TRUE /\ Wanted(Unset, u, i) = TRUE
  BY DEF Wanted
<1> QED
  BY <1>1 DEF Answers

\* What the invariant says of a reply.
LEMMA ExactReads ==
  ASSUME GwInv
  PROVE  ReadsAreExact
<1>1. OpsFine /\ AsksFine /\ CacheFine
  BY DEF GwInv
<1>2. ASSUME NEW g \in Gws, Replying(g) PROVE AskFine(op[g], during[g]) /\ op[g].at = "reply"
  <2>1. op[g].at = "reply"
    BY <1>2 DEF Replying
  <2>2. Asking(op[g])
    BY <2>1 DEF Asking
  <2> QED
    BY <1>1, <2>1, <2>2, AskIs
<1>3. ReadsOneVersion
  <2>1. ASSUME NEW g \in Gws, Replying(g), op[g].req.method = "GET", op[g].req.key # Unset
        PROVE  Replied(op[g], during[g]) /\ op[g].out \in Seq(Byte)
    BY <2>1, <1>2 DEF AskFine, ReadsKey
  <2>2. ASSUME NEW g \in Gws, Replying(g), op[g].req.method = "GET", op[g].req.key # Unset,
               op[g].status \in {200, 206}
        PROVE  \E m \in during[g] \ {Gone} :
                 /\ IsPart(op[g].out, m)
                 /\ op[g].req.range = Unset \/ OneLength(during[g] \ {Gone}) =>
                      Answers(op[g].out, m, op[g].req.range, Size(m))
    <3>1. /\ Measured(op[g], during[g]) /\ op[g].out \in Seq(Byte)
          /\ \E m \in during[g] \cap Objects : Answers(op[g].out, m, op[g].req.range, op[g].total)
      BY <2>1, <2>2 DEF Replied
    <3>2. PICK m \in during[g] \cap Objects : Answers(op[g].out, m, op[g].req.range, op[g].total)
      BY <3>1
    <3>3. IsPart(op[g].out, m)
      BY <3>1, <3>2, AnswerIsPart
    <3>4. m \in during[g] \ {Gone} /\ Objects \cap {Gone} = {}
      BY GatewayAssumption
    <3>5. ASSUME op[g].req.range = Unset PROVE Answers(op[g].out, m, op[g].req.range, Size(m))
      BY <3>2, <3>5, WholeAnswers
    <3>6. ASSUME op[g].req.range # Unset, OneLength(during[g] \ {Gone})
          PROVE  Answers(op[g].out, m, op[g].req.range, Size(m))
      <4>1. PICK x \in during[g] \cap Objects : op[g].total = Size(x)
        BY <3>1, <3>6 DEF Measured
      <4>2. x \in during[g] \ {Gone}
        BY <3>4, <4>1
      <4>3. Size(x) = Size(m)
        BY <3>4, <3>6, <4>2 DEF OneLength
      <4>4. op[g].total = Size(m)
        BY <4>1, <4>3
      <4> QED
        BY <3>2, <4>4
    <3> QED
      BY <3>3, <3>4, <3>5, <3>6
  <2> QED
    BY <2>1, <2>2 DEF ReadsOneVersion, Replied
<1>4. FetchesOnlyTheRange
  <2>1. ASSUME NEW g \in Gws, Replying(g)
        PROVE  op[g].fetched \subseteq {op[g].out[i][1] : i \in DOMAIN op[g].out}
    <3> DEFINE out == op[g].out
    <3>1. out \in Seq(Byte) /\ op[g].fetched \subseteq Names(out)
      BY <2>1, <1>2 DEF AskFine
    <3> HIDE DEF out
    <3>2. DOMAIN out = 1 .. Len(out)
      BY <3>1, LenProperties
    <3>3. Names(out) = {out[i][1] : i \in DOMAIN out}
      BY <3>2 DEF Names
    <3> QED
      BY <3>1, <3>3 DEF out
  <2> QED
    BY <2>1 DEF FetchesOnlyTheRange
<1>5. CacheIsBounded
  BY <1>1, BoundedCache
<1> QED
  BY <1>3, <1>4, <1>5 DEF ReadsAreExact

\* An answer with content is a run of the bytes of one object that the key held
\* during the request, and just the bytes asked for of it if there was no range or
\* the versions the key held meanwhile were of one length; only what it is made of
\* was fetched, and the cache is within its bound (ReadsAreExact).
THEOREM ReadsExact == GwSpec => []ReadsAreExact
<1>1. GwInv => ReadsAreExact
  BY ExactReads
<1> QED
  BY <1>1, GatewayInductive, PTL

-----------------------------------------------------------------------------
(* Offline writes: Outbox. *)

\* One command at a time, as one user at one shell runs them.
OneProcess == \A p, q \in Proc : p = q

Manifest == [Key -> Entry]
Boxes == [Numbers -> Delta \cup {None}]

\* The files that decode, and what HEAD and they hold.
Decoded == [n \in Numbers |-> IF box[n] = Torn THEN None ELSE box[n]]
Stored == Fold(head, Decoded)

\* Types, and a disk that does not tear files has none that is torn.
Types ==
  /\ head \in Manifest \cup {Torn}
  /\ box \in [Numbers -> Delta \cup {None, Torn}]
  /\ DOMAIN job = Proc
  /\ began \in Seq([key : Key, before : SUBSET Nat])
  /\ acked \in SUBSET (1..Len(began))
  /\ tears \in BOOLEAN
  /\ ~tears => head # Torn /\ Readable

\* Versions in HEAD and in the files are of acknowledged writes, and what was
\* acknowledged when a write began is earlier than it.
IdsAreKnown ==
  /\ head # Torn => \A k \in Key : head[k].id \in acked \cup {0}
  /\ \A n \in Numbers : box[n] \in Delta => box[n].entry.id \in acked
  /\ \A i \in 1..Len(began) : began[i].before \subseteq 1..(i - 1)

\* HEAD already holds whatever the files hold.
Absorbed == \A n \in Numbers : box[n] \in Delta =>
              box[n].entry.lamport <= head[box[n].key].lamport

\* The write under way is the last begun, and not acknowledged yet.
Begun(k, i) == i = Len(began) /\ i \in 1..Len(began) /\ i \notin acked /\ k = began[i].key

\* Its delta is the next version of its key.
IsNext(d) ==
  /\ head # Torn /\ Readable
  /\ d \in Delta
  /\ Begun(d.key, d.entry.id)
  /\ d.entry.lamport = Stored[d.key].lamport + 1
  /\ d.entry.live \/ Stored[d.key].live

\* What a command has read is what the files hold still.
CommandHolds(p) ==
  /\ job[p].step \in {"idle", "read", "staged", "numbered", "loaded", "folded", "saved", "clearing"}
  /\ job[p].step = "idle" => job[p] = Idle
  /\ job[p].step = "read" =>
       /\ head # Torn /\ job[p].base = head
       /\ job[p].key \in Key /\ job[p].live \in BOOLEAN
       /\ Begun(job[p].key, job[p].id)
  /\ job[p].step = "staged" => IsNext(job[p].delta)
  /\ job[p].step = "numbered" =>
       IsNext(job[p].delta) /\ job[p].n \in Numbers /\ box[job[p].n] = None
  /\ job[p].step = "loaded" => Readable /\ job[p].deltas = box
  /\ job[p].step = "folded" => head # Torn /\ Readable /\ job[p].merged = Stored
  /\ job[p].step = "saved" => head # Torn /\ Readable /\ Absorbed
  /\ job[p].step = "clearing" =>
       head # Torn /\ Readable /\ Absorbed /\ job[p].todo \in SUBSET Numbers

\* Of every process.
Commands == \A p \in Proc : CommandHolds(p)

\* No acknowledged write is lost from HEAD and the files that decode.
Kept == head # Torn => \A i \in acked : Honours(Stored[began[i].key], i)

\* The inductive invariant.
IndInv == Types /\ IdsAreKnown /\ Commands /\ Kept
------------------------------------------------------------------------------
(* Least and greatest elements. *)

\* The natural order is well-founded.
LEMMA LeastNat ==
  ASSUME NEW T \in SUBSET Nat, T # {}
  PROVE  \E x \in T : \A y \in T : x <= y
<1> DEFINE Less == {p \in Nat \X Nat : p[1] < p[2]}
<1>1. IsWellFoundedOn(OpToRel(<, Nat), Nat)
  BY NatLessThanWellFounded
<1>2. OpToRel(<, Nat) = Less
  BY DEF OpToRel
<1>3. IsWellFoundedOn(Less, Nat)
  BY <1>1, <1>2
<1> HIDE DEF Less
<1>4. PICK x \in T : \A y \in T : ~ (<<y, x>> \in Less)
  BY <1>3, WFMin
<1>5. ASSUME NEW y \in T PROVE x <= y
  <2>1. ~ (<<y, x>> \in Less) /\ x \in Nat /\ y \in Nat
    BY <1>4
  <2>2. <<y, x>> \in Nat \X Nat /\ <<y, x>>[1] = y /\ <<y, x>>[2] = x
    BY <2>1
  <2>3. ~(y < x)
    BY <2>1, <2>2 DEF Less
  <2> QED
    BY <2>3, <2>1
<1> QED
  BY <1>5

\* A finite set of naturals that is not empty has a greatest element: of those
\* without one, the smallest would lose an element and still have none.
LEMMA GreatestNat ==
  ASSUME NEW T \in SUBSET Nat, T # {}, IsFiniteSet(T)
  PROVE  \E x \in T : \A y \in T : y <= x
<1> DEFINE HasMax(S) == \E x \in S : \A y \in S : y <= x
           Sizes == {n \in Nat : \E S \in SUBSET Nat :
                       IsFiniteSet(S) /\ S # {} /\ Cardinality(S) = n /\ ~HasMax(S)}
<1>1. SUFFICES ASSUME ~HasMax(T) PROVE FALSE
  OBVIOUS
<1>2. Cardinality(T) \in Sizes
  BY <1>1, FS_CardinalityType
<1>3. PICK n \in Sizes : \A m \in Sizes : n <= m
  <2>1. Sizes \in SUBSET Nat /\ Sizes # {}
    BY <1>2
  <2> HIDE DEF Sizes
  <2> QED
    BY <2>1, LeastNat
<1>4. PICK S \in SUBSET Nat : IsFiniteSet(S) /\ S # {} /\ Cardinality(S) = n /\ ~HasMax(S)
  OBVIOUS
<1>5. PICK e \in S : TRUE
  BY <1>4
<1>6. IsFiniteSet(S \ {e}) /\ Cardinality(S \ {e}) = n - 1 /\ n - 1 \in Nat
  <2>1. IsFiniteSet(S \ {e}) /\ Cardinality(S \ {e}) = Cardinality(S) - 1
    BY <1>4, <1>5, FS_RemoveElement
  <2> QED
    BY <2>1, <1>4, FS_CardinalityType
<1>7. S \ {e} # {}
  <2>1. S \ {e} = {} => HasMax(S)
    BY <1>5
  <2> QED
    BY <2>1, <1>4
<1>8. HasMax(S \ {e})
  <2>1. n - 1 \notin Sizes
    BY <1>3, <1>6
  <2> QED
    BY <2>1, <1>6, <1>7
<1>9. PICK x \in S \ {e} : \A y \in S \ {e} : y <= x
  BY <1>8
<1>10. HasMax(S)
  <2>1. CASE e <= x
    BY <2>1, <1>5, <1>9
  <2>2. CASE ~(e <= x)
    <3>1. \A y \in S : y <= e
      BY <2>2, <1>5, <1>9
    <3> QED
      BY <3>1, <1>5
  <2> QED
    BY <2>1, <2>2
<1> QED
  BY <1>4, <1>10

------------------------------------------------------------------------------
(* Folding files onto a manifest. *)

\* The files of a key, and the one whose entry wins among them.
Of(fs, k) == {n \in Numbers : fs[n] # None /\ fs[n].key = k}
Lam(fs, n) == fs[n].entry.lamport
Wins(fs, k, n) ==
  /\ n \in Of(fs, k)
  /\ \A m \in Of(fs, k) :
       Lam(fs, m) < Lam(fs, n) \/ (Lam(fs, m) = Lam(fs, n) /\ n <= m)

\* Such a file holds a delta of that key.
LEMMA OfAreDeltas ==
  ASSUME NEW fs \in Boxes, NEW k, NEW n \in Of(fs, k)
  PROVE  /\ n \in Numbers /\ n \in Nat
         /\ fs[n] \in Delta /\ fs[n].entry \in Entry /\ Lam(fs, n) \in Nat
         /\ fs[n].key = k
<1>1. n \in Numbers /\ n \in Nat /\ fs[n] # None /\ fs[n].key = k
  BY DEF Of, Numbers
<1>2. fs[n] \in Delta
  BY <1>1 DEF Boxes
<1> QED
  BY <1>1, <1>2 DEF Delta, Entry, Lam

\* Some file of a key wins, and only one.
LEMMA OneWins ==
  ASSUME NEW fs \in Boxes, NEW k, Of(fs, k) # {}
  PROVE  \E n \in Of(fs, k) : Wins(fs, k, n)
<1> DEFINE T == {Lam(fs, n) : n \in Of(fs, k)}
<1>1. T \in SUBSET Nat /\ T # {}
  BY OfAreDeltas
<1>2. IsFiniteSet(T)
  <2>1. IsFiniteSet(Numbers)
    BY FS_Interval, BoundsAssumption DEF Numbers
  <2>2. IsFiniteSet(Of(fs, k))
    BY <2>1, FS_Subset DEF Of
  <2>3. [n \in Of(fs, k) |-> Lam(fs, n)] \in Surjection(Of(fs, k), T)
    BY DEF Surjection
  <2> QED
    BY <2>2, <2>3, FS_Surjection
<1>3. PICK x \in T : \A y \in T : y <= x
  <2> HIDE DEF T
  <2> QED
    BY <1>1, <1>2, GreatestNat
<1> DEFINE Tops == {n \in Of(fs, k) : Lam(fs, n) = x}
<1>4. Tops \in SUBSET Nat /\ Tops # {}
  BY OfAreDeltas
<1>5. PICK n \in Tops : \A m \in Tops : n <= m
  <2> HIDE DEF Tops
  <2> QED
    BY <1>4, LeastNat
<1>6. ASSUME NEW m \in Of(fs, k)
      PROVE  Lam(fs, m) < Lam(fs, n) \/ (Lam(fs, m) = Lam(fs, n) /\ n <= m)
  <2>1. Lam(fs, m) <= x /\ Lam(fs, n) = x /\ Lam(fs, m) \in Nat /\ x \in Nat
    BY <1>1, <1>3, OfAreDeltas
  <2>2. CASE Lam(fs, m) = x
    <3>1. m \in Tops
      BY <2>2
    <3> HIDE DEF Tops
    <3> QED
      BY <1>5, <2>1, <2>2, <3>1
  <2>3. CASE Lam(fs, m) # x
    BY <2>1, <2>3
  <2> QED
    BY <2>2, <2>3
<1> QED
  BY <1>6 DEF Wins

\* Only one entry wins.
LEMMA WinnerIsOne ==
  ASSUME NEW fs \in Boxes, NEW k, NEW n, NEW m, Wins(fs, k, n), Wins(fs, k, m)
  PROVE  n = m
<1>1. n \in Of(fs, k) /\ m \in Of(fs, k)
  BY DEF Wins
<1>2. n \in Nat /\ m \in Nat /\ Lam(fs, n) \in Nat /\ Lam(fs, m) \in Nat
  BY <1>1, OfAreDeltas
<1>3. Lam(fs, m) < Lam(fs, n) \/ (Lam(fs, m) = Lam(fs, n) /\ n <= m)
  BY <1>1 DEF Wins
<1>4. Lam(fs, n) < Lam(fs, m) \/ (Lam(fs, n) = Lam(fs, m) /\ m <= n)
  BY <1>1 DEF Wins
<1> QED
  BY <1>2, <1>3, <1>4

\* Fold takes the winner when it is newer than the base, and the base else.
LEMMA FoldIs ==
  ASSUME NEW base \in Manifest, NEW fs \in Boxes, NEW k \in Key
  PROVE  \/ /\ \A n \in Of(fs, k) : Lam(fs, n) <= base[k].lamport
            /\ Fold(base, fs)[k] = base[k]
         \/ \E n \in Of(fs, k) :
              /\ Wins(fs, k, n)
              /\ Lam(fs, n) > base[k].lamport
              /\ Fold(base, fs)[k] = fs[n].entry
<1> DEFINE W(n) == \A m \in Of(fs, k) :
                     Lam(fs, m) < Lam(fs, n) \/ (Lam(fs, m) = Lam(fs, n) /\ n <= m)
           w == CHOOSE n \in Of(fs, k) : W(n)
<1>1. Fold(base, fs)[k] =
        IF \E n \in Of(fs, k) : Lam(fs, n) > base[k].lamport
        THEN fs[w].entry ELSE base[k]
  BY DEF Fold, Of, Lam
<1>2. base[k].lamport \in Nat
  BY DEF Manifest, Entry
<1>3. CASE \E n \in Of(fs, k) : Lam(fs, n) > base[k].lamport
  <2>1. PICK n \in Of(fs, k) : Lam(fs, n) > base[k].lamport
    BY <1>3
  <2>2. \E m \in Of(fs, k) : W(m)
    <3>1. PICK m \in Of(fs, k) : Wins(fs, k, m)
      BY <2>1, OneWins
    <3> QED
      BY <3>1 DEF Wins
  <2>3. w \in Of(fs, k) /\ W(w)
    <3> HIDE DEF W
    <3> QED
      BY <2>2
  <2> HIDE DEF w
  <2>4. Lam(fs, w) > base[k].lamport
    <3>1. Lam(fs, n) <= Lam(fs, w)
      BY <2>1, <2>3, OfAreDeltas
    <3>2. Lam(fs, n) \in Nat /\ Lam(fs, w) \in Nat
      BY <2>1, <2>3, OfAreDeltas
    <3> QED
      BY <2>1, <3>1, <3>2, <1>2
  <2> QED
    BY <1>1, <1>3, <2>3, <2>4 DEF Wins
<1>4. CASE ~\E n \in Of(fs, k) : Lam(fs, n) > base[k].lamport
  <2>1. \A n \in Of(fs, k) : Lam(fs, n) <= base[k].lamport
    BY <1>2, <1>4, OfAreDeltas
  <2> QED
    BY <1>1, <1>4, <2>1
<1> QED
  BY <1>3, <1>4

\* A fold is a manifest.
LEMMA FoldIsFcn ==
  ASSUME NEW base, NEW fs
  PROVE  Fold(base, fs) = [k \in Key |-> Fold(base, fs)[k]]
BY DEF Fold

\* The folded entry is the newest there is.
LEMMA FoldIsNewest ==
  ASSUME NEW base \in Manifest, NEW fs \in Boxes, NEW k \in Key
  PROVE  /\ Fold(base, fs) \in Manifest
         /\ Fold(base, fs)[k] \in Entry
         /\ base[k].lamport <= Fold(base, fs)[k].lamport
         /\ \A n \in Of(fs, k) : Lam(fs, n) <= Fold(base, fs)[k].lamport
<1>1. ASSUME NEW j \in Key PROVE Fold(base, fs)[j] \in Entry
  <2>1. base[j] \in Entry
    BY DEF Manifest
  <2> QED
    BY <2>1, FoldIs, OfAreDeltas
<1>2. Fold(base, fs) = [j \in Key |-> Fold(base, fs)[j]]
  BY FoldIsFcn
<1>3. Fold(base, fs) \in Manifest
  BY <1>1, <1>2 DEF Manifest
<1>4. base[k].lamport \in Nat
  BY DEF Manifest, Entry
<1>5. CASE /\ \A n \in Of(fs, k) : Lam(fs, n) <= base[k].lamport
           /\ Fold(base, fs)[k] = base[k]
  BY <1>1, <1>3, <1>4, <1>5
<1>6. ASSUME NEW n \in Of(fs, k), Wins(fs, k, n), Lam(fs, n) > base[k].lamport,
             Fold(base, fs)[k] = fs[n].entry
      PROVE  /\ base[k].lamport <= Fold(base, fs)[k].lamport
             /\ \A m \in Of(fs, k) : Lam(fs, m) <= Fold(base, fs)[k].lamport
  <2>1. Fold(base, fs)[k].lamport = Lam(fs, n) /\ Lam(fs, n) \in Nat
    BY <1>6, OfAreDeltas DEF Lam
  <2>2. \A m \in Of(fs, k) : Lam(fs, m) <= Lam(fs, n)
    BY <1>6, OfAreDeltas DEF Wins
  <2> QED
    BY <2>1, <2>2, <1>4, <1>6
<1> QED
  BY <1>1, <1>3, <1>5, <1>6, FoldIs

\* Folding what the base already has changes nothing.
LEMMA FoldAbsorbed ==
  ASSUME NEW base \in Manifest, NEW fs \in Boxes,
         \A n \in Numbers : fs[n] # None => fs[n].entry.lamport <= base[fs[n].key].lamport
  PROVE  Fold(base, fs) = base
<1>1. ASSUME NEW k \in Key PROVE Fold(base, fs)[k] = base[k]
  <2>1. \A n \in Of(fs, k) : Lam(fs, n) <= base[k].lamport /\ Lam(fs, n) \in Nat
    BY OfAreDeltas DEF Of, Lam
  <2>2. base[k].lamport \in Nat
    BY DEF Manifest, Entry
  <2> QED
    BY <2>1, <2>2, FoldIs
<1>2. Fold(base, fs) = [k \in Key |-> Fold(base, fs)[k]]
  BY FoldIsFcn
<1>3. base = [k \in Key |-> base[k]]
  BY DEF Manifest
<1> QED
  BY <1>1, <1>2, <1>3

\* A new file with a newer entry replaces that entry and no other.
LEMMA FoldWritten ==
  ASSUME NEW base \in Manifest, NEW fs \in Boxes, NEW n \in Numbers, fs[n] = None,
         NEW d \in Delta, d.entry.lamport > Fold(base, fs)[d.key].lamport
  PROVE  Fold(base, [fs EXCEPT ![n] = d]) = [Fold(base, fs) EXCEPT ![d.key] = d.entry]
<1> DEFINE g == [fs EXCEPT ![n] = d]
<1>1. g \in Boxes /\ g[n] = d /\ \A m \in Numbers : m # n => g[m] = fs[m]
  BY DEF Boxes
<1>2. d.key \in Key /\ d.entry \in Entry /\ d.entry.lamport \in Nat /\ d # None
  BY MarksAssumption DEF Delta, Entry
<1> HIDE DEF g
<1>3. Fold(base, g)[d.key] = d.entry
  <2> DEFINE k == d.key
             f == Fold(base, fs)[k]
  <2>1. n \in Of(g, k) /\ Lam(g, n) = d.entry.lamport
    BY <1>1, <1>2 DEF Of, Lam
  <2>2. ASSUME NEW m \in Of(g, k), m # n PROVE m \in Of(fs, k) /\ Lam(g, m) = Lam(fs, m)
    BY <1>1, <2>2 DEF Of, Lam
  <2>3. /\ f.lamport \in Nat /\ base[k].lamport \in Nat
        /\ base[k].lamport <= f.lamport
        /\ \A m \in Of(fs, k) : Lam(fs, m) <= f.lamport
    <3>1. f \in Entry /\ base[k] \in Entry
      BY <1>2, FoldIsNewest DEF Manifest
    <3> QED
      BY <1>2, <3>1, FoldIsNewest DEF Entry
  <2> HIDE DEF k, f
  <2>4. d.entry.lamport > f.lamport
    BY DEF f, k
  <2>5. k \in Key
    BY <1>2 DEF k
  <2>6. ~(Lam(g, n) <= base[k].lamport)
    BY <2>1, <2>3, <2>4, <1>2
  <2>7. PICK m \in Of(g, k) : Wins(g, k, m) /\ Fold(base, g)[k] = g[m].entry
    BY <1>1, <2>1, <2>5, <2>6, FoldIs
  <2>8. m = n
    <3>1. SUFFICES ASSUME m # n PROVE FALSE
      OBVIOUS
    <3>2. Lam(g, m) <= f.lamport /\ Lam(g, m) \in Nat
      BY <3>1, <2>2, <2>3, OfAreDeltas
    <3>3. Lam(g, n) < Lam(g, m) \/ Lam(g, n) = Lam(g, m)
      BY <2>1, <2>7 DEF Wins
    <3> QED
      BY <3>2, <3>3, <2>1, <2>3, <2>4, <1>2
  <2> QED
    BY <2>7, <2>8, <1>1 DEF k
<1>4. ASSUME NEW j \in Key, j # d.key PROVE Fold(base, g)[j] = Fold(base, fs)[j]
  <2>1. Of(g, j) = Of(fs, j)
    BY <1>1, <1>2, <1>4 DEF Of
  <2>2. \A m \in Of(fs, j) : g[m] = fs[m] /\ Lam(g, m) = Lam(fs, m)
    <3>1. n \notin Of(fs, j)
      BY DEF Of
    <3> QED
      BY <1>1, <3>1 DEF Of, Lam
  <2>3. \A m : Wins(g, j, m) <=> Wins(fs, j, m)
    BY <2>1, <2>2 DEF Wins
  <2>4. base[j].lamport \in Nat /\ \A m \in Of(fs, j) : Lam(fs, m) \in Nat
    BY OfAreDeltas DEF Manifest, Entry
  <2>5. CASE \A m \in Of(fs, j) : Lam(fs, m) <= base[j].lamport
    <3>1. \A m \in Of(fs, j) : ~(Lam(fs, m) > base[j].lamport)
      BY <2>4, <2>5
    <3>2. Fold(base, fs)[j] = base[j]
      BY <3>1, FoldIs
    <3>3. Fold(base, g)[j] = base[j]
      BY <1>1, <2>1, <2>2, <3>1, FoldIs
    <3> QED
      BY <3>2, <3>3
  <2>6. CASE ~\A m \in Of(fs, j) : Lam(fs, m) <= base[j].lamport
    <3>1. PICK a \in Of(fs, j) : Wins(fs, j, a) /\ Fold(base, fs)[j] = fs[a].entry
      BY <2>6, FoldIs
    <3>2. PICK b \in Of(g, j) : Wins(g, j, b) /\ Fold(base, g)[j] = g[b].entry
      BY <1>1, <2>1, <2>2, <2>6, FoldIs
    <3>3. a = b
      BY <3>1, <3>2, <2>3, WinnerIsOne
    <3> QED
      BY <3>1, <3>2, <3>3, <2>2
  <2> QED
    BY <2>5, <2>6
<1> DEFINE F == Fold(base, fs)
           G == Fold(base, g)
<1>5. F = [k \in Key |-> F[k]] /\ G = [k \in Key |-> G[k]]
  BY FoldIsFcn
<1>6. G[d.key] = d.entry /\ \A j \in Key : j # d.key => G[j] = F[j]
  BY <1>3, <1>4
<1> HIDE DEF F, G
<1>7. G = [F EXCEPT ![d.key] = d.entry]
  BY <1>2, <1>5, <1>6
<1> QED
  BY <1>7 DEF F, G, g
------------------------------------------------------------------------------
(* The state. *)

\* The files that decode are files; all of them, when all can be read.
LEMMA DecodedIs ==
  ASSUME Types
  PROVE  /\ Decoded \in Boxes
         /\ Readable => Decoded = box
         /\ \A n \in Numbers : Decoded[n] # None => box[n] \in Delta /\ Decoded[n] = box[n]
         /\ head # Torn => head \in Manifest /\ Stored \in Manifest
<1>1. Decoded \in Boxes
  BY DEF Types, Decoded, Boxes
<1>2. Readable => Decoded = box
  BY DEF Types, Decoded, Readable
<1>3. \A n \in Numbers : Decoded[n] # None => box[n] \in Delta /\ Decoded[n] = box[n]
  BY DEF Types, Decoded
<1>4. head # Torn => head \in Manifest
  BY DEF Types
<1>5. head # Torn => Stored \in Manifest
  <2>1. CASE Key = {}
    <3>1. Stored = [k \in Key |-> Stored[k]]
      BY FoldIsFcn DEF Stored
    <3> QED
      BY <2>1, <3>1 DEF Manifest
  <2>2. CASE Key # {}
    BY <1>1, <1>4, <2>2, FoldIsNewest DEF Stored
  <2> QED
    BY <2>1, <2>2
<1> QED
  BY <1>1, <1>2, <1>3, <1>4, <1>5

\* A step that moves its own command only.
LEMMA QuietStep ==
  ASSUME OneProcess, IndInv, UNCHANGED <<head, box, began, acked, tears>>,
         NEW p \in Proc, NEW x, job' = [job EXCEPT ![p] = x], CommandHolds(p)'
  PROVE  IndInv' /\ job'[p] = x
<1>1. \A q \in Proc : CommandHolds(q)'
  BY DEF OneProcess
<1>2. Stored' = Stored /\ Readable' = Readable
  BY DEF Stored, Decoded, Readable, Numbers
<1>3. Types'
  BY <1>2 DEF IndInv, Types
<1>4. IdsAreKnown'
  BY DEF IndInv, IdsAreKnown
<1>5. Kept'
  BY <1>2 DEF IndInv, Kept, Honours
<1> QED
  BY <1>1, <1>3, <1>4, <1>5 DEF IndInv, Commands, Types

\* A command that ended holds nothing.
LEMMA IdleHolds ==
  ASSUME NEW p \in Proc, job'[p] = Idle
  PROVE  CommandHolds(p)'
BY DEF Idle, CommandHolds

\* A put or an rm begins.
LEMMA ReadHeadStep ==
  ASSUME OneProcess, IndInv, NEW p \in Proc, NEW k \in Key, NEW live \in BOOLEAN,
         ReadHead(p, k, live)
  PROVE  IndInv'
<1> DEFINE l == Len(began)
           b == [key |-> k, before |-> acked]
           x == [step |-> "read", key |-> k, live |-> live, base |-> head, id |-> l + 1]
<1>1. /\ head # Torn /\ began' = Append(began, b) /\ job' = [job EXCEPT ![p] = x]
      /\ UNCHANGED <<head, box, acked, tears>>
  BY DEF ReadHead
<1>2. /\ began \in Seq([key : Key, before : SUBSET Nat]) /\ l \in Nat
      /\ acked \in SUBSET (1..l) /\ acked \in SUBSET Nat
  BY DEF IndInv, Types
<1>3. b \in [key : Key, before : SUBSET Nat] /\ b.key = k /\ b.before = acked
  BY <1>2
<1> HIDE DEF b
<1>4. /\ began' \in Seq([key : Key, before : SUBSET Nat]) /\ Len(began') = l + 1
      /\ began'[l + 1] = b /\ \A i \in 1..l : began'[i] = began[i]
  BY <1>1, <1>2, <1>3
<1>5. l + 1 \in 1..(l + 1) /\ l + 1 \notin acked /\ (l + 1) - 1 = l
  BY <1>2
<1>6. \A i \in 1..(l + 1) : i = l + 1 \/ i \in 1..l
  BY <1>2
<1> HIDE DEF l
<1>7. Stored' = Stored /\ Readable' = Readable
  BY <1>1 DEF Stored, Decoded, Readable, Numbers
<1>8. job'[p] = x /\ DOMAIN job' = Proc
  BY <1>1 DEF IndInv, Types
<1>9. CommandHolds(p)'
  <2>1. /\ l + 1 = Len(began') /\ l + 1 \in 1..Len(began') /\ l + 1 \notin acked'
        /\ k = began'[l + 1].key
    BY <1>1, <1>3, <1>4, <1>5
  <2>2. /\ job'[p].step = "read" /\ job'[p].key = k /\ job'[p].live = live
        /\ job'[p].base = head' /\ job'[p].id = l + 1
    BY <1>1, <1>8
  <2>3. job'[p].key \in Key /\ job'[p].live \in BOOLEAN /\ Begun(job[p].key, job[p].id)'
    BY <2>1, <2>2 DEF Begun
  <2>4. head' # Torn
    BY <1>1
  <2> QED
    BY <2>2, <2>3, <2>4 DEF CommandHolds
<1>10. Commands'
  BY <1>9 DEF OneProcess, Commands
<1>11. Types'
  <2>1. acked' \in SUBSET (1..Len(began'))
    BY <1>1, <1>2, <1>4
  <2> QED
    BY <1>1, <1>4, <1>7, <1>8, <2>1 DEF IndInv, Types
<1>12. IdsAreKnown'
  <2>1. ASSUME NEW i \in 1..Len(began') PROVE began'[i].before \subseteq 1..(i - 1)
    <3>1. CASE i = l + 1
      BY <3>1, <1>2, <1>3, <1>4, <1>5 DEF l
    <3>2. CASE i \in 1..l
      BY <3>2, <1>4 DEF IndInv, IdsAreKnown, l
    <3> QED
      BY <3>1, <3>2, <1>4, <1>6
  <2> QED
    BY <1>1, <2>1 DEF IndInv, IdsAreKnown
<1>13. Kept'
  <2>1. ASSUME head # Torn, NEW i \in acked PROVE Honours(Stored[began[i].key], i)'
    <3>1. began'[i] = began[i]
      BY <1>2, <1>4 DEF l
    <3>2. Honours(Stored[began[i].key], i)
      BY <2>1 DEF IndInv, Kept
    <3> QED
      BY <3>1, <3>2, <1>7 DEF Honours
  <2> QED
    BY <1>1, <2>1 DEF Kept
<1> QED
  BY <1>10, <1>11, <1>12, <1>13 DEF IndInv

\* It reads the outbox.
LEMMA ReadOutboxStep ==
  ASSUME OneProcess, IndInv, NEW p \in Proc, ReadOutbox(p)
  PROVE  IndInv'
<1> DEFINE j == job[p]
           view == Fold(j.base, box)
           ok == Readable /\ (j.live \/ view[j.key].live)
           d == Staged(view, j)
           x == IF ok THEN [step |-> "staged", delta |-> d] ELSE Idle
<1>1. /\ j.step = "read" /\ job' = [job EXCEPT ![p] = x]
      /\ UNCHANGED <<head, box, began, acked, tears>>
  BY DEF ReadOutbox
<1>2. /\ head # Torn /\ j.base = head /\ j.key \in Key /\ j.live \in BOOLEAN
      /\ Begun(j.key, j.id)
  BY <1>1 DEF IndInv, Commands, CommandHolds
<1>3. p \in DOMAIN job /\ job'[p] = x
  BY <1>1 DEF IndInv, Types
<1>4. CASE ok
  <2>1. view = Stored
    BY <1>2, <1>4, DecodedIs DEF IndInv, Stored
  <2>2. Stored[j.key] \in Entry
    BY <1>2, DecodedIs DEF IndInv, Manifest
  <2>3. /\ d.key = j.key /\ d.entry.lamport = Stored[j.key].lamport + 1
        /\ d.entry.id = j.id /\ d.entry.live = j.live
    BY <2>1 DEF Staged
  <2>4. d \in Delta
    <3>1. Stored[j.key].lamport + 1 \in Nat /\ j.id \in Nat
      BY <1>2, <2>2 DEF Entry, Begun, IndInv, Types
    <3> QED
      BY <2>1, <3>1, <1>2 DEF Staged, Delta, Entry
  <2>5. job'[p].step = "staged" /\ job'[p].delta = d
    BY <1>3, <1>4
  <2>6. Readable /\ (j.live \/ Stored[j.key].live)
    BY <1>4, <2>1
  <2> HIDE DEF j, view, ok, d, x
  <2>7. IsNext(d)
    BY <2>3, <2>4, <2>6, <1>2 DEF IsNext
  <2>8. IsNext(job[p].delta)'
    <3>1. Stored' = Stored /\ Readable' = Readable
      BY <1>1 DEF Stored, Decoded, Readable, Numbers
    <3> QED
      BY <2>5, <2>7, <3>1, <1>1 DEF IsNext, Begun
  <2>9. CommandHolds(p)'
    BY <2>5, <2>8 DEF CommandHolds
  <2> QED
    BY <1>1, <2>9, QuietStep
<1>5. CASE ~ok
  <2>1. job'[p] = Idle
    BY <1>3, <1>5
  <2> HIDE DEF x
  <2> QED
    BY <1>1, <2>1, IdleHolds, QuietStep
<1> QED
  BY <1>4, <1>5

\* It takes a file number that is free.
LEMMA NextSeqStep ==
  ASSUME OneProcess, IndInv, NEW p \in Proc, NextSeq(p)
  PROVE  IndInv'
<1>1. PICK n \in Numbers :
        /\ \A m \in Files : m < n
        /\ job' = [job EXCEPT ![p] = [step |-> "numbered", delta |-> job[p].delta, n |-> n]]
  BY DEF NextSeq
<1> DEFINE x == [step |-> "numbered", delta |-> job[p].delta, n |-> n]
<1>2. job[p].step = "staged" /\ UNCHANGED <<head, box, began, acked, tears>>
  BY DEF NextSeq
<1>3. IsNext(job[p].delta)
  BY <1>2 DEF IndInv, Commands, CommandHolds
<1>4. box[n] = None
  <2>1. n \in Nat /\ ~(n < n)
    BY DEF Numbers
  <2>2. n \notin Files
    BY <1>1, <2>1
  <2> QED
    BY <2>2 DEF Files
<1>5. job'[p].step = "numbered" /\ job'[p].delta = job[p].delta /\ job'[p].n = n
  BY <1>1 DEF IndInv, Types
<1>6. IsNext(job[p].delta)'
  <2>1. Stored' = Stored /\ Readable' = Readable
    BY <1>2 DEF Stored, Decoded, Readable, Numbers
  <2> QED
    BY <1>2, <1>3, <1>5, <2>1 DEF IsNext, Begun
<1>7. CommandHolds(p)'
  BY <1>2, <1>4, <1>5, <1>6 DEF CommandHolds, Numbers
<1>8. job' = [job EXCEPT ![p] = x]
  BY <1>1
<1> HIDE DEF x
<1> QED
  BY <1>2, <1>7, <1>8, QuietStep

\* A replay reads the outbox.
LEMMA LoadStep ==
  ASSUME OneProcess, IndInv, NEW p \in Proc, LoadDeltas(p)
  PROVE  IndInv'
<1> DEFINE x == [step |-> "loaded", deltas |-> box]
<1>1. job' = [job EXCEPT ![p] = x] /\ Readable /\ UNCHANGED <<head, box, began, acked, tears>>
  BY DEF LoadDeltas
<1>2. job'[p].step = "loaded" /\ job'[p].deltas = box' /\ Readable'
  BY <1>1 DEF IndInv, Types, Readable, Numbers
<1>3. CommandHolds(p)'
  BY <1>2 DEF CommandHolds
<1> HIDE DEF x
<1> QED
  BY <1>1, <1>3, QuietStep

\* It folds the outbox onto HEAD.
LEMMA FoldStep ==
  ASSUME OneProcess, IndInv, NEW p \in Proc, FoldOntoHead(p)
  PROVE  IndInv'
<1> DEFINE x == IF head = Torn THEN Idle
                ELSE [step |-> "folded", merged |-> Fold(head, job[p].deltas)]
<1>1. /\ job[p].step = "loaded" /\ job' = [job EXCEPT ![p] = x]
      /\ UNCHANGED <<head, box, began, acked, tears>>
  BY DEF FoldOntoHead
<1>2. job'[p] = x
  BY <1>1 DEF IndInv, Types
<1>3. CASE head = Torn
  <2>1. job'[p] = Idle
    BY <1>2, <1>3
  <2> HIDE DEF x
  <2> QED
    BY <1>1, <2>1, IdleHolds, QuietStep
<1>4. CASE head # Torn
  <2>1. Readable /\ Fold(head, job[p].deltas) = Stored
    BY <1>1, DecodedIs DEF IndInv, Commands, CommandHolds, Stored
  <2>2. job'[p].step = "folded" /\ job'[p].merged = Stored
    BY <1>2, <1>4, <2>1
  <2>3. Stored' = Stored /\ Readable'
    BY <1>1, <2>1 DEF Stored, Decoded, Readable, Numbers
  <2>4. CommandHolds(p)'
    BY <1>1, <1>4, <2>2, <2>3 DEF CommandHolds
  <2> HIDE DEF x
  <2> QED
    BY <1>1, <2>4, QuietStep
<1> QED
  BY <1>3, <1>4

\* It lists the files to clear.
LEMMA ListStep ==
  ASSUME OneProcess, IndInv, NEW p \in Proc, ListFiles(p)
  PROVE  IndInv'
<1> DEFINE x == IF Files = {} THEN Idle ELSE [step |-> "clearing", todo |-> Files]
<1>1. /\ job[p].step = "saved" /\ job' = [job EXCEPT ![p] = x]
      /\ UNCHANGED <<head, box, began, acked, tears>>
  BY DEF ListFiles
<1>2. job'[p] = x
  BY <1>1 DEF IndInv, Types
<1>3. head # Torn /\ Readable /\ Absorbed
  BY <1>1 DEF IndInv, Commands, CommandHolds
<1>4. head' # Torn /\ Readable' /\ Absorbed'
  BY <1>1, <1>3 DEF Readable, Absorbed, Numbers
<1>5. job'[p] = Idle \/ (job'[p].step = "clearing" /\ job'[p].todo \in SUBSET Numbers)
  BY <1>2 DEF Files
<1>6. CommandHolds(p)'
  BY <1>4, <1>5, IdleHolds DEF CommandHolds
<1> HIDE DEF x
<1> QED
  BY <1>1, <1>6, QuietStep

\* A command is killed.
LEMMA CrashStep ==
  ASSUME OneProcess, IndInv, NEW p \in Proc, Crash(p)
  PROVE  IndInv'
<1>1. job' = [job EXCEPT ![p] = Idle] /\ UNCHANGED <<head, box, began, acked, tears>>
  BY DEF Crash
<1>2. job'[p] = Idle
  BY <1>1 DEF IndInv, Types
<1> QED
  BY <1>1, <1>2, IdleHolds, QuietStep

\* The write that is acknowledged is the next version of its key, and no other
\* key changes.
LEMMA WriteStores ==
  ASSUME IndInv, NEW p \in Proc, WriteDelta(p)
  PROVE  /\ IsNext(job[p].delta)
         /\ Stored' = [Stored EXCEPT ![job[p].delta.key] = job[p].delta.entry]
         /\ Readable'
<1> DEFINE d == job[p].delta
           n == job[p].n
<1>1. job[p].step = "numbered" /\ box' = [box EXCEPT ![n] = d] /\ head' = head
  BY DEF WriteDelta
<1>2. IsNext(d) /\ n \in Numbers /\ box[n] = None
  BY <1>1 DEF IndInv, Commands, CommandHolds
<1> HIDE DEF d, n
<1>3. Decoded \in Boxes /\ Decoded = box /\ head \in Manifest /\ Stored \in Manifest
  BY <1>2, DecodedIs DEF IndInv, IsNext
<1>4. d \in Delta /\ d # Torn /\ d.key \in Key
  BY <1>2, MarksAssumption DEF IsNext, Delta
<1>5. Readable'
  BY <1>1, <1>2, <1>3, <1>4 DEF IsNext, Readable, Boxes, Numbers
<1>6. Decoded' = [Decoded EXCEPT ![n] = d]
  <2>1. box' \in [Numbers -> Delta \cup {None}] /\ \A m \in Numbers : box'[m] # Torn
    BY <1>1, <1>2, <1>3, <1>4, <1>5 DEF Boxes, Readable, Numbers
  <2>2. Decoded' = box'
    BY <2>1 DEF Decoded, Numbers
  <2> QED
    BY <2>2, <1>1, <1>3
<1>7. d.entry.lamport > Fold(head, Decoded)[d.key].lamport
  <2>1. Stored[d.key] \in Entry
    BY <1>3, <1>4 DEF Manifest
  <2>2. Stored[d.key].lamport \in Nat /\ d.entry.lamport = Stored[d.key].lamport + 1
    BY <1>2, <2>1 DEF IsNext, Entry
  <2> QED
    BY <2>2 DEF Stored
<1>8. Stored' = [Stored EXCEPT ![d.key] = d.entry]
  <2>1. Decoded[n] = None
    BY <1>2, <1>3
  <2>2. Fold(head, [Decoded EXCEPT ![n] = d]) = [Fold(head, Decoded) EXCEPT ![d.key] = d.entry]
    BY <1>2, <1>3, <1>4, <1>7, <2>1, FoldWritten
  <2>3. Stored' = Fold(head, [Decoded EXCEPT ![n] = d])
    BY <1>1, <1>6 DEF Stored
  <2> QED
    BY <2>2, <2>3 DEF Stored
<1> QED
  BY <1>2, <1>5, <1>8 DEF d

\* The delta is written, and the write acknowledged.
LEMMA WriteStep ==
  ASSUME OneProcess, IndInv, NEW p \in Proc, WriteDelta(p)
  PROVE  IndInv'
<1> DEFINE d == job[p].delta
           i == d.entry.id
<1>1. /\ job[p].step = "numbered" /\ box' = [box EXCEPT ![job[p].n] = d]
      /\ acked' = acked \cup {i} /\ job' = [job EXCEPT ![p] = Idle]
      /\ UNCHANGED <<head, began, tears>>
  BY DEF WriteDelta
<1>2. /\ IsNext(d) /\ Readable' /\ job[p].n \in Numbers
      /\ Stored' = [Stored EXCEPT ![d.key] = d.entry]
  BY <1>1, WriteStores DEF IndInv, Commands, CommandHolds
<1> HIDE DEF d
<1>3. d \in Delta /\ d.key \in Key /\ Begun(d.key, i) /\ head # Torn
  BY <1>2 DEF IsNext, Delta
<1> HIDE DEF i
<1>4. i \in 1..Len(began) /\ i = Len(began) /\ d.key = began[i].key /\ Len(began) \in Nat
  BY <1>3 DEF Begun, IndInv, Types
<1>5. Stored \in Manifest
  BY <1>3, DecodedIs DEF IndInv
<1>6. Commands'
  <2>1. job'[p] = Idle
    BY <1>1 DEF IndInv, Types
  <2> QED
    BY <2>1, IdleHolds DEF Commands, OneProcess
<1>7. Types'
  <2>1. box' \in [Numbers -> Delta \cup {None, Torn}]
    BY <1>1, <1>2, <1>3 DEF IndInv, Types
  <2>2. acked' \in SUBSET (1..Len(began'))
    BY <1>1, <1>4 DEF IndInv, Types
  <2>3. DOMAIN job' = Proc
    BY <1>1 DEF IndInv, Types
  <2> QED
    BY <1>1, <1>2, <1>3, <2>1, <2>2, <2>3 DEF IndInv, Types, Numbers
<1>8. IdsAreKnown'
  <2>1. \A m \in Numbers : box'[m] = d \/ box'[m] = box[m]
    BY <1>1 DEF IndInv, Types
  <2>2. \A m \in Numbers : box'[m] \in Delta => box'[m].entry.id \in acked'
    BY <1>1, <2>1 DEF IndInv, IdsAreKnown, i
  <2> QED
    BY <1>1, <2>2 DEF IndInv, IdsAreKnown, Numbers
<1>9. Kept'
  <2>1. ASSUME NEW m \in acked' PROVE Honours(Stored[began[m].key], m)'
    <3>1. m \in 1..Len(began) /\ began[m].before \subseteq 1..(m - 1) /\ began[m].key \in Key
      <4>1. m \in 1..Len(began)
        BY <1>1, <1>4 DEF IndInv, Types
      <4>2. began[m] \in [key : Key, before : SUBSET Nat]
        BY <4>1, ElementOfSeq DEF IndInv, Types
      <4> QED
        BY <4>1, <4>2 DEF IndInv, IdsAreKnown
    <3>2. i # 0 /\ i \notin began[m].before
      BY <1>4, <3>1
    <3>3. CASE began[m].key = d.key
      <4>1. Stored'[began[m].key].id = i
        BY <3>3, <1>2, <1>3, <1>5 DEF Manifest, i
      <4> QED
        BY <4>1, <3>2, <1>1 DEF Honours
    <3>4. CASE began[m].key # d.key
      <4>1. m \in acked
        BY <3>4, <1>1, <1>4
      <4>2. Stored'[began[m].key] = Stored[began[m].key]
        BY <3>1, <3>4, <1>2, <1>5 DEF Manifest
      <4>3. Honours(Stored[began[m].key], m)
        BY <4>1, <1>3 DEF IndInv, Kept
      <4> QED
        BY <4>2, <4>3, <1>1 DEF Honours
    <3> QED
      BY <3>3, <3>4
  <2> QED
    BY <2>1 DEF Kept
<1> QED
  BY <1>6, <1>7, <1>8, <1>9 DEF IndInv

\* A torn file is as if it were not there.
LEMMA TornStep ==
  ASSUME OneProcess, IndInv, NEW p \in Proc, WriteDeltaTorn(p)
  PROVE  IndInv'
<1> DEFINE n == job[p].n
<1>1. /\ tears /\ job[p].step = "numbered" /\ box' = [box EXCEPT ![n] = Torn]
      /\ job' = [job EXCEPT ![p] = Idle]
      /\ UNCHANGED <<head, began, acked, tears>>
  BY DEF WriteDeltaTorn
<1>2. n \in Numbers /\ box[n] = None
  BY <1>1 DEF IndInv, Commands, CommandHolds
<1> HIDE DEF n
<1>3. box' \in [Numbers -> Delta \cup {None, Torn}] /\ box'[n] = Torn
      /\ \A m \in Numbers : m # n => box'[m] = box[m]
  BY <1>1, <1>2 DEF IndInv, Types
<1>4. Decoded' = Decoded
  BY <1>2, <1>3 DEF Decoded, Numbers
<1>5. Stored' = Stored
  BY <1>1, <1>4 DEF Stored
<1>6. Commands'
  <2>1. job'[p] = Idle
    BY <1>1 DEF IndInv, Types
  <2> QED
    BY <2>1, IdleHolds DEF Commands, OneProcess
<1>7. Types'
  BY <1>1, <1>3 DEF IndInv, Types
<1>8. IdsAreKnown'
  <2>1. \A m \in Numbers : box'[m] \in Delta => box'[m].entry.id \in acked'
    BY <1>1, <1>3, MarksAssumption DEF IndInv, IdsAreKnown
  <2> QED
    BY <1>1, <2>1 DEF IndInv, IdsAreKnown, Numbers
<1>9. Kept'
  BY <1>1, <1>5 DEF IndInv, Kept, Honours
<1> QED
  BY <1>6, <1>7, <1>8, <1>9 DEF IndInv

\* Publishing what was folded changes nothing that HEAD and the files hold, and
\* after it HEAD holds it all.
LEMMA SaveStores ==
  ASSUME IndInv, NEW p \in Proc, SavePublished(p)
  PROVE  /\ head # Torn /\ head' # Torn /\ head' = Stored /\ Readable /\ Readable'
         /\ Stored' = Stored /\ Absorbed'
<1>1. job[p].step = "folded" /\ head' = job[p].merged /\ box' = box
  BY DEF SavePublished
<1>2. head # Torn /\ Readable /\ head' = Stored
  BY <1>1 DEF IndInv, Commands, CommandHolds
<1>3. Decoded \in Boxes /\ Decoded = box /\ head \in Manifest /\ Stored \in Manifest
  BY <1>2, DecodedIs DEF IndInv
<1>4. head' # Torn
  BY <1>2, <1>3, MarksAssumption DEF Manifest
<1>5. ASSUME NEW n \in Numbers, Decoded[n] # None
      PROVE  Decoded[n].entry.lamport <= Stored[Decoded[n].key].lamport
  <2>1. Decoded[n] \in Delta /\ Decoded[n].key \in Key
    BY <1>3, <1>5 DEF Boxes, Delta
  <2>2. n \in Of(Decoded, Decoded[n].key)
    BY <1>5 DEF Of
  <2>3. Lam(Decoded, n) <= Fold(head, Decoded)[Decoded[n].key].lamport
    BY <1>3, <2>1, <2>2, FoldIsNewest
  <2> QED
    BY <2>3 DEF Lam, Stored
<1>6. Fold(Stored, Decoded) = Stored
  BY <1>3, <1>5, FoldAbsorbed
<1>7. Decoded' = Decoded /\ Readable'
  BY <1>1, <1>2 DEF Decoded, Readable, Numbers
<1>8. Stored' = Stored
  BY <1>2, <1>6, <1>7 DEF Stored
<1>9. Absorbed'
  <2>1. \A n \in Numbers : box[n] \in Delta =>
          Decoded[n] # None /\ box[n].entry.lamport <= Stored[box[n].key].lamport
    BY <1>3, <1>5, MarksAssumption
  <2> QED
    BY <1>1, <1>2, <2>1 DEF Absorbed, Numbers
<1> QED
  BY <1>2, <1>4, <1>7, <1>8, <1>9

\* HEAD is replaced: it holds all that HEAD and the files held.
LEMMA SaveStep ==
  ASSUME OneProcess, IndInv, NEW p \in Proc, SavePublished(p)
  PROVE  IndInv'
<1>1. /\ job' = [job EXCEPT ![p] = [step |-> "saved"]]
      /\ UNCHANGED <<box, began, acked, tears>>
  BY DEF SavePublished
<1>2. /\ head # Torn /\ head' # Torn /\ head' = Stored /\ Readable /\ Readable'
      /\ Stored' = Stored /\ Absorbed'
  BY SaveStores
<1>3. Decoded \in Boxes /\ head \in Manifest /\ Stored \in Manifest
  BY <1>2, DecodedIs DEF IndInv
<1>4. Commands'
  <2>1. job'[p].step = "saved"
    BY <1>1 DEF IndInv, Types
  <2>2. CommandHolds(p)'
    BY <1>2, <2>1 DEF CommandHolds
  <2> QED
    BY <2>2 DEF Commands, OneProcess
<1>5. Types'
  <2>1. DOMAIN job' = Proc
    BY <1>1 DEF IndInv, Types
  <2> QED
    BY <1>1, <1>2, <1>3, <2>1 DEF IndInv, Types
<1>6. IdsAreKnown'
  <2>1. ASSUME NEW k \in Key PROVE Stored[k].id \in acked \cup {0}
    <3>1. \A n \in Of(Decoded, k) : Decoded[n].entry.id \in acked
      BY DecodedIs DEF IndInv, IdsAreKnown, Of
    <3>2. head[k].id \in acked \cup {0}
      BY <1>2 DEF IndInv, IdsAreKnown
    <3> QED
      BY <1>3, <3>1, <3>2, FoldIs DEF Stored
  <2> QED
    BY <1>1, <1>2, <2>1 DEF IndInv, IdsAreKnown, Numbers
<1>7. Kept'
  BY <1>1, <1>2 DEF IndInv, Kept, Honours
<1> QED
  BY <1>4, <1>5, <1>6, <1>7 DEF IndInv

\* HEAD is torn instead.
LEMMA SaveTornStep ==
  ASSUME OneProcess, IndInv, NEW p \in Proc, SavePublishedTorn(p)
  PROVE  IndInv'
<1>1. /\ tears /\ head' = Torn /\ job' = [job EXCEPT ![p] = Idle]
      /\ UNCHANGED <<box, began, acked, tears>>
  BY DEF SavePublishedTorn
<1>2. Commands'
  <2>1. job'[p] = Idle
    BY <1>1 DEF IndInv, Types
  <2> QED
    BY <2>1, IdleHolds DEF Commands, OneProcess
<1>3. Types' /\ IdsAreKnown' /\ Kept'
  BY <1>1 DEF IndInv, Types, IdsAreKnown, Kept, Numbers
<1> QED
  BY <1>2, <1>3 DEF IndInv

\* A file removed after HEAD took it up is not missed.
LEMMA RemoveStores ==
  ASSUME IndInv, NEW p \in Proc, RemoveFile(p)
  PROVE  /\ head # Torn /\ head' = head /\ Readable /\ Readable' /\ Absorbed'
         /\ Stored = head /\ Stored' = Stored
         /\ box' \in Boxes
         /\ \A m \in Numbers : box'[m] = box[m] \/ box'[m] = None
<1>1. PICK n \in job[p].todo : box' = [box EXCEPT ![n] = None]
  BY DEF RemoveFile
<1>2. job[p].step = "clearing" /\ head' = head
  BY DEF RemoveFile
<1>3. head # Torn /\ Readable /\ Absorbed /\ n \in Numbers
  BY <1>1, <1>2 DEF IndInv, Commands, CommandHolds
<1>4. Decoded \in Boxes /\ Decoded = box /\ head \in Manifest
  BY <1>3, DecodedIs DEF IndInv
<1>5. box' \in Boxes /\ \A m \in Numbers : box'[m] = box[m] \/ box'[m] = None
  BY <1>1, <1>3, <1>4 DEF Boxes
<1>6. Readable' /\ Absorbed'
  BY <1>2, <1>3, <1>5, MarksAssumption DEF Readable, Absorbed, Numbers
<1>7. Decoded' = box'
  BY <1>5, <1>6 DEF Decoded, Readable, Boxes, Numbers
<1>8. \A m \in Numbers : box[m] # None => box[m].entry.lamport <= head[box[m].key].lamport
  BY <1>3, <1>4 DEF Absorbed, Boxes
<1>9. Fold(head, box) = head
  BY <1>4, <1>8, FoldAbsorbed
<1>10. Fold(head, box') = head
  <2>1. \A m \in Numbers : box'[m] # None => box'[m].entry.lamport <= head[box'[m].key].lamport
    BY <1>5, <1>8
  <2> QED
    BY <1>4, <1>5, <2>1, FoldAbsorbed
<1>11. Stored = head /\ Stored' = Stored
  BY <1>2, <1>4, <1>7, <1>9, <1>10 DEF Stored
<1> QED
  BY <1>2, <1>3, <1>5, <1>6, <1>11

\* A file is removed, which HEAD has absorbed.
LEMMA RemoveStep ==
  ASSUME OneProcess, IndInv, NEW p \in Proc, RemoveFile(p)
  PROVE  IndInv'
<1>1. /\ head # Torn /\ head' = head /\ Readable /\ Readable' /\ Absorbed'
      /\ Stored' = Stored
      /\ box' \in Boxes
      /\ \A m \in Numbers : box'[m] = box[m] \/ box'[m] = None
  BY RemoveStores
<1>2. PICK n \in job[p].todo :
        job' = [job EXCEPT ![p] = IF box[n] = None \/ job[p].todo = {n} THEN Idle
                                  ELSE [step |-> "clearing", todo |-> job[p].todo \ {n}]]
  BY DEF RemoveFile
<1>3. job[p].step = "clearing" /\ UNCHANGED <<began, acked, tears>>
  BY DEF RemoveFile
<1>4. job[p].todo \in SUBSET Numbers
  BY <1>3 DEF IndInv, Commands, CommandHolds
<1>5. /\ DOMAIN job' = Proc
      /\ job'[p] = Idle \/ (job'[p].step = "clearing" /\ job'[p].todo \in SUBSET Numbers)
  <2>1. DOMAIN job' = Proc /\ job'[p] = IF box[n] = None \/ job[p].todo = {n} THEN Idle
                                       ELSE [step |-> "clearing", todo |-> job[p].todo \ {n}]
    BY <1>2 DEF IndInv, Types
  <2> QED
    BY <2>1, <1>4
<1>6. Commands'
  <2>1. CommandHolds(p)'
    BY <1>1, <1>5, IdleHolds DEF CommandHolds, Numbers
  <2> QED
    BY <2>1 DEF Commands, OneProcess
<1>7. Types'
  <2>1. box' \in [Numbers -> Delta \cup {None, Torn}]
    BY <1>1 DEF Boxes
  <2> QED
    BY <1>1, <1>3, <1>5, <2>1 DEF IndInv, Types, Numbers
<1>8. IdsAreKnown'
  <2>1. \A m \in Numbers : box'[m] \in Delta => box'[m].entry.id \in acked'
    BY <1>1, <1>3, MarksAssumption DEF IndInv, IdsAreKnown
  <2> QED
    BY <1>1, <1>3, <2>1 DEF IndInv, IdsAreKnown, Numbers
<1>9. Kept'
  BY <1>1, <1>3 DEF IndInv, Kept, Honours
<1> QED
  BY <1>6, <1>7, <1>8, <1>9 DEF IndInv
------------------------------------------------------------------------------
(* The theorems. *)

LEMMA IndInvInit ==
  ASSUME Init
  PROVE  IndInv
<1> USE DEF Init
<1>1. Absent \in Entry /\ Absent.id = 0
  BY DEF Absent, Entry
<1>2. head \in Manifest /\ head # Torn /\ \A k \in Key : head[k].id = 0
  <2>1. head \in Manifest
    BY <1>1 DEF Manifest
  <2> QED
    BY <1>1, <2>1, MarksAssumption DEF Manifest
<1>3. /\ box \in [Numbers -> Delta \cup {None, Torn}]
      /\ \A n \in Numbers : box[n] = None /\ box[n] \notin Delta /\ box[n] # Torn
  BY MarksAssumption
<1>4. began \in Seq([key : Key, before : SUBSET Nat]) /\ Len(began) = 0 /\ acked = {}
  OBVIOUS
<1>5. Types
  BY <1>2, <1>3, <1>4 DEF Types, Readable
<1>6. IdsAreKnown
  BY <1>2, <1>3, <1>4 DEF IdsAreKnown
<1>7. Commands
  BY DEF Commands, CommandHolds, Idle
<1>8. Kept
  BY <1>4 DEF Kept
<1> QED
  BY <1>5, <1>6, <1>7, <1>8 DEF IndInv

\* Every step keeps the invariant.
LEMMA IndInvStep ==
  ASSUME OneProcess, IndInv, [Next]_vars
  PROVE  IndInv'
<1>1. CASE UNCHANGED vars
  <2>1. UNCHANGED <<head, box, job, began, acked, tears>>
    BY <1>1 DEF vars
  <2>2. Stored' = Stored /\ Readable' = Readable /\ Absorbed' = Absorbed
    BY <2>1 DEF Stored, Decoded, Readable, Absorbed, Numbers
  <2>3. Types' /\ IdsAreKnown' /\ Kept'
    BY <2>1, <2>2 DEF IndInv, Types, IdsAreKnown, Kept, Honours, Numbers
  <2>4. Commands'
    BY <2>1, <2>2 DEF IndInv, Commands, CommandHolds, IsNext, Begun, Numbers
  <2> QED
    BY <2>3, <2>4 DEF IndInv
<1>2. ASSUME NEW p \in Proc,
             \/ \E k \in Key, live \in BOOLEAN : ReadHead(p, k, live)
             \/ LoadDeltas(p)
             \/ Continue(p)
             \/ Crash(p)
      PROVE  IndInv'
  BY <1>2, ReadHeadStep, LoadStep, ReadOutboxStep, NextSeqStep, WriteStep, TornStep, FoldStep,
     SaveStep, SaveTornStep, ListStep, RemoveStep, CrashStep DEF Continue
<1> QED
  BY <1>1, <1>2 DEF Next

\* Without torn files the working view is what HEAD and the files hold.
LEMMA ViewIsStored ==
  ASSUME IndInv, ~tears
  PROVE  WorkingView = Stored /\ head # Torn /\ Readable
<1>1. head # Torn /\ Readable
  BY DEF IndInv, Types
<1> QED
  BY <1>1, DecodedIs DEF IndInv, WorkingView, Stored

\* While the commands on a namespace do not overlap, no acknowledged put or rm
\* is lost to a replay, whole or cut off, to a crash, to a later command or to a
\* torn file (replay_into_head, enqueue, clear).
THEOREM AckedIsKept ==
  OneProcess => (Spec => []AckedWriteIsKept)
<1> SUFFICES ASSUME OneProcess PROVE Spec => []AckedWriteIsKept
  OBVIOUS
<1>1. Init => IndInv
  BY IndInvInit
<1>2. IndInv /\ [Next]_vars => IndInv'
  BY IndInvStep
<1>3. IndInv => AckedWriteIsKept
  <2>1. ASSUME IndInv PROVE AckedWriteIsStored
    BY <2>1 DEF IndInv, Kept, AckedWriteIsStored, Stored, Decoded
  <2>2. ASSUME IndInv PROVE AckedWriteIsVisible
    <3>1. SUFFICES ASSUME ~tears, NEW i \in acked
                   PROVE  head # Torn /\ Readable /\ Honours(WorkingView[began[i].key], i)
      BY DEF AckedWriteIsVisible
    <3>2. WorkingView = Stored /\ head # Torn /\ Readable
      BY <2>2, <3>1, ViewIsStored
    <3> QED
      BY <2>2, <3>1, <3>2 DEF IndInv, Kept
  <2> QED
    BY <2>1, <2>2 DEF AckedWriteIsKept
<1> QED
  BY <1>1, <1>2, <1>3, PTL DEF Spec

\* What HEAD and the files hold changes only by an acknowledged write.
LEMMA StoredChanges ==
  ASSUME OneProcess, IndInv, ~tears, [Next]_vars
  PROVE  \/ Stored' = Stored
         \/ \E p \in Proc : WriteDelta(p)
<1>1. CASE UNCHANGED <<head, box>>
  BY <1>1 DEF Stored, Decoded, Numbers
<1>2. ASSUME NEW p \in Proc, SavePublished(p) PROVE Stored' = Stored
  BY <1>2, SaveStores
<1>3. ASSUME NEW p \in Proc, RemoveFile(p) PROVE Stored' = Stored
  BY <1>3, RemoveStores
<1> QED
  BY <1>1, <1>2, <1>3 DEF Next, Continue, ReadHead, LoadDeltas, ReadOutbox, NextSeq, WriteDeltaTorn,
     FoldOntoHead, SavePublishedTorn, ListFiles, Crash, vars

\* An acknowledged write is a write of the abstract map.
LEMMA WriteIsWrite ==
  ASSUME IndInv, ~tears, ~tears', NEW p \in Proc, WriteDelta(p),
         WorkingView = Stored, WorkingView' = Stored'
  PROVE  \E k \in Key : View!Write(k)
<1> DEFINE d == job[p].delta
<1>1. IsNext(d) /\ Stored' = [Stored EXCEPT ![d.key] = d.entry]
  BY WriteStores
<1> HIDE DEF d
<1>2. d \in Delta /\ d.key \in Key /\ head # Torn
  BY <1>1 DEF IsNext, Delta
<1>3. Stored \in Manifest /\ head \in Manifest /\ Decoded \in Boxes
  BY <1>2, DecodedIs DEF IndInv
<1>4. Stored'[d.key] = d.entry
  BY <1>1, <1>2, <1>3 DEF Manifest
<1>5. ASSUME NEW j \in Key PROVE Stored[j].id # d.entry.id
  <2>1. \A n \in Of(Decoded, j) : Decoded[n].entry.id \in acked
    BY DecodedIs DEF IndInv, IdsAreKnown, Of
  <2>2. head[j].id \in acked \cup {0}
    BY <1>2 DEF IndInv, IdsAreKnown
  <2>3. Stored[j].id \in acked \cup {0}
    BY <1>3, <2>1, <2>2, FoldIs DEF Stored
  <2>4. d.entry.id \notin acked /\ d.entry.id # 0
    BY <1>1 DEF IsNext, Begun, IndInv, Types
  <2> QED
    BY <2>3, <2>4
<1>6. Stored'[d.key].lamport = Stored[d.key].lamport + 1
  BY <1>1, <1>4 DEF IsNext
<1>7. Stored'[d.key].live \/ Stored[d.key].live
  BY <1>1, <1>4 DEF IsNext
<1>8. Stored'[d.key].id \notin {Stored[j].id : j \in Key}
  BY <1>4, <1>5
<1>9. Stored' = [Stored EXCEPT ![d.key] = Stored'[d.key]]
  BY <1>1, <1>4
<1>10. View!Write(d.key)
  BY <1>6, <1>7, <1>8, <1>9 DEF View!Write
<1> QED
  BY <1>2, <1>10

\* Every step of a command is a write of the abstract map or leaves it alone.
LEMMA ViewStep ==
  ASSUME OneProcess, IndInv, IndInv', [Next]_vars
  PROVE  [\E k \in Key : View!Write(k)]_(IF tears THEN [k \in Key |-> Absent] ELSE WorkingView)
<1>1. tears' = tears
  BY DEF Next, Continue, ReadHead, LoadDeltas, ReadOutbox, NextSeq, WriteDelta, WriteDeltaTorn,
     FoldOntoHead, SavePublished, SavePublishedTorn, ListFiles, RemoveFile, Crash, vars
<1>2. CASE tears
  BY <1>1, <1>2
<1>3. CASE ~tears
  <2>1. WorkingView = Stored
    BY <1>3, ViewIsStored
  <2>2. WorkingView' = Stored'
    <3>1. head' # Torn /\ Readable' /\ Types'
      BY <1>1, <1>3 DEF IndInv, Types
    <3>2. Decoded' = box'
      BY <3>1 DEF Types, Readable, Decoded, Numbers
    <3> QED
      BY <3>2 DEF WorkingView, Stored
  <2>3. CASE Stored' = Stored
    BY <1>1, <1>3, <2>1, <2>2, <2>3
  <2>4. ASSUME NEW p \in Proc, WriteDelta(p) PROVE \E k \in Key : View!Write(k)
    BY <1>1, <1>3, <2>1, <2>2, <2>4, WriteIsWrite
  <2> QED
    BY <2>3, <2>4, <1>3, StoredChanges
<1> QED
  BY <1>2, <1>3

\* The view is empty at first.
LEMMA ViewInit ==
  ASSUME Init
  PROVE  View!MInit
<1>1. IndInv
  BY IndInvInit
<1>2. CASE tears
  BY <1>2 DEF View!MInit, View!Absent, Absent
<1>3. CASE ~tears
  <2>1. WorkingView = Stored /\ head # Torn
    BY <1>1, <1>3, ViewIsStored
  <2>2. Decoded \in Boxes /\ head \in Manifest /\ \A n \in Numbers : Decoded[n] = None
    BY <1>1, <2>1, DecodedIs DEF IndInv, Init, Decoded
  <2>3. Stored = head
    BY <2>2, FoldAbsorbed DEF Stored
  <2> QED
    BY <1>3, <2>1, <2>3 DEF View!MInit, View!Absent, Absent, Init
<1> QED
  BY <1>2, <1>3

\* While the commands on a namespace do not overlap, what ls, get and the
\* gateway show is a map of keys: it changes only by a put or an rm, in one step
\* and on one key, and replays and crashes do not show (working_view, replay).
THEOREM RefinesKeyMap ==
  OneProcess => (Spec => ImplementsKeyMap)
<1> SUFFICES ASSUME OneProcess PROVE Spec => ImplementsKeyMap
  OBVIOUS
<1>1. Init => IndInv /\ View!MInit
  BY IndInvInit, ViewInit
<1>2. IndInv /\ [Next]_vars => IndInv'
  BY IndInvStep
<1>3. IndInv /\ IndInv' /\ [Next]_vars =>
        [\E k \in Key : View!Write(k)]_(IF tears THEN [k \in Key |-> Absent] ELSE WorkingView)
  BY ViewStep
<1> QED
  BY <1>1, <1>2, <1>3, PTL DEF Spec, ImplementsKeyMap, View!MSpec
=============================================================================
