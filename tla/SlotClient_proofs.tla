-------------------------- MODULE SlotClient_proofs --------------------------
(***************************************************************************)
(* SlotClient for every set of signed records, offers, observers and       *)
(* bounds: the proofs a client derives convict, a fork its witnesses show  *)
(* is found, its pin stays anchored and moves forward, and what observers  *)
(* gave to the relay is kept and noticed at the next poll.                 *)
(***************************************************************************)
EXTENDS SlotClient, FiniteSetTheorems, SequenceTheorems, TLAPS

\* What a rostered observer signs.
Genuine == {Of(o, r) : o \in Trusted, r \in Record}

\* The client keeps what was signed, within its bounds.
ClientTypes ==
  /\ pin \in Record \cup {<<>>} /\ degraded \in BOOLEAN
  /\ evidence \in [Seqs -> SUBSET Record]
  /\ recordEvidence \in [Seqs -> SUBSET Record]
  /\ \A s \in Seqs : IsFiniteSet(evidence[s]) /\ IsFiniteSet(recordEvidence[s])
  /\ witnesses \in Seq(Genuine) /\ Len(witnesses) <= MaxWitnesses

\* The relay has what observers gave it.
RelayTypes ==
  /\ relay \subseteq Genuine \cup Minted /\ IsFiniteSet(relay)
  /\ disk \subseteq Genuine \cup Minted /\ IsFiniteSet(disk)
  /\ tmp \subseteq Genuine \cup Minted /\ IsFiniteSet(tmp)

\* One witness for each key is served; whatever a restart may read verifies;
\* what was acknowledged is in a file that is not a .tmp, and is served.
RelayHolds ==
  /\ \A v, w \in relay : Key(v) = Key(w) => v = w
  /\ \A w \in disk \cup tmp : Verifies(w)
  /\ \A k \in acked : \E w \in disk : Key(w) = k
  /\ RelayedIsKept

\* A retained witness is on record by its hash, unless the record of its
\* sequence was full, and then it is parted already.
WitnessIsEvidence ==
  \A i \in DOMAIN witnesses :
    LET h == witnesses[i].hash IN
      h \in recordEvidence[SeqNo(h)] \/ Cardinality(recordEvidence[SeqNo(h)]) > 1

IndInv == ClientTypes /\ RelayTypes /\ PinIsAnchored /\ RelayHolds /\ WitnessIsEvidence
------------------------------------------------------------------------------
(* Least elements and ranks. *)

\* The natural order is well-founded.
LEMMA LeastNat ==
  ASSUME NEW T \in SUBSET Nat, T # {}
  PROVE  \E x \in T : \A y \in T : x <= y
<1> DEFINE Less == {p \in Nat \X Nat : p[1] < p[2]}
<1>1. IsWellFoundedOn(OpToRel(<, Nat), Nat)
  BY NatLessThanWellFounded
<1>2. OpToRel(<, Nat) = Less
  BY DEF OpToRel
<1>3. IsWellFoundedOn(Less, Nat)
  BY <1>1, <1>2
<1> HIDE DEF Less
<1>4. PICK x \in T : \A y \in T : ~ (<<y, x>> \in Less)
  BY <1>3, WFMin
<1>5. ASSUME NEW y \in T PROVE x <= y
  <2>1. ~ (<<y, x>> \in Less) /\ x \in Nat /\ y \in Nat
    BY <1>4
  <2>2. <<y, x>> \in Nat \X Nat /\ <<y, x>>[1] = y /\ <<y, x>>[2] = x
    BY <2>1
  <2>3. ~(y < x)
    BY <2>1, <2>2 DEF Less
  <2> QED
    BY <2>3, <2>1
<1> QED
  BY <1>5

\* In a finite set under a strict total order (D gives what is below an
\* element) each number below the size is the rank of exactly one element.
LEMMA Ranks ==
  ASSUME NEW S, IsFiniteSet(S), NEW D \in [S -> SUBSET S],
         \A x \in S : x \notin D[x],
         \A x, y \in S : x # y => (x \in D[y] \/ y \in D[x]),
         \A x, y \in S : x \in D[y] => D[x] \subseteq D[y]
  PROVE  /\ \A x \in S : Cardinality(D[x]) \in 0 .. Cardinality(S) - 1
         /\ \A x, y \in S : Cardinality(D[x]) = Cardinality(D[y]) => x = y
         /\ \A k \in 0 .. Cardinality(S) - 1 : \E x \in S : Cardinality(D[x]) = k
<1> DEFINE n == Cardinality(S)
<1>0. n \in Nat
  BY FS_CardinalityType
<1>1. ASSUME NEW x \in S
      PROVE  IsFiniteSet(D[x]) /\ Cardinality(D[x]) \in 0 .. n - 1
  <2>1. IsFiniteSet(S \ {x}) /\ Cardinality(S \ {x}) = n - 1
    BY FS_RemoveElement
  <2>2. D[x] \in SUBSET (S \ {x})
    OBVIOUS
  <2> HIDE DEF n
  <2>3. IsFiniteSet(D[x]) /\ Cardinality(D[x]) <= n - 1
    <3>1. IsFiniteSet(D[x]) /\ Cardinality(D[x]) <= Cardinality(S \ {x})
      BY <2>1, <2>2, FS_Subset
    <3> QED
      BY <3>1, <2>1
  <2>4. Cardinality(D[x]) \in Nat
    BY <2>3, FS_CardinalityType
  <2> QED
    BY <1>0, <2>3, <2>4
<1> HIDE DEF n
<1>2. ASSUME NEW x \in S, NEW y \in S, x \in D[y]
      PROVE  Cardinality(D[x]) < Cardinality(D[y])
  <2>1. D[x] \in SUBSET D[y] /\ x \in D[y] /\ x \notin D[x]
    BY <1>2
  <2>2. Cardinality(D[x]) <= Cardinality(D[y]) /\ Cardinality(D[x]) # Cardinality(D[y])
    BY <1>1, <2>1, FS_Subset
  <2> QED
    BY <2>2, <1>1, <1>0
<1>3. ASSUME NEW x \in S, NEW y \in S, Cardinality(D[x]) = Cardinality(D[y]) PROVE x = y
  <2>1. Cardinality(D[x]) \in Nat
    BY <1>1, <1>0
  <2>2. ~(Cardinality(D[x]) < Cardinality(D[y])) /\ ~(Cardinality(D[y]) < Cardinality(D[x]))
    BY <1>3, <2>1
  <2>3. x \notin D[y] /\ y \notin D[x]
    BY <1>2, <2>2
  <2> QED
    BY <2>3
<1>4. ASSUME NEW k \in 0 .. n - 1 PROVE \E x \in S : Cardinality(D[x]) = k
  <2> DEFINE f == [x \in S |-> Cardinality(D[x])]
             T == 0 .. n - 1
  <2>1. f \in Injection(S, T)
    <3>1. f \in [S -> T]
      BY <1>1
    <3>2. \A x, y \in S : f[x] = f[y] => x = y
      BY <1>3
    <3> QED
      BY <3>1, <3>2 DEF Injection, IsInjective
  <2>2. IsFiniteSet(T) /\ Cardinality(T) = n
    BY <1>0, FS_Interval
  <2>3. f \in Surjection(S, T)
    <3> HIDE DEF f, T
    <3> QED
      BY <2>1, <2>2, FS_Injection DEF n
  <2> QED
    BY <2>3 DEF Surjection
<1> QED
  BY <1>1, <1>3, <1>4 DEF n

\* Two elements are more than one.
LEMMA TwoElements ==
  ASSUME NEW S, IsFiniteSet(S), NEW a \in S, NEW b \in S, a # b
  PROVE  Cardinality(S) > 1
<1>1. IsFiniteSet({a}) /\ Cardinality({a}) = 1
  BY FS_Singleton
<1>2. {a} \in SUBSET S /\ S # {a}
  OBVIOUS
<1>3. Cardinality({a}) <= Cardinality(S) /\ Cardinality(S) # Cardinality({a})
  BY <1>2, FS_Subset
<1>4. Cardinality(S) \in Nat
  BY FS_CardinalityType
<1> QED
  BY <1>1, <1>3, <1>4

\* More than one stays more than one.
LEMMA MoreStays ==
  ASSUME NEW S, NEW T, IsFiniteSet(T), S \subseteq T, Cardinality(S) > 1
  PROVE  Cardinality(T) > 1
<1>1. IsFiniteSet(S) /\ Cardinality(S) <= Cardinality(T)
  BY FS_Subset
<1>2. Cardinality(S) \in Nat /\ Cardinality(T) \in Nat
  BY <1>1, FS_CardinalityType
<1> QED
  BY <1>1, <1>2

------------------------------------------------------------------------------
(* Records and the prefix order. *)

\* A record is a sequence of versions with a last one.
LEMMA RecordShape ==
  ASSUME NEW r \in Record
  PROVE  /\ r \in Seq(Versions) /\ Len(r) \in Nat \ {0}
         /\ SeqNo(r) \in Seqs /\ SeqNo(r) \in Nat /\ Len(r) = SeqNo(r) + 1
         /\ Front(r) \in Seq(Versions) /\ Len(Front(r)) = SeqNo(r)
         /\ \A i \in 1 .. SeqNo(r) : Front(r)[i] = r[i]
<1>1. r \in Seq(Versions) /\ r # <<>>
  BY ClientAssumption
<1>2. Len(r) \in Nat \ {0}
  BY <1>1, EmptySeq, LenProperties
<1>3. Front(r) \in Seq(Versions) /\ Len(Front(r)) = Len(r) - 1
      /\ \A i \in 1 .. Len(r) - 1 : Front(r)[i] = r[i]
  <2> DEFINE n == Len(r) - 1
  <2>1. n \in Nat /\ n <= Len(r)
    BY <1>2
  <2> HIDE DEF n
  <2>2. /\ SubSeq(r, 1, n) \in Seq(Versions)
        /\ Len(SubSeq(r, 1, n)) = n
        /\ \A i \in 1 .. n : SubSeq(r, 1, n)[i] = r[i]
    BY <1>1, <2>1, SubSeqProperties
  <2> QED
    BY <2>2 DEF n, Front
<1> QED
  BY <1>1, <1>2, <1>3 DEF SeqNo, Seqs

\* A prefix, entry by entry.
LEMMA PrefixIs ==
  ASSUME NEW s \in Seq(Versions), NEW t \in Seq(Versions)
  PROVE  IsPrefix(s, t) <=> Len(s) <= Len(t) /\ \A i \in 1 .. Len(s) : s[i] = t[i]
<1>1. SubSeq(s, 1, Len(s)) = s
  OBVIOUS
<1>2. ASSUME Len(s) <= Len(t)
      PROVE  (s = SubSeq(t, 1, Len(s))) <=> \A i \in 1 .. Len(s) : s[i] = t[i]
  <2>1. SubSeq(t, 1, Len(s)) \in Seq(Versions) /\ Len(SubSeq(t, 1, Len(s))) = Len(s)
        /\ \A i \in 1 .. Len(s) : SubSeq(t, 1, Len(s))[i] = t[i]
    BY <1>2
  <2> QED
    BY <2>1, SeqEqual
<1> QED
  BY <1>1, <1>2 DEF IsPrefix

\* <<>> is a sequence of versions, and a prefix of every one.
LEMMA EmptyPrefix ==
  ASSUME NEW t \in Seq(Versions)
  PROVE  <<>> \in Seq(Versions) /\ IsPrefix(<<>>, t)
<1> DEFINE e == <<>>
<1>1. e \in Seq(Versions) /\ Len(e) = 0 /\ Len(t) \in Nat
  OBVIOUS
<1> HIDE DEF e
<1>2. Len(e) <= Len(t) /\ \A i \in 1 .. Len(e) : e[i] = t[i]
  BY <1>1
<1>3. IsPrefix(e, t)
  BY <1>1, <1>2, PrefixIs
<1> QED
  BY <1>1, <1>3 DEF e

\* Prefixes of prefixes.
LEMMA PrefixTransitive ==
  ASSUME NEW s \in Seq(Versions), NEW t \in Seq(Versions), NEW u \in Seq(Versions),
         IsPrefix(s, t), IsPrefix(t, u)
  PROVE  IsPrefix(s, u)
<1>1. Len(s) <= Len(t) /\ \A i \in 1 .. Len(s) : s[i] = t[i]
  BY PrefixIs
<1>2. Len(t) <= Len(u) /\ \A i \in 1 .. Len(t) : t[i] = u[i]
  BY PrefixIs
<1>3. Len(s) \in Nat /\ Len(t) \in Nat /\ Len(u) \in Nat
  OBVIOUS
<1>4. Len(s) <= Len(u) /\ \A i \in 1 .. Len(s) : s[i] = u[i]
  BY <1>1, <1>2, <1>3
<1> QED
  BY <1>4, PrefixIs

\* What verify_chain accepts is one history: each of its records continues
\* `prev', every earlier one is a prefix of it, and rostered writers signed
\* all that is above `prev'.
LEMMA ChainIsOneHistory ==
  ASSUME NEW rs \in Seq(Record), NEW prev \in Seq(Versions), VerifyChain(rs, prev),
         NEW n \in 1 .. Len(rs)
  PROVE  /\ Len(rs[n]) = Len(prev) + n
         /\ IsPrefix(prev, rs[n])
         /\ \A m \in 1 .. n : IsPrefix(rs[m], rs[n])
         /\ \A i \in Len(prev) + 1 .. Len(rs[n]) : rs[n][i].w \in Roster
<1> DEFINE P(k) == /\ Len(rs[k]) = Len(prev) + k
                   /\ IsPrefix(prev, rs[k])
                   /\ \A m \in 1 .. k : IsPrefix(rs[m], rs[k])
                   /\ \A i \in Len(prev) + 1 .. Len(rs[k]) : rs[k][i].w \in Roster
           Bad == {k \in 1 .. Len(rs) : ~P(k)}
<1>1. \A k \in 1 .. Len(rs) :
        /\ rs[k] \in Record /\ Front(rs[k]) = (IF k = 1 THEN prev ELSE rs[k - 1])
        /\ Writer(rs[k]) \in Roster
  BY DEF VerifyChain, RecordVerifies
<1>2. Len(prev) \in Nat /\ Len(rs) \in Nat
  OBVIOUS
<1>3. SUFFICES ASSUME Bad # {} PROVE FALSE
  OBVIOUS
<1>4. PICK k \in Bad : \A m \in Bad : k <= m
  <2>1. Bad \in SUBSET Nat
    BY <1>2
  <2> QED
    BY <1>3, <2>1, LeastNat
<1>5. k \in 1 .. Len(rs) /\ ~P(k) /\ k \in Nat
  <2> HIDE DEF P
  <2> QED
    BY <1>4, <1>2
<1>6. ASSUME k # 1 PROVE P(k - 1) /\ k - 1 \in 1 .. Len(rs)
  <2>1. k - 1 \in 1 .. Len(rs) /\ ~(k <= k - 1)
    BY <1>5, <1>6, <1>2
  <2>2. k - 1 \notin Bad
    <3> HIDE DEF Bad
    <3> QED
      BY <2>1, <1>4
  <2> QED
    BY <2>1, <2>2
<1> HIDE DEF Bad
<1> DEFINE b == rs[k]
           f == Front(b)
<1>7. /\ b \in Seq(Versions) /\ Len(b) \in Nat \ {0}
      /\ f \in Seq(Versions) /\ Len(f) = Len(b) - 1
      /\ \A i \in 1 .. Len(b) - 1 : f[i] = b[i]
  <2>1. b \in Record
    BY <1>1, <1>5
  <2> HIDE DEF b
  <2> QED
    BY <2>1, RecordShape DEF SeqNo
<1>8. b[Len(b)].w \in Roster
  BY <1>1, <1>5 DEF Writer, Last
<1>9. IsPrefix(f, b) /\ IsPrefix(b, b)
  <2> HIDE DEF f, b
  <2>1. Len(f) <= Len(b) /\ \A i \in 1 .. Len(f) : f[i] = b[i]
    BY <1>7
  <2>2. IsPrefix(f, b)
    BY <1>7, <2>1, PrefixIs
  <2>3. Len(b) <= Len(b)
    BY <1>7
  <2>4. IsPrefix(b, b)
    BY <1>7, <2>3, PrefixIs
  <2> QED
    BY <2>2, <2>4
<1>10. CASE k = 1
  <2>1. f = prev
    BY <1>1, <1>5, <1>10
  <2> HIDE DEF f
  <2>2. Len(b) = Len(prev) + k /\ IsPrefix(prev, b)
    BY <1>7, <1>9, <1>10, <2>1, <1>2
  <2>3. \A m \in 1 .. k : IsPrefix(rs[m], b)
    BY <1>9, <1>10
  <2>4. \A i \in Len(prev) + 1 .. Len(b) : b[i].w \in Roster
    <3>1. Len(b) = Len(prev) + 1
      BY <2>2, <1>10
    <3> HIDE DEF b
    <3>2. \A i \in Len(prev) + 1 .. Len(b) : i = Len(b)
      BY <3>1, <1>2
    <3> QED
      BY <3>2, <1>8
  <2> QED
    BY <1>5, <2>2, <2>3, <2>4
<1>11. CASE k # 1
  <2>1. f = rs[k - 1]
    BY <1>1, <1>5, <1>11
  <2>2. /\ Len(f) = Len(prev) + (k - 1)
        /\ IsPrefix(prev, f)
        /\ \A m \in 1 .. k - 1 : IsPrefix(rs[m], f)
        /\ \A i \in Len(prev) + 1 .. Len(f) : f[i].w \in Roster
    BY <1>6, <1>11, <2>1
  <2> HIDE DEF f
  <2>3. Len(b) = Len(prev) + k
    <3> HIDE DEF b
    <3> QED
      BY <1>7, <2>2, <1>2, <1>5
  <2>4. IsPrefix(prev, b)
    BY <2>2, <1>7, <1>9, PrefixTransitive
  <2>5. ASSUME NEW m \in 1 .. k PROVE IsPrefix(rs[m], b)
    <3>1. CASE m = k
      BY <3>1, <1>9
    <3>2. CASE m # k
      <4>1. m \in 1 .. k - 1 /\ m \in 1 .. Len(rs)
        BY <3>2, <1>5, <1>2
      <4>2. rs[m] \in Seq(Versions)
        BY <4>1, <1>1, RecordShape
      <4> QED
        BY <4>1, <4>2, <2>2, <1>7, <1>9, PrefixTransitive
    <3> QED
      BY <3>1, <3>2
  <2>6. ASSUME NEW i \in Len(prev) + 1 .. Len(b) PROVE b[i].w \in Roster
    <3> HIDE DEF b
    <3>1. CASE i = Len(b)
      BY <3>1, <1>8
    <3>2. CASE i # Len(b)
      <4>1. i \in 1 .. Len(b) - 1 /\ i \in Len(prev) + 1 .. Len(f)
        BY <3>2, <1>7, <1>2
      <4> QED
        BY <4>1, <1>7, <2>2
    <3> QED
      BY <3>1, <3>2
  <2> QED
    BY <1>5, <2>3, <2>4, <2>5, <2>6
<1> QED
  BY <1>10, <1>11

------------------------------------------------------------------------------
(* The loops of the client. *)

\* Lexicographic minimum of pairs: the first of the loops of fork_proof.
LEMMA LeastPair ==
  ASSUME NEW S \in SUBSET (Nat \X Nat), S # {}
  PROVE  Least(S) \in S
<1> DEFINE A == {x[1] : x \in S}
<1>1. PICK a \in A : \A y \in A : a <= y
  <2>1. A \in SUBSET Nat /\ A # {}
    OBVIOUS
  <2> QED
    BY <2>1, LeastNat
<1> DEFINE B == {x[2] : x \in {x \in S : x[1] = a}}
<1>2. PICK b \in B : \A y \in B : b <= y
  <2>1. B \in SUBSET Nat /\ B # {}
    OBVIOUS
  <2> QED
    BY <2>1, LeastNat
<1>3. PICK x \in S : x[1] = a /\ x[2] = b
  OBVIOUS
<1>4. ASSUME NEW y \in S \ {x} PROVE Before(x, y)
  <2>1. /\ x = <<a, b>> /\ y = <<y[1], y[2]>> /\ a \in Nat /\ b \in Nat
        /\ y[1] \in Nat /\ y[2] \in Nat /\ a <= y[1]
    BY <1>1, <1>3
  <2>2. CASE y[1] # a
    <3>1. 1 \in DOMAIN x /\ x[1] < y[1] /\ \A j \in 1 .. 1 - 1 : x[j] = y[j]
      BY <2>1, <2>2
    <3> QED
      BY <3>1 DEF Before
  <2>3. CASE y[1] = a
    <3>1. b <= y[2]
      BY <1>2, <2>3
    <3>2. y[2] # b
      BY <2>1, <2>3
    <3>3. 2 \in DOMAIN x /\ x[2] < y[2] /\ \A j \in 1 .. 2 - 1 : x[j] = y[j]
      BY <2>1, <2>3, <3>1, <3>2
    <3> QED
      BY <3>3 DEF Before
  <2> QED
    BY <2>2, <2>3
<1> QED
  BY <1>4 DEF Least

\* The same for what witness_conflict compares: of the conflicts at the lowest
\* sequence the answer has the nearest `high'.
LEMMA LeastConflict ==
  ASSUME NEW S \in SUBSET (Nat \X Nat \X Nat \X Nat), S # {}
  PROVE  /\ Least(S) \in S
         /\ \A y \in S : y[1] = Least(S)[1] => Least(S)[2] <= y[2]
<1> DEFINE A == {x[1] : x \in S}
<1>1. PICK a \in A : \A y \in A : a <= y
  <2>1. A \in SUBSET Nat /\ A # {}
    OBVIOUS
  <2> QED
    BY <2>1, LeastNat
<1> DEFINE SB == {x \in S : x[1] = a}
           B == {x[2] : x \in SB}
<1>2. PICK b \in B : \A y \in B : b <= y
  <2>1. B \in SUBSET Nat /\ B # {}
    OBVIOUS
  <2> QED
    BY <2>1, LeastNat
<1> DEFINE SC == {x \in SB : x[2] = b}
           C == {x[3] : x \in SC}
<1>3. PICK c \in C : \A y \in C : c <= y
  <2>1. C \in SUBSET Nat /\ C # {}
    OBVIOUS
  <2> QED
    BY <2>1, LeastNat
<1> DEFINE SD == {x \in SC : x[3] = c}
           D == {x[4] : x \in SD}
<1>4. PICK d \in D : \A y \in D : d <= y
  <2>1. D \in SUBSET Nat /\ D # {}
    OBVIOUS
  <2> QED
    BY <2>1, LeastNat
<1>5. PICK x \in S : x[1] = a /\ x[2] = b /\ x[3] = c /\ x[4] = d
  OBVIOUS
<1>6. /\ DOMAIN x = 1 .. 4
      /\ a \in Nat /\ b \in Nat /\ c \in Nat /\ d \in Nat
  BY <1>5
<1>7. ASSUME NEW y \in S, y # x PROVE Before(x, y)
  <2>1. y[1] \in Nat /\ y[2] \in Nat /\ y[3] \in Nat /\ y[4] \in Nat /\ a <= y[1]
    BY <1>1
  <2>2. CASE y[1] # a
    <3>1. 1 \in DOMAIN x /\ x[1] < y[1] /\ \A j \in 1 .. 1 - 1 : x[j] = y[j]
      BY <1>5, <1>6, <2>1, <2>2
    <3> QED
      BY <3>1 DEF Before
  <2>3. CASE y[1] = a /\ y[2] # b
    <3>1. b <= y[2]
      BY <1>2, <2>3
    <3>2. 2 \in DOMAIN x /\ x[2] < y[2] /\ \A j \in 1 .. 2 - 1 : x[j] = y[j]
      BY <1>5, <1>6, <2>1, <2>3, <3>1
    <3> QED
      BY <3>2 DEF Before
  <2>4. CASE y[1] = a /\ y[2] = b /\ y[3] # c
    <3>1. c <= y[3]
      BY <1>3, <2>4
    <3>2. 3 \in DOMAIN x /\ x[3] < y[3] /\ \A j \in 1 .. 3 - 1 : x[j] = y[j]
      BY <1>5, <1>6, <2>1, <2>4, <3>1
    <3> QED
      BY <3>2 DEF Before
  <2>5. CASE y[1] = a /\ y[2] = b /\ y[3] = c
    <3>1. d <= y[4]
      BY <1>4, <2>5
    <3>2. y[4] # d
      BY <1>5, <1>7, <2>5
    <3>3. 4 \in DOMAIN x /\ x[4] < y[4] /\ \A j \in 1 .. 4 - 1 : x[j] = y[j]
      BY <1>5, <1>6, <2>1, <2>5, <3>1, <3>2
    <3> QED
      BY <3>3 DEF Before
  <2> QED
    BY <2>2, <2>3, <2>4, <2>5
<1> DEFINE l == Least(S)
<1>8. l \in S /\ \A y \in S \ {l} : Before(l, y)
  BY <1>7 DEF Least
<1> HIDE DEF l
<1>9. ASSUME NEW y \in S, y[1] = l[1] PROVE l[2] <= y[2]
  <2>1. CASE y = l
    <3>1. l[2] \in Nat
      BY <1>8
    <3> QED
      BY <2>1, <3>1
  <2>2. CASE y # l
    <3>1. PICK i \in DOMAIN l : l[i] < y[i] /\ \A j \in 1 .. i - 1 : l[j] = y[j]
      BY <1>8, <2>2 DEF Before
    <3>2. DOMAIN l = 1 .. 4 /\ l[1] \in Nat /\ l[2] \in Nat /\ y[2] \in Nat
      BY <1>8
    <3>3. i # 1
      BY <3>1, <3>2, <1>9
    <3>4. CASE i = 2
      BY <3>1, <3>2, <3>4
    <3>5. CASE i # 2
      <4>1. 2 \in 1 .. i - 1
        BY <3>2, <3>3, <3>5
      <4>2. l[2] = y[2]
        BY <3>1, <4>1
      <4> QED
        BY <4>2, <3>2
    <3> QED
      BY <3>4, <3>5
  <2> QED
    BY <2>1, <2>2
<1> QED
  BY <1>8, <1>9 DEF l

\* Evidence is only added to; a hash that came in is there, unless its
\* sequence has two others.
LEMMA AddBoundedKeeps ==
  ASSUME NEW m \in [Seqs -> SUBSET Record], \A s \in Seqs : IsFiniteSet(m[s]),
         NEW rs \in Seq(Record)
  PROVE  /\ AddBounded(m, rs) \in [Seqs -> SUBSET Record]
         /\ \A s \in Seqs : IsFiniteSet(AddBounded(m, rs)[s]) /\ m[s] \subseteq AddBounded(m, rs)[s]
         /\ \A i \in DOMAIN rs :
              \/ rs[i] \in AddBounded(m, rs)[SeqNo(rs[i])]
              \/ Cardinality(AddBounded(m, rs)[SeqNo(rs[i])]) > 1
<1> DEFINE new(s) == Added(m, rs, s)
           rank(s, i) == Cardinality({j \in new(s) : j < i})
           room(s) == {i \in new(s) : rank(s, i) + Cardinality(m[s]) < MaxHashes}
           img(s) == {rs[i] : i \in room(s)}
           M == AddBounded(m, rs)
<1>1. M = [s \in Seqs |-> m[s] \cup img(s)]
  BY DEF AddBounded
<1>2. /\ DOMAIN rs = 1 .. Len(rs) /\ Len(rs) \in Nat
      /\ \A i \in DOMAIN rs : rs[i] \in Record
  OBVIOUS
<1>3. ASSUME NEW s \in Seqs
      PROVE  /\ new(s) \in SUBSET (1 .. Len(rs)) /\ IsFiniteSet(new(s))
             /\ \A i \in new(s) : /\ SeqNo(rs[i]) = s /\ rs[i] \notin m[s]
                                  /\ \A j \in 1 .. i - 1 : rs[j] # rs[i]
  <2>1. new(s) \in SUBSET (1 .. Len(rs))
    BY <1>2 DEF Added
  <2>2. IsFiniteSet(1 .. Len(rs))
    BY <1>2, FS_Interval
  <2>3. IsFiniteSet(new(s))
    BY <2>1, <2>2, FS_Subset
  <2> QED
    BY <2>1, <2>3 DEF Added
<1>4. ASSUME NEW s \in Seqs PROVE IsFiniteSet(img(s)) /\ img(s) \subseteq Record
  <2>1. room(s) \in SUBSET new(s) /\ room(s) \subseteq DOMAIN rs
    BY <1>3, <1>2
  <2>2. IsFiniteSet(room(s))
    BY <1>3, <2>1, FS_Subset
  <2> DEFINE f == [i \in room(s) |-> rs[i]]
  <2>3. f \in Surjection(room(s), img(s))
    <3> HIDE DEF room
    <3> QED
      BY DEF Surjection
  <2>4. IsFiniteSet(img(s))
    <3> HIDE DEF f, room, img
    <3> QED
      BY <2>2, <2>3, FS_Surjection
  <2> QED
    BY <2>1, <2>4, <1>2
<1>5. M \in [Seqs -> SUBSET Record]
  <2> HIDE DEF img, M
  <2> QED
    BY <1>1, <1>4
<1>6. ASSUME NEW s \in Seqs PROVE M[s] = m[s] \cup img(s) /\ IsFiniteSet(M[s])
  <2> HIDE DEF img, M
  <2>1. M[s] = m[s] \cup img(s)
    BY <1>1
  <2> QED
    BY <2>1, <1>4, FS_Union
<1>7. ASSUME NEW i \in DOMAIN rs, rs[i] \notin M[SeqNo(rs[i])]
      PROVE  Cardinality(M[SeqNo(rs[i])]) > 1
  <2> DEFINE s == SeqNo(rs[i])
  <2>1. s \in Seqs
    BY <1>2, RecordShape
  <2>2. rs[i] \notin m[s] /\ rs[i] \notin img(s)
    <3> HIDE DEF img, M
    <3> QED
      BY <1>6, <1>7, <2>1
  <2> DEFINE T == {k \in 1 .. Len(rs) : rs[k] = rs[i]}
  <2>3. PICK k \in T : \A j \in T : k <= j
    <3>1. T \in SUBSET Nat /\ i \in T
      BY <1>2
    <3> QED
      BY <3>1, LeastNat
  <2>4. k \in new(s)
    <3>1. ASSUME NEW j \in 1 .. k - 1 PROVE rs[j] # rs[k]
      <4>1. j \in 1 .. Len(rs) /\ ~(k <= j)
        BY <1>2
      <4>2. j \notin T
        BY <2>3, <4>1
      <4> QED
        BY <4>1, <4>2
    <3> QED
      BY <3>1, <1>2, <2>2 DEF Added
  <2>5. k \notin room(s)
    <3>1. rs[k] = rs[i]
      OBVIOUS
    <3> HIDE DEF room
    <3> QED
      BY <3>1, <2>2
  <2>6. ~(rank(s, k) + Cardinality(m[s]) < MaxHashes)
    BY <2>4, <2>5
  <2>7. /\ \A x \in new(s) : rank(s, x) \in 0 .. Cardinality(new(s)) - 1
        /\ \A x, y \in new(s) : rank(s, x) = rank(s, y) => x = y
        /\ \A n \in 0 .. Cardinality(new(s)) - 1 : \E x \in new(s) : rank(s, x) = n
    <3> DEFINE N == new(s)
               D == [x \in N |-> {j \in N : j < x}]
    <3>1. N \in SUBSET Nat /\ IsFiniteSet(N)
      BY <1>3, <2>1
    <3> HIDE DEF N
    <3>2. /\ D \in [N -> SUBSET N]
          /\ \A x \in N : x \notin D[x]
          /\ \A x, y \in N : x # y => (x \in D[y] \/ y \in D[x])
          /\ \A x, y \in N : x \in D[y] => D[x] \subseteq D[y]
          /\ \A x \in N : D[x] = {j \in N : j < x}
      <4>1. D \in [N -> SUBSET N] /\ \A x \in N : D[x] = {j \in N : j < x}
        OBVIOUS
      <4> HIDE DEF D
      <4>2. \A x \in N : x \notin D[x]
        BY <3>1, <4>1
      <4>3. \A x, y \in N : x # y => (x \in D[y] \/ y \in D[x])
        BY <3>1, <4>1
      <4>4. ASSUME NEW x \in N, NEW y \in N, x \in D[y] PROVE D[x] \subseteq D[y]
        <5>1. x < y /\ x \in Nat /\ y \in Nat
          BY <3>1, <4>1, <4>4
        <5>2. ASSUME NEW z \in D[x] PROVE z \in D[y]
          <6>1. z \in N /\ z < x /\ z \in Nat
            BY <3>1, <4>1
          <6>2. z < y
            BY <5>1, <6>1
          <6> QED
            BY <6>1, <6>2, <4>1
        <5> QED
          BY <5>2
      <4> QED
        BY <4>1, <4>2, <4>3, <4>4
    <3> HIDE DEF D
    <3>3. /\ \A x \in N : Cardinality(D[x]) \in 0 .. Cardinality(N) - 1
          /\ \A x, y \in N : Cardinality(D[x]) = Cardinality(D[y]) => x = y
          /\ \A k2 \in 0 .. Cardinality(N) - 1 : \E x \in N : Cardinality(D[x]) = k2
      BY <3>1, <3>2, Ranks
    <3>4. \A x \in N : rank(s, x) = Cardinality(D[x])
      BY <3>2 DEF N
    <3> HIDE DEF rank
    <3> QED
      BY <3>3, <3>4 DEF N
  <2> HIDE DEF rank, s
  <2>8. Cardinality(m[s]) \in Nat /\ Cardinality(new(s)) \in Nat
    <3> HIDE DEF new
    <3> QED
      BY <1>3, <2>1, FS_CardinalityType
  <2> HIDE DEF new
  <2>9. ASSUME NEW x \in new(s), rank(s, x) + Cardinality(m[s]) < MaxHashes
        PROVE  rs[x] \in M[s] /\ rs[x] \notin m[s]
    <3>1. rs[x] \in img(s)
      BY <2>9
    <3> HIDE DEF img, M
    <3> QED
      BY <3>1, <1>3, <1>6, <2>1
  <2> HIDE DEF img, room, M
  <2>10. IsFiniteSet(M[s]) /\ m[s] \subseteq M[s] /\ MaxHashes \in Nat /\ MaxHashes >= 2
    BY <1>6, <2>1, ClientAssumption
  <2>11. CASE Cardinality(m[s]) > 1
    BY <2>10, <2>11, MoreStays DEF s
  <2>12. CASE Cardinality(m[s]) = 1
    <3>1. Cardinality(new(s)) - 1 >= 1
      BY <2>4, <2>6, <2>7, <2>8, <2>10, <2>12
    <3>2. PICK x \in new(s) : rank(s, x) = 0
      BY <3>1, <2>7, <2>8
    <3>3. rs[x] \in M[s] /\ rs[x] \notin m[s]
      BY <2>9, <2>10, <2>12, <3>2
    <3>4. PICK y : y \in m[s]
      BY <2>1, <2>12, FS_EmptySet
    <3> QED
      BY <2>10, <3>3, <3>4, TwoElements DEF s
  <2>13. CASE Cardinality(m[s]) = 0
    <3>1. Cardinality(new(s)) - 1 >= 2
      BY <2>4, <2>6, <2>7, <2>8, <2>10, <2>13
    <3>2. PICK x \in new(s) : rank(s, x) = 0
      BY <3>1, <2>7, <2>8
    <3>3. PICK y \in new(s) : rank(s, y) = 1
      BY <3>1, <2>7, <2>8
    <3>4. rs[x] \in M[s] /\ rs[y] \in M[s]
      BY <2>9, <2>10, <2>13, <3>2, <3>3
    <3>5. rs[x] # rs[y]
      <4>1. x # y /\ x \in 1 .. Len(rs) /\ y \in 1 .. Len(rs)
        BY <3>2, <3>3, <1>3, <2>1
      <4>2. x \in 1 .. y - 1 \/ y \in 1 .. x - 1
        BY <4>1, <1>2
      <4> QED
        BY <4>2, <1>3, <2>1
    <3> QED
      BY <2>10, <3>4, <3>5, TwoElements DEF s
  <2> QED
    BY <2>8, <2>11, <2>12, <2>13
<1> QED
  <2> HIDE DEF M, img
  <2>1. \A s \in Seqs : IsFiniteSet(M[s]) /\ m[s] \subseteq M[s]
    BY <1>6
  <2> QED
    BY <1>5, <1>7, <2>1 DEF M

\* observe_witness lets through those of the list that pass its gates, and all
\* of those.
LEMMA AdmittedIs ==
  ASSUME NEW W, NEW ws \in Seq(W)
  PROVE  /\ Admitted(ws) \in Seq({w \in W : Admits(w)})
         /\ \A j \in DOMAIN ws : Admits(ws[j]) =>
              \E k \in DOMAIN Admitted(ws) : Admitted(ws)[k] = ws[j]
<1> DEFINE N == Len(ws)
           A == {w \in W : Admits(w)}
           At(f, i) == IF i = 0 THEN <<>>
                       ELSE IF Admits(ws[i]) THEN Append(f[i - 1], ws[i]) ELSE f[i - 1]
           Solves(n, f) == f = [i \in 0 .. n |-> At(f, i)]
           Bad == {n \in 0 .. N : \A f : ~Solves(n, f)}
<1>0. N \in Nat /\ DOMAIN ws = 1 .. N
  OBVIOUS
<1> HIDE DEF N
<1>1. Bad = {}
  <2>1. SUFFICES ASSUME Bad # {} PROVE FALSE
    OBVIOUS
  <2>2. PICK n \in Bad : \A m \in Bad : n <= m
    <3>1. Bad \in SUBSET Nat
      BY <1>0
    <3> QED
      BY <2>1, <3>1, LeastNat
  <2>3. n # 0
    <3>1. Solves(0, [i \in 0 .. 0 |-> <<>>])
      OBVIOUS
    <3> QED
      BY <3>1
  <2>4. n \in Nat /\ n - 1 \in 0 .. N /\ n \in 0 .. n
    BY <2>3, <1>0
  <2>5. PICK f : Solves(n - 1, f)
    <3>1. ~(n <= n - 1)
      BY <2>4
    <3> HIDE DEF Bad
    <3>2. n - 1 \notin Bad
      BY <2>2, <3>1
    <3> USE DEF Bad
    <3> HIDE DEF Solves
    <3> QED
      BY <2>4, <3>2
  <2> DEFINE g == [i \in 0 .. n |-> IF i = n THEN At(f, n) ELSE f[i]]
  <2>6. ASSUME NEW i \in 0 .. n PROVE At(g, i) = At(f, i)
    <3>1. CASE i = 0
      BY <3>1
    <3>2. CASE i # 0
      <4>1. i - 1 \in 0 .. n /\ i - 1 # n
        BY <3>2, <2>4
      <4>2. g[i - 1] = f[i - 1]
        BY <4>1
      <4> HIDE DEF g
      <4> QED
        BY <3>2, <4>2
    <3> QED
      BY <3>1, <3>2
  <2>7. ASSUME NEW i \in 0 .. n PROVE g[i] = At(f, i)
    <3>1. CASE i = n
      <4> HIDE DEF At
      <4> QED
        BY <3>1
    <3>2. CASE i # n
      <4>1. i \in 0 .. (n - 1)
        BY <3>2, <2>4
      <4> HIDE DEF At
      <4>2. f[i] = At(f, i)
        BY <4>1, <2>5
      <4> QED
        BY <4>2, <3>2
    <3> QED
      BY <3>1, <3>2
  <2>8. Solves(n, g)
    <3>1. \A i \in 0 .. n : g[i] = At(g, i)
      <4> HIDE DEF At, g
      <4> QED
        BY <2>6, <2>7
    <3> HIDE DEF At
    <3>2. g = [i \in 0 .. n |-> g[i]]
      OBVIOUS
    <3> HIDE DEF g
    <3> QED
      BY <3>1, <3>2
  <2> QED
    BY <2>8
<1>2. \E f : Solves(N, f)
  <2>1. N \in 0 .. N
    BY <1>0
  <2>2. N \notin Bad
    BY <1>1
  <2> HIDE DEF Solves
  <2> QED
    BY <2>1, <2>2
<1> DEFINE F == CHOOSE f : f = [i \in 0 .. N |-> At(f, i)]
<1>3. Admitted(ws) = F[N]
  BY DEF Admitted, N
<1>4. F = [i \in 0 .. N |-> At(F, i)]
  <2> HIDE DEF At
  <2>1. \E f : f = [i \in 0 .. N |-> At(f, i)]
    BY <1>2
  <2> QED
    BY <2>1
<1> HIDE DEF F
<1>5. /\ F[0] = <<>>
      /\ \A i \in 1 .. N : F[i] = IF Admits(ws[i]) THEN Append(F[i - 1], ws[i]) ELSE F[i - 1]
  <2> HIDE DEF At
  <2>1. \A i \in 0 .. N : F[i] = At(F, i)
    BY <1>4
  <2>2. 0 \in 0 .. N /\ \A i \in 1 .. N : i \in 0 .. N /\ i # 0
    BY <1>0
  <2> QED
    BY <2>1, <2>2 DEF At
<1> DEFINE Good(n) == /\ F[n] \in Seq(A)
                      /\ \A j \in 1 .. n : Admits(ws[j]) => \E k \in DOMAIN F[n] : F[n][k] = ws[j]
           Wrong == {n \in 0 .. N : ~Good(n)}
<1>6. Wrong = {}
  <2>1. SUFFICES ASSUME Wrong # {} PROVE FALSE
    OBVIOUS
  <2>2. PICK n \in Wrong : \A m \in Wrong : n <= m
    <3>1. Wrong \in SUBSET Nat
      BY <1>0
    <3> QED
      BY <2>1, <3>1, LeastNat
  <2>3. n \in 0 .. N /\ n \in Nat /\ ~Good(n)
    <3> HIDE DEF Good
    <3> QED
      BY <2>2, <1>0
  <2>4. n # 0
    <3>1. F[0] \in Seq(A) /\ 1 .. 0 = {}
      BY <1>5
    <3>2. Good(0)
      BY <3>1
    <3> QED
      BY <3>2, <2>3
  <2>5. Good(n - 1) /\ n \in 1 .. N
    <3>1. n - 1 \in 0 .. N /\ ~(n <= n - 1) /\ n \in 1 .. N
      BY <2>3, <2>4, <1>0
    <3>2. n - 1 \notin Wrong
      <4> HIDE DEF Wrong
      <4> QED
        BY <2>2, <3>1
    <3> QED
      BY <3>1, <3>2
  <2> HIDE DEF Wrong
  <2> DEFINE p == F[n - 1]
  <2>6. p \in Seq(A) /\ \A j \in 1 .. n - 1 : Admits(ws[j]) => \E k \in DOMAIN p : p[k] = ws[j]
    BY <2>5
  <2>7. F[n] = IF Admits(ws[n]) THEN Append(p, ws[n]) ELSE p
    BY <2>5, <1>5
  <2>8. ws[n] \in W
    BY <2>5, <1>0
  <2> HIDE DEF p
  <2>9. CASE ~Admits(ws[n])
    <3>1. F[n] = p
      BY <2>7, <2>9
    <3>2. ASSUME NEW j \in 1 .. n, Admits(ws[j]) PROVE \E k \in DOMAIN F[n] : F[n][k] = ws[j]
      <4>1. j # n
        BY <2>9, <3>2
      <4>2. j \in 1 .. n - 1
        BY <4>1, <2>3
      <4> QED
        BY <4>2, <3>1, <3>2, <2>6
    <3> QED
      BY <2>3, <2>6, <3>1, <3>2
  <2>10. CASE Admits(ws[n])
    <3>1. F[n] = Append(p, ws[n])
      BY <2>7, <2>10
    <3>2. F[n] \in Seq(A) /\ DOMAIN F[n] = 1 .. Len(p) + 1 /\ Len(p) \in Nat
          /\ F[n][Len(p) + 1] = ws[n] /\ DOMAIN p = 1 .. Len(p)
          /\ \A k \in 1 .. Len(p) : F[n][k] = p[k]
      BY <2>6, <2>8, <2>10, <3>1
    <3>3. ASSUME NEW j \in 1 .. n, Admits(ws[j]) PROVE \E k \in DOMAIN F[n] : F[n][k] = ws[j]
      <4>1. CASE j = n
        <5>1. Len(p) + 1 \in DOMAIN F[n]
          BY <3>2
        <5> QED
          BY <4>1, <5>1, <3>2
      <4>2. CASE j # n
        <5>1. j \in 1 .. n - 1
          BY <4>2, <2>3
        <5>2. PICK k \in DOMAIN p : p[k] = ws[j]
          BY <5>1, <3>3, <2>6
        <5>3. k \in DOMAIN F[n] /\ F[n][k] = ws[j]
          BY <5>2, <3>2
        <5> QED
          BY <5>3
      <4> QED
        BY <4>1, <4>2
    <3> QED
      BY <2>3, <3>2, <3>3
  <2> QED
    BY <2>9, <2>10
<1>7. Good(N)
  <2>1. N \in 0 .. N
    BY <1>0
  <2> HIDE DEF Good
  <2> QED
    BY <2>1, <1>6
<1> QED
  BY <1>7, <1>3, <1>0

\* walk_to that goes one step reads the witness itself; one that goes further
\* ends with a witness it holds, one above the target.
LEMMA WalkEnds ==
  ASSUME NEW ws \in Seq(Genuine), NEW high, high.seq \in Nat, NEW target \in Nat,
         target < high.seq, high.seq - target <= MaxWitnesses
  PROVE  /\ high.seq = target + 1 =>
              Walk(ws, high, target) = [ok |-> TRUE, hash |-> high.prev, link |-> <<>>]
         /\ high.seq # target + 1 /\ Walk(ws, high, target).ok =>
              \E e \in DOMAIN ws : /\ ws[e].seq = target + 1
                                   /\ ws[e].prev = Walk(ws, high, target).hash
<1> DEFINE N == high.seq - 1 - target
           start == [ok |-> TRUE, hash |-> high.prev, link |-> <<>>]
           stuck == [ok |-> FALSE, hash |-> <<>>, link |-> <<>>]
           Step(up, n) ==
             IF up.ok /\ Named(ws, up.hash) # {} /\ Edge(ws, up.hash).seq = high.seq - n
             THEN [ok |-> TRUE, hash |-> Edge(ws, up.hash).prev,
                   link |-> Append(up.link, Edge(ws, up.hash))]
             ELSE stuck
           At(f, n) == IF n = 0 THEN start ELSE Step(f[n - 1], n)
           Solves(n, f) == f = [i \in 0 .. n |-> At(f, i)]
           Bad == {n \in 0 .. N : \A f : ~Solves(n, f)}
           F == CHOOSE f : f = [i \in 0 .. N |-> At(f, i)]
<1>0. N \in Nat /\ (high.seq = target + 1 <=> N = 0) /\ high.seq - N = target + 1
      /\ MaxWitnesses \in Nat
  BY ClientAssumption
<1>1. Walk(ws, high, target) = F[N]
  <2>1. ~(high.seq - target > MaxWitnesses)
    BY <1>0
  <2> QED
    BY <2>1 DEF Walk
<1> HIDE DEF N, start, Step
<1>2. Bad = {}
  <2>1. SUFFICES ASSUME Bad # {} PROVE FALSE
    OBVIOUS
  <2>2. PICK n \in Bad : \A m \in Bad : n <= m
    <3>1. Bad \in SUBSET Nat
      BY <1>0
    <3> QED
      BY <2>1, <3>1, LeastNat
  <2>3. n # 0
    <3>1. Solves(0, [i \in 0 .. 0 |-> start])
      OBVIOUS
    <3> QED
      BY <3>1
  <2>4. n \in Nat /\ n - 1 \in 0 .. N /\ n \in 0 .. n
    BY <2>3, <1>0
  <2>5. PICK f : Solves(n - 1, f)
    <3>1. ~(n <= n - 1)
      BY <2>4
    <3> HIDE DEF Bad
    <3>2. n - 1 \notin Bad
      BY <2>2, <3>1
    <3> USE DEF Bad
    <3> HIDE DEF Solves
    <3> QED
      BY <2>4, <3>2
  <2> DEFINE g == [i \in 0 .. n |-> IF i = n THEN At(f, n) ELSE f[i]]
  <2>6. ASSUME NEW i \in 0 .. n PROVE At(g, i) = At(f, i)
    <3>1. CASE i = 0
      BY <3>1
    <3>2. CASE i # 0
      <4>1. i - 1 \in 0 .. n /\ i - 1 # n
        BY <3>2, <2>4
      <4>2. g[i - 1] = f[i - 1]
        BY <4>1
      <4> HIDE DEF g
      <4> QED
        BY <3>2, <4>2
    <3> QED
      BY <3>1, <3>2
  <2>7. ASSUME NEW i \in 0 .. n PROVE g[i] = At(f, i)
    <3>1. CASE i = n
      <4> HIDE DEF At
      <4> QED
        BY <3>1
    <3>2. CASE i # n
      <4>1. i \in 0 .. (n - 1)
        BY <3>2, <2>4
      <4> HIDE DEF At
      <4>2. f[i] = At(f, i)
        BY <4>1, <2>5
      <4> QED
        BY <4>2, <3>2
    <3> QED
      BY <3>1, <3>2
  <2>8. Solves(n, g)
    <3>1. \A i \in 0 .. n : g[i] = At(g, i)
      <4> HIDE DEF At, g
      <4> QED
        BY <2>6, <2>7
    <3> HIDE DEF At
    <3>2. g = [i \in 0 .. n |-> g[i]]
      OBVIOUS
    <3> HIDE DEF g
    <3> QED
      BY <3>1, <3>2
  <2> QED
    BY <2>8
<1>3. \E f : Solves(N, f)
  <2>1. N \in 0 .. N
    BY <1>0
  <2>2. N \notin Bad
    BY <1>2
  <2> HIDE DEF Solves
  <2> QED
    BY <2>1, <2>2
<1>4. F = [i \in 0 .. N |-> At(F, i)]
  <2> HIDE DEF At
  <2>1. \E f : f = [i \in 0 .. N |-> At(f, i)]
    BY <1>3
  <2> QED
    BY <2>1
<1> HIDE DEF F
<1>5. F[N] = At(F, N)
  <2> HIDE DEF At
  <2>1. N \in 0 .. N
    BY <1>0
  <2> QED
    BY <2>1, <1>4
<1>6. ASSUME N # 0, F[N].ok
      PROVE  \E e \in DOMAIN ws : ws[e].seq = target + 1 /\ ws[e].prev = F[N].hash
  <2> DEFINE up == F[N - 1]
             e == Min(Named(ws, up.hash))
  <2>1. F[N] = Step(up, N)
    BY <1>5, <1>6
  <2> HIDE DEF up
  <2>2. Named(ws, up.hash) # {} /\ Edge(ws, up.hash).seq = high.seq - N
        /\ F[N].hash = Edge(ws, up.hash).prev
    BY <1>6, <2>1 DEF Step
  <2>3. Named(ws, up.hash) \in SUBSET Nat /\ Named(ws, up.hash) \subseteq DOMAIN ws
    BY DEF Named
  <2>4. e \in Named(ws, up.hash)
    <3>1. \E x \in Named(ws, up.hash) : \A y \in Named(ws, up.hash) : x <= y
      BY <2>2, <2>3, LeastNat
    <3> QED
      BY <3>1 DEF Min
  <2>5. Edge(ws, up.hash) = ws[e]
    BY DEF Edge
  <2> QED
    BY <2>2, <2>3, <2>4, <2>5, <1>0
<1>7. N = 0 => F[N] = start
  BY <1>5
<1> QED
  BY <1>0, <1>1, <1>6, <1>7 DEF start

------------------------------------------------------------------------------
(* Witnesses and what they show. *)

\* of_record of a record that somebody signed verifies, by the genesis rule.
LEMMA GenuineShape ==
  ASSUME NEW w \in Genuine
  PROVE  /\ w.by \in Trusted /\ w.hash \in Record /\ Verifies(w)
         /\ w.seq = SeqNo(w.hash) /\ w.seq \in Seqs /\ w.seq \in Nat
         /\ w.prev = Front(w.hash)
<1>1. PICK o \in Trusted, r \in Record : w = Of(o, r)
  BY DEF Genuine
<1>2. /\ w.by = o /\ w.hash = r /\ w.seq = SeqNo(r) /\ w.prev = Front(r) /\ w.ok
  BY <1>1 DEF Of
<1>3. (SeqNo(r) = 0) <=> (Front(r) = <<>>)
  <2>1. Front(r) \in Seq(Versions) /\ Len(Front(r)) = SeqNo(r)
    BY RecordShape
  <2> QED
    BY <2>1, EmptySeq
<1> QED
  BY <1>2, <1>3, RecordShape DEF Verifies

\* Minted or not, a witness has a numbered observer and sequence.
LEMMA KeyShape ==
  ASSUME NEW w \in Genuine \cup Minted
  PROVE  w.by \in Nat /\ w.seq \in Nat /\ (w.by \in Trusted => w \in Genuine)
<1>1. CASE w \in Genuine
  BY <1>1, GenuineShape, ClientAssumption
<1>2. CASE w \in Minted
  BY <1>2, ClientAssumption
<1> QED
  BY <1>1, <1>2

\* The order of the relay's map.
LEMMA BeforeKeys ==
  ASSUME NEW v \in Genuine \cup Minted, NEW w \in Genuine \cup Minted
  PROVE  /\ Before(Key(v), Key(w)) <=> v.by < w.by \/ (v.by = w.by /\ v.seq < w.seq)
         /\ Key(v) = Key(w) <=> v.by = w.by /\ v.seq = w.seq
<1> DEFINE x == <<v.by, v.seq>>
           y == <<w.by, w.seq>>
<1>1. /\ DOMAIN x = 1 .. 2 /\ x[1] = v.by /\ x[2] = v.seq /\ y[1] = w.by /\ y[2] = w.seq
      /\ x = y <=> v.by = w.by /\ v.seq = w.seq
  OBVIOUS
<1> HIDE DEF x, y
<1>2. Before(x, y) <=> x[1] < y[1] \/ (x[1] = y[1] /\ x[2] < y[2])
  <2>1. ASSUME Before(x, y) PROVE x[1] < y[1] \/ (x[1] = y[1] /\ x[2] < y[2])
    <3>1. PICK i \in 1 .. 2 : x[i] < y[i] /\ \A j \in 1 .. i - 1 : x[j] = y[j]
      BY <1>1, <2>1 DEF Before
    <3>2. CASE i = 1
      BY <3>1, <3>2
    <3>3. CASE i = 2
      BY <3>1, <3>3
    <3> QED
      BY <3>2, <3>3
  <2>2. ASSUME x[1] < y[1] PROVE Before(x, y)
    <3>1. 1 \in DOMAIN x /\ x[1] < y[1] /\ \A j \in 1 .. 1 - 1 : x[j] = y[j]
      BY <1>1, <2>2
    <3> QED
      BY <3>1 DEF Before
  <2>3. ASSUME x[1] = y[1], x[2] < y[2] PROVE Before(x, y)
    <3>1. 2 \in DOMAIN x /\ x[2] < y[2] /\ \A j \in 1 .. 2 - 1 : x[j] = y[j]
      BY <1>1, <2>3
    <3> QED
      BY <3>1 DEF Before
  <2> QED
    BY <2>1, <2>2, <2>3
<1>3. Key(v) = x /\ Key(w) = y
  BY DEF Key, x, y
<1> QED
  BY <1>1, <1>2, <1>3

\* Peer::witnesses hands out everything the relay holds, and nothing else.
LEMMA RelayedIs ==
  ASSUME relay \subseteq Genuine \cup Minted, IsFiniteSet(relay),
         \A v, w \in relay : Key(v) = Key(w) => v = w
  PROVE  /\ Relayed \in Seq(relay)
         /\ \A w \in relay : \E i \in DOMAIN Relayed : Relayed[i] = w
<1> DEFINE n == Cardinality(relay)
           D == [w \in relay |-> {v \in relay : Before(Key(v), Key(w))}]
<1>1. n \in Nat
  BY FS_CardinalityType
<1>2. \A w \in relay : D[w] = {v \in relay : Before(Key(v), Key(w))}
  OBVIOUS
<1>3. D \in [relay -> SUBSET relay]
  OBVIOUS
<1> HIDE DEF D
<1>4. ASSUME NEW v \in relay, NEW w \in relay
      PROVE  v \in D[w] <=> v.by < w.by \/ (v.by = w.by /\ v.seq < w.seq)
  BY <1>2, BeforeKeys
<1>5. \A w \in relay : w.by \in Nat /\ w.seq \in Nat
  BY KeyShape
<1>6. \A w \in relay : w \notin D[w]
  BY <1>4, <1>5
<1>7. ASSUME NEW v \in relay, NEW w \in relay, v # w PROVE v \in D[w] \/ w \in D[v]
  <2>1. ~(v.by = w.by /\ v.seq = w.seq)
    BY <1>7, BeforeKeys
  <2> QED
    BY <2>1, <1>4, <1>5
<1>8. ASSUME NEW v \in relay, NEW w \in relay, v \in D[w] PROVE D[v] \subseteq D[w]
  <2>1. ASSUME NEW u \in D[v] PROVE u \in D[w]
    <3>1. u \in relay
      BY <1>3
    <3> QED
      BY <3>1, <1>4, <1>5, <1>8, <2>1
  <2> QED
    BY <2>1
<1>9. /\ \A w \in relay : Cardinality(D[w]) \in 0 .. n - 1
      /\ \A v, w \in relay : Cardinality(D[v]) = Cardinality(D[w]) => v = w
      /\ \A k \in 0 .. n - 1 : \E w \in relay : Cardinality(D[w]) = k
  BY <1>3, <1>6, <1>7, <1>8, Ranks
<1> DEFINE rank(w) == Cardinality({v \in relay : Before(Key(v), Key(w))})
<1>10. /\ Relayed = [i \in 1 .. n |-> CHOOSE w \in relay : rank(w) = i - 1]
       /\ \A w \in relay : rank(w) = Cardinality(D[w])
  BY <1>2 DEF Relayed
<1> HIDE DEF n, rank
<1>11. ASSUME NEW i \in 1 .. n
       PROVE  Relayed[i] \in relay /\ Cardinality(D[Relayed[i]]) = i - 1
  <2>1. i - 1 \in 0 .. n - 1
    BY <1>1
  <2>2. \E w \in relay : rank(w) = i - 1
    BY <2>1, <1>9, <1>10
  <2>3. Relayed[i] = CHOOSE w \in relay : rank(w) = i - 1
    BY <1>10
  <2>4. Relayed[i] \in relay /\ rank(Relayed[i]) = i - 1
    BY <2>2, <2>3
  <2> QED
    BY <2>4, <1>10
<1>12. Relayed \in [1 .. n -> relay] /\ DOMAIN Relayed = 1 .. n
  BY <1>10, <1>11
<1>13. Relayed \in Seq(relay)
  BY <1>1, <1>12, SeqDef
<1>14. ASSUME NEW w \in relay PROVE \E i \in DOMAIN Relayed : Relayed[i] = w
  <2> DEFINE i == Cardinality(D[w]) + 1
  <2>1. i \in 1 .. n /\ i - 1 = Cardinality(D[w])
    BY <1>1, <1>9
  <2> HIDE DEF i
  <2>2. Relayed[i] \in relay /\ Cardinality(D[Relayed[i]]) = Cardinality(D[w])
    BY <2>1, <1>11
  <2>3. Relayed[i] = w
    BY <2>2, <1>9
  <2> QED
    BY <2>1, <2>3, <1>12
<1> QED
  BY <1>13, <1>14

\* A witness whose prev is not the hash witnessed below it is a conflict.
LEMMA DirectIsConflict ==
  ASSUME NEW ws \in Seq(Genuine), Len(ws) <= MaxWitnesses,
         NEW l \in DOMAIN ws, NEW h \in DOMAIN ws,
         ws[h].seq = ws[l].seq + 1, ws[h].prev # ws[l].hash
  PROVE  <<ws[l].seq, ws[h].seq, h, l>> \in Conflicts(ws)
<1>1. ws[l].seq \in Nat /\ ws[h].seq \in Nat
  BY GenuineShape
<1>2. ws[l].seq < ws[h].seq /\ ws[h].seq - ws[l].seq <= MaxWitnesses
  <2>1. l \in 1 .. Len(ws) /\ Len(ws) \in Nat /\ MaxWitnesses \in Nat
    BY ClientAssumption
  <2> QED
    BY <1>1, <2>1
<1>3. Walk(ws, ws[h], ws[l].seq) = [ok |-> TRUE, hash |-> ws[h].prev, link |-> <<>>]
  BY <1>1, <1>2, WalkEnds
<1> DEFINE p == <<l, h>>
<1>4. p \in (DOMAIN ws) \X (DOMAIN ws) /\ p[1] = l /\ p[2] = h
  OBVIOUS
<1>5. LET k == Walk(ws, ws[h], ws[l].seq) IN k.ok /\ k.hash # ws[l].hash
  BY <1>3
<1> HIDE DEF p
<1>6. p \in Conflicting(ws)
  BY <1>2, <1>4, <1>5 DEF Conflicting
<1>7. <<ws[p[1]].seq, ws[p[2]].seq, p[2], p[1]>> \in Conflicts(ws)
  BY <1>6 DEF Conflicts
<1> QED
  BY <1>4, <1>7

\* Every conflict has such a pair at its sequence: the walk to it ends with a
\* witness just above, or begins there.
LEMMA ConflictIsDirect ==
  ASSUME NEW ws \in Seq(Genuine), NEW c \in Conflicts(ws)
  PROVE  /\ c \in Nat \X Nat \X Nat \X Nat
         /\ c[3] \in DOMAIN ws /\ c[4] \in DOMAIN ws
         /\ ws[c[4]].seq = c[1] /\ ws[c[3]].seq = c[2] /\ c[1] < c[2]
         /\ \E e \in DOMAIN ws : ws[e].seq = c[1] + 1 /\ ws[e].prev # ws[c[4]].hash
         /\ c[2] = c[1] + 1 => /\ ws[c[3]].prev # ws[c[4]].hash
                               /\ Walk(ws, ws[c[3]], c[1]).link = <<>>
<1>1. PICK p \in Conflicting(ws) : c = <<ws[p[1]].seq, ws[p[2]].seq, p[2], p[1]>>
  BY DEF Conflicts
<1> DEFINE l == p[1]
           h == p[2]
           k == Walk(ws, ws[h], ws[l].seq)
<1>2. /\ l \in DOMAIN ws /\ h \in DOMAIN ws
      /\ ws[l].seq < ws[h].seq /\ k.ok /\ k.hash # ws[l].hash
  BY DEF Conflicting
<1>3. c = <<ws[l].seq, ws[h].seq, h, l>>
  BY <1>1
<1> HIDE DEF l, h
<1>4. ws[l].seq \in Nat /\ ws[h].seq \in Nat /\ l \in Nat /\ h \in Nat
  BY <1>2, GenuineShape
<1>5. ws[h].seq - ws[l].seq <= MaxWitnesses
  <2>1. SUFFICES ASSUME ~(ws[h].seq - ws[l].seq <= MaxWitnesses) PROVE FALSE
    OBVIOUS
  <2>2. ws[h].seq - ws[l].seq > MaxWitnesses
    BY <2>1, <1>4, ClientAssumption
  <2>3. k = [ok |-> FALSE, hash |-> <<>>, link |-> <<>>]
    BY <2>2 DEF Walk
  <2> HIDE DEF k
  <2> QED
    BY <2>3, <1>2
<1>6. ws[h].seq = ws[l].seq + 1 =>
        k = [ok |-> TRUE, hash |-> ws[h].prev, link |-> <<>>]
  BY <1>2, <1>4, <1>5, WalkEnds
<1>7. ws[h].seq # ws[l].seq + 1 =>
        \E e \in DOMAIN ws : ws[e].seq = ws[l].seq + 1 /\ ws[e].prev = k.hash
  BY <1>2, <1>4, <1>5, WalkEnds
<1>8. c[1] = ws[l].seq /\ c[2] = ws[h].seq /\ c[3] = h /\ c[4] = l
      /\ c \in Nat \X Nat \X Nat \X Nat
  BY <1>3, <1>4
<1>9. ws[h].seq = ws[l].seq + 1 => ws[h].prev # ws[l].hash /\ k.link = <<>>
  <2> HIDE DEF k
  <2> QED
    BY <1>2, <1>6
<1>10. \E e \in DOMAIN ws : ws[e].seq = ws[l].seq + 1 /\ ws[e].prev # ws[l].hash
  <2> HIDE DEF k
  <2> QED
    BY <1>2, <1>7, <1>9
<1> QED
  BY <1>2, <1>8, <1>9, <1>10

\* witness_conflict answers with the nearest pair, which needs no link: the
\* comment of fork_proof.
LEMMA NearestIsDirect ==
  ASSUME NEW ws \in Seq(Genuine), Len(ws) <= MaxWitnesses, Conflicts(ws) # {},
         NEW c, c = Least(Conflicts(ws))
  PROVE  /\ c[3] \in DOMAIN ws /\ c[4] \in DOMAIN ws
         /\ ws[c[4]].seq = c[1] /\ ws[c[3]].seq = c[1] + 1 /\ c[1] \in Nat
         /\ ws[c[3]].prev # ws[c[4]].hash
         /\ Walk(ws, ws[c[3]], c[1]).link = <<>>
<1>1. Conflicts(ws) \in SUBSET (Nat \X Nat \X Nat \X Nat)
  BY ConflictIsDirect
<1>2. c \in Conflicts(ws) /\ \A y \in Conflicts(ws) : y[1] = c[1] => c[2] <= y[2]
  BY <1>1, LeastConflict
<1>3. /\ c \in Nat \X Nat \X Nat \X Nat
      /\ c[3] \in DOMAIN ws /\ c[4] \in DOMAIN ws
      /\ ws[c[4]].seq = c[1] /\ ws[c[3]].seq = c[2] /\ c[1] < c[2]
      /\ \E e \in DOMAIN ws : ws[e].seq = c[1] + 1 /\ ws[e].prev # ws[c[4]].hash
      /\ c[2] = c[1] + 1 => /\ ws[c[3]].prev # ws[c[4]].hash
                            /\ Walk(ws, ws[c[3]], c[1]).link = <<>>
  BY <1>2, ConflictIsDirect
<1>4. c[1] \in Nat /\ c[2] \in Nat
  BY <1>3
<1>5. PICK e \in DOMAIN ws : ws[e].seq = c[1] + 1 /\ ws[e].prev # ws[c[4]].hash
  BY <1>3
<1> DEFINE y == <<ws[c[4]].seq, ws[e].seq, e, c[4]>>
<1>6. y \in Conflicts(ws)
  BY <1>3, <1>5, DirectIsConflict
<1>7. y[1] = c[1] /\ y[2] = c[1] + 1
  BY <1>3, <1>5
<1> HIDE DEF y
<1>8. c[2] <= c[1] + 1
  BY <1>2, <1>6, <1>7
<1>9. c[2] = c[1] + 1
  BY <1>3, <1>4, <1>8
<1> QED
  BY <1>3, <1>4, <1>9

------------------------------------------------------------------------------
(* The steps of the client. *)

\* The invariant holds of a fresh client and an empty relay.
LEMMA InitHolds == Init => IndInv
<1> SUFFICES ASSUME Init PROVE IndInv
  OBVIOUS
<1>1. ClientTypes
  <2>1. pin = <<>> /\ degraded = FALSE /\ witnesses = <<>>
    BY DEF Init
  <2>2. evidence \in [Seqs -> SUBSET Record] /\ recordEvidence \in [Seqs -> SUBSET Record]
    BY ClientAssumption DEF Init
  <2>3. \A s \in Seqs : IsFiniteSet(evidence[s]) /\ IsFiniteSet(recordEvidence[s])
    BY FS_EmptySet, FS_Singleton DEF Init
  <2>4. witnesses \in Seq(Genuine) /\ Len(witnesses) <= MaxWitnesses
    BY <2>1, ClientAssumption
  <2> QED
    BY <2>1, <2>2, <2>3, <2>4 DEF ClientTypes
<1>2. RelayTypes /\ RelayHolds
  BY FS_EmptySet DEF Init, RelayTypes, RelayHolds, RelayedIsKept
<1>3. PinIsAnchored
  BY DEF Init, PinIsAnchored
<1>4. WitnessIsEvidence
  <2>1. DOMAIN witnesses = {}
    BY DEF Init
  <2> QED
    BY <2>1 DEF WitnessIsEvidence
<1> QED
  BY <1>1, <1>2, <1>3, <1>4 DEF IndInv

\* What was evidence of a witness still is when evidence grows.
LEMMA EvidenceGrows ==
  ASSUME ClientTypes, WitnessIsEvidence,
         recordEvidence' \in [Seqs -> SUBSET Record],
         \A s \in Seqs : /\ IsFiniteSet(recordEvidence'[s])
                         /\ recordEvidence[s] \subseteq recordEvidence'[s],
         NEW i \in DOMAIN witnesses
  PROVE  LET h == witnesses[i].hash IN
           h \in recordEvidence'[SeqNo(h)] \/ Cardinality(recordEvidence'[SeqNo(h)]) > 1
<1> DEFINE h == witnesses[i].hash
<1>1. SeqNo(h) \in Seqs
  BY GenuineShape DEF ClientTypes
<1>2. h \in recordEvidence[SeqNo(h)] \/ Cardinality(recordEvidence[SeqNo(h)]) > 1
  BY DEF WitnessIsEvidence
<1> HIDE DEF h
<1>3. CASE h \in recordEvidence[SeqNo(h)]
  BY <1>1, <1>3 DEF h
<1>4. CASE Cardinality(recordEvidence[SeqNo(h)]) > 1
  BY <1>1, <1>4, MoreStays DEF h
<1> QED
  BY <1>2, <1>3, <1>4

\* Evidence is taken before any check, and none is lost.
LEMMA ObservedKeeps ==
  ASSUME ClientTypes, WitnessIsEvidence, NEW rs \in Seq(Record), Observed(rs)
  PROVE  /\ evidence' \in [Seqs -> SUBSET Record]
         /\ recordEvidence' \in [Seqs -> SUBSET Record]
         /\ \A s \in Seqs : /\ IsFiniteSet(evidence'[s]) /\ IsFiniteSet(recordEvidence'[s])
                            /\ evidence[s] \subseteq evidence'[s]
                            /\ recordEvidence[s] \subseteq recordEvidence'[s]
         /\ witnesses' = witnesses
         /\ WitnessIsEvidence'
<1>1. evidence' = AddBounded(evidence, rs) /\ recordEvidence' = AddBounded(recordEvidence, rs)
      /\ witnesses' = witnesses
  BY DEF Observed
<1>2. /\ evidence' \in [Seqs -> SUBSET Record]
      /\ \A s \in Seqs : IsFiniteSet(evidence'[s]) /\ evidence[s] \subseteq evidence'[s]
  BY <1>1, AddBoundedKeeps DEF ClientTypes
<1>3. /\ recordEvidence' \in [Seqs -> SUBSET Record]
      /\ \A s \in Seqs : /\ IsFiniteSet(recordEvidence'[s])
                         /\ recordEvidence[s] \subseteq recordEvidence'[s]
  BY <1>1, AddBoundedKeeps DEF ClientTypes
<1>4. WitnessIsEvidence'
  BY <1>1, <1>3, EvidenceGrows DEF WitnessIsEvidence
<1> QED
  BY <1>1, <1>2, <1>3, <1>4

\* The pin of a client, as a sequence.
LEMMA PinShape ==
  ASSUME ClientTypes
  PROVE  pin \in Seq(Versions) /\ Len(pin) \in Nat /\ (pin # <<>> => pin \in Record)
<1>1. <<>> \in Seq(Versions)
  OBVIOUS
<1> QED
  BY <1>1, RecordShape DEF ClientTypes

\* How a pin may move.
PinMove ==
  pin' # pin =>
    /\ SeqNo(pin') >= SeqNo(Anchor)
    /\ pin # <<>> => SeqNo(pin') >= SeqNo(pin)
    /\ last' = "accepted" => IsPrefix(pin, pin')

\* offer: an accepted chain continues the pin and goes through the anchor.
LEMMA OfferPin ==
  ASSUME ClientTypes, PinIsAnchored, NEW rs \in Offers, Offer(rs)
  PROVE  pin' \in Record \cup {<<>>} /\ degraded' = degraded /\ PinIsAnchored' /\ PinMove
<1> DEFINE n == Len(rs)
           r == Last(rs)
<1>1. rs \in Seq(Record) /\ n \in Nat \ {0} /\ r = rs[n] /\ r \in Record
  <2>1. rs \in Seq(Record) /\ rs # <<>>
    BY ClientAssumption
  <2>2. Len(rs) \in Nat \ {0}
    BY <2>1, EmptySeq, LenProperties
  <2> QED
    BY <2>1, <2>2 DEF Last
<1>2. degraded' = degraded
  BY DEF Offer, Verdict
<1>3. CASE pin' = pin
  BY <1>2, <1>3 DEF PinIsAnchored, PinMove, ClientTypes
<1>4. CASE pin' # pin
  <2>1. /\ pin' = r /\ ~(SeqNo(r) < SeqNo(Anchor))
        /\ pin # <<>> => ~(SeqNo(r) < SeqNo(pin))
        /\ VerifyChain(rs, pin)
        /\ \A i \in DOMAIN rs : SeqNo(rs[i]) = SeqNo(Anchor) => rs[i] = Anchor
    BY <1>4 DEF Offer, Verdict
  <2> HIDE DEF r
  <2>2. pin \in Seq(Versions) /\ Len(pin) \in Nat /\ (pin # <<>> => pin \in Record)
    BY PinShape
  <2>3. /\ Len(r) = Len(pin) + n /\ IsPrefix(pin, r)
        /\ \A m \in 1 .. n : IsPrefix(rs[m], r)
        /\ \A i \in Len(pin) + 1 .. Len(r) : r[i].w \in Roster
    <3>1. n \in 1 .. n
      BY <1>1
    <3> QED
      BY <1>1, <2>1, <2>2, <3>1, ChainIsOneHistory
  <2>4. /\ SeqNo(r) \in Nat /\ r \in Seq(Versions) /\ Len(r) = SeqNo(r) + 1
        /\ SeqNo(Anchor) \in Nat /\ Len(Anchor) = SeqNo(Anchor) + 1 /\ Anchor \in Seq(Versions)
    BY <1>1, RecordShape, ClientAssumption
  <2>5. PinMove
    <3>1. pin # <<>> => SeqNo(pin) \in Nat
      BY <2>2, RecordShape
    <3> QED
      BY <2>1, <2>3, <2>4, <3>1 DEF PinMove
  <2>6. ASSUME ~degraded
        PROVE  IsPrefix(Anchor, r) /\ \A k \in 1 .. Len(r) : r[k].w \in Roster
    <3>1. CASE pin = <<>>
      <4>1. Len(pin) = 0
        BY <3>1
      <4>2. \A k \in 1 .. Len(r) : r[k].w \in Roster
        BY <2>3, <4>1
      <4> DEFINE k == Len(Anchor)
      <4>3. k \in 1 .. n
        BY <1>1, <2>1, <2>3, <2>4, <4>1
      <4> HIDE DEF k
      <4>4. Len(rs[k]) = k
        <5>1. Len(rs[k]) = Len(pin) + k
          BY <1>1, <2>1, <2>2, <4>3, ChainIsOneHistory
        <5> QED
          BY <4>1, <4>3, <5>1
      <4>5. SeqNo(rs[k]) = SeqNo(Anchor)
        BY <4>4 DEF SeqNo, k
      <4>6. rs[k] = Anchor
        <5>1. k \in DOMAIN rs
          BY <1>1, <4>3
        <5> QED
          BY <2>1, <4>5, <5>1
      <4> QED
        BY <2>3, <4>2, <4>3, <4>6
    <3>2. CASE pin # <<>>
      <4>1. IsPrefix(Anchor, pin) /\ \A k \in 1 .. Len(pin) : pin[k].w \in Roster
        BY <2>6, <3>2 DEF PinIsAnchored
      <4>2. IsPrefix(Anchor, r)
        BY <4>1, <2>2, <2>3, <2>4, PrefixTransitive
      <4>3. \A k \in 1 .. Len(pin) : pin[k] = r[k]
        BY <2>2, <2>3, <2>4, PrefixIs
      <4>4. ASSUME NEW k \in 1 .. Len(r) PROVE r[k].w \in Roster
        <5>1. k \in 1 .. Len(pin) \/ k \in Len(pin) + 1 .. Len(r)
          BY <2>2, <2>4
        <5> QED
          BY <5>1, <4>1, <4>3, <2>3
      <4> QED
        BY <4>2, <4>4
    <3> QED
      BY <3>1, <3>2
  <2>7. PinIsAnchored'
    BY <1>2, <2>1, <2>6 DEF PinIsAnchored
  <2> QED
    BY <1>1, <1>2, <2>1, <2>5, <2>7
<1> QED
  BY <1>3, <1>4

\* offer_head_only: the pin does not go back, and the client is told.
LEMMA HeadOnlyPin ==
  ASSUME ClientTypes, PinIsAnchored, NEW r \in Heads, OfferHeadOnly(r)
  PROVE  pin' \in Record \cup {<<>>} /\ degraded' \in BOOLEAN /\ PinIsAnchored' /\ PinMove
<1>1. r \in Record /\ SeqNo(r) \in Nat /\ SeqNo(Anchor) \in Nat
  BY RecordShape, ClientAssumption
<1>2. CASE pin' = pin /\ degraded' = degraded
  BY <1>2 DEF PinIsAnchored, PinMove, ClientTypes
<1>3. CASE ~(pin' = pin /\ degraded' = degraded)
  <2>1. /\ pin' = r /\ last' = "degraded" /\ degraded' = TRUE
        /\ ~(SeqNo(r) < SeqNo(Anchor))
        /\ pin # <<>> => ~(SeqNo(r) < SeqNo(pin))
    BY <1>3 DEF OfferHeadOnly, Verdict
  <2>2. pin # <<>> => SeqNo(pin) \in Nat
    BY PinShape, RecordShape
  <2>3. PinMove
    BY <1>1, <2>1, <2>2 DEF PinMove
  <2> QED
    BY <1>1, <2>1, <2>3 DEF PinIsAnchored
<1> QED
  BY <1>2, <1>3

\* What a poll observes: of what the relay holds, all that rostered observers
\* signed.
LEMMA PolledIs ==
  ASSUME RelayTypes, RelayHolds, NEW ws, ws = Admitted(Relayed)
  PROVE  /\ ws \in Seq(Genuine) /\ Hashes(ws) \in Seq(Record) /\ DOMAIN Hashes(ws) = DOMAIN ws
         /\ \A i \in DOMAIN ws : Hashes(ws)[i] = ws[i].hash
         /\ \A w \in relay : w.by \in Trusted => \E i \in DOMAIN ws : ws[i] = w
<1>1. /\ Relayed \in Seq(relay)
      /\ \A w \in relay : \E i \in DOMAIN Relayed : Relayed[i] = w
  BY RelayedIs DEF RelayTypes, RelayHolds
<1> DEFINE G == {w \in relay : Admits(w)}
<1>2. /\ ws \in Seq(G)
      /\ \A j \in DOMAIN Relayed : Admits(Relayed[j]) => \E k \in DOMAIN ws : ws[k] = Relayed[j]
  BY <1>1, AdmittedIs
<1>3. ASSUME NEW w \in relay, w.by \in Trusted PROVE w \in Genuine /\ Admits(w)
  <2>1. w \in Genuine
    BY <1>3, KeyShape DEF RelayTypes
  <2> QED
    BY <1>3, <2>1, GenuineShape DEF Admits
<1>4. G \subseteq Genuine
  BY <1>3 DEF Admits
<1>5. ws \in Seq(Genuine)
  <2> HIDE DEF G
  <2> QED
    BY <1>2, <1>4
<1>6. Hashes(ws) = [i \in 1 .. Len(ws) |-> ws[i].hash] /\ Len(ws) \in Nat /\ DOMAIN ws = 1 .. Len(ws)
  BY <1>5 DEF Hashes
<1>7. \A i \in 1 .. Len(ws) : ws[i].hash \in Record
  BY <1>5, GenuineShape
<1>8. Hashes(ws) \in Seq(Record)
  BY <1>6, <1>7
<1>9. ASSUME NEW w \in relay, w.by \in Trusted PROVE \E i \in DOMAIN ws : ws[i] = w
  BY <1>1, <1>2, <1>3, <1>9
<1> QED
  BY <1>5, <1>6, <1>8, <1>9

\* A poll appends to the retained witnesses, up to the bound.
LEMMA RetainedIs ==
  ASSUME NEW ws \in Seq(Genuine), NEW new \in Seq(Genuine), Len(ws) <= MaxWitnesses,
         NEW kept, kept = Retained(ws \o new)
  PROVE  /\ kept \in Seq(Genuine) /\ Len(kept) <= MaxWitnesses /\ Len(ws) <= Len(kept)
         /\ \A i \in DOMAIN ws : i \in DOMAIN kept /\ kept[i] = ws[i]
         /\ \A i \in DOMAIN kept \ DOMAIN ws : \E j \in DOMAIN new : kept[i] = new[j]
<1> DEFINE all == ws \o new
           n == IF Len(all) < MaxWitnesses THEN Len(all) ELSE MaxWitnesses
<1>1. /\ all \in Seq(Genuine) /\ Len(all) = Len(ws) + Len(new)
      /\ Len(ws) \in Nat /\ Len(new) \in Nat
      /\ \A i \in 1 .. Len(all) : all[i] = IF i <= Len(ws) THEN ws[i] ELSE new[i - Len(ws)]
  OBVIOUS
<1>2. kept = SubSeq(all, 1, n)
  BY DEF Retained
<1> HIDE DEF all
<1>3. n \in Nat /\ n <= Len(all) /\ n <= MaxWitnesses /\ Len(ws) <= n
  BY <1>1, ClientAssumption
<1> HIDE DEF n
<1>4. kept \in Seq(Genuine) /\ Len(kept) = n /\ \A i \in 1 .. n : kept[i] = all[i]
  BY <1>1, <1>2, <1>3
<1>5. DOMAIN kept = 1 .. n /\ DOMAIN ws = 1 .. Len(ws) /\ DOMAIN new = 1 .. Len(new)
  BY <1>4
<1>6. ASSUME NEW i \in DOMAIN ws PROVE i \in DOMAIN kept /\ kept[i] = ws[i]
  BY <1>1, <1>3, <1>4, <1>5
<1>7. ASSUME NEW i \in DOMAIN kept \ DOMAIN ws PROVE \E j \in DOMAIN new : kept[i] = new[j]
  <2>1. i \in 1 .. n /\ ~(i <= Len(ws))
    BY <1>1, <1>5
  <2>2. kept[i] = new[i - Len(ws)] /\ i - Len(ws) \in DOMAIN new
    BY <2>1, <1>1, <1>3, <1>4, <1>5
  <2> QED
    BY <2>2
<1> QED
  BY <1>3, <1>4, <1>6, <1>7

\* observe_witness of all that a poll brings.
LEMMA PollKeeps ==
  ASSUME ClientTypes, RelayTypes, RelayHolds, WitnessIsEvidence, Poll
  PROVE  /\ ClientTypes' /\ WitnessIsEvidence'
         /\ \A s \in Seqs : recordEvidence[s] \subseteq recordEvidence'[s]
         /\ \A i \in DOMAIN witnesses : i \in DOMAIN witnesses' /\ witnesses'[i] = witnesses[i]
         /\ \A w \in relay : w.by \in Trusted =>
              \/ w.hash \in recordEvidence'[w.seq]
              \/ Cardinality(recordEvidence'[w.seq]) > 1
<1> DEFINE ws == Admitted(Relayed)
           hs == Hashes(ws)
<1>1. /\ ws \in Seq(Genuine) /\ hs \in Seq(Record) /\ DOMAIN hs = DOMAIN ws
      /\ \A i \in DOMAIN ws : hs[i] = ws[i].hash
      /\ \A w \in relay : w.by \in Trusted => \E i \in DOMAIN ws : ws[i] = w
  BY PolledIs
<1>2. /\ recordEvidence' = AddBounded(recordEvidence, hs)
      /\ witnesses' = Retained(witnesses \o ws)
      /\ UNCHANGED <<pin, last, degraded, evidence>>
  BY DEF Poll, ObserveWitnesses
<1> HIDE DEF ws, hs
<1>3. /\ recordEvidence' \in [Seqs -> SUBSET Record]
      /\ \A s \in Seqs : IsFiniteSet(recordEvidence'[s]) /\ recordEvidence[s] \subseteq recordEvidence'[s]
      /\ \A i \in DOMAIN hs : \/ hs[i] \in recordEvidence'[SeqNo(hs[i])]
                              \/ Cardinality(recordEvidence'[SeqNo(hs[i])]) > 1
  BY <1>1, <1>2, AddBoundedKeeps DEF ClientTypes
<1>4. /\ witnesses' \in Seq(Genuine) /\ Len(witnesses') <= MaxWitnesses
      /\ \A i \in DOMAIN witnesses : i \in DOMAIN witnesses' /\ witnesses'[i] = witnesses[i]
      /\ \A i \in DOMAIN witnesses' \ DOMAIN witnesses : \E j \in DOMAIN ws : witnesses'[i] = ws[j]
  BY <1>1, <1>2, RetainedIs DEF ClientTypes
<1>5. ClientTypes'
  BY <1>2, <1>3, <1>4 DEF ClientTypes
<1>6. ASSUME NEW i \in DOMAIN witnesses'
      PROVE  LET h == witnesses'[i].hash IN
               h \in recordEvidence'[SeqNo(h)] \/ Cardinality(recordEvidence'[SeqNo(h)]) > 1
  <2>1. CASE i \in DOMAIN witnesses
    <3>1. witnesses'[i] = witnesses[i]
      BY <1>4, <2>1
    <3>2. LET h == witnesses[i].hash IN
            h \in recordEvidence'[SeqNo(h)] \/ Cardinality(recordEvidence'[SeqNo(h)]) > 1
      BY <1>3, <2>1, EvidenceGrows
    <3> QED
      BY <3>1, <3>2
  <2>2. CASE i \notin DOMAIN witnesses
    <3>1. PICK j \in DOMAIN ws : witnesses'[i] = ws[j]
      BY <1>4, <2>2
    <3> QED
      BY <3>1, <1>1, <1>3
  <2> QED
    BY <2>1, <2>2
<1>7. WitnessIsEvidence'
  BY <1>6 DEF WitnessIsEvidence
<1>8. ASSUME NEW w \in relay, w.by \in Trusted
      PROVE  w.hash \in recordEvidence'[w.seq] \/ Cardinality(recordEvidence'[w.seq]) > 1
  <2>1. PICK i \in DOMAIN ws : ws[i] = w
    BY <1>1, <1>8
  <2>2. w.seq = SeqNo(w.hash)
    BY <2>1, <1>1, GenuineShape
  <2> QED
    BY <2>1, <2>2, <1>1, <1>3
<1> QED
  BY <1>3, <1>4, <1>5, <1>7, <1>8
------------------------------------------------------------------------------
(* The steps of the relay. *)

\* publish_witness, from whomever.
LEMMA PublishKeeps ==
  ASSUME RelayTypes, RelayHolds, NEW w \in Genuine \cup Minted, PublishWitness(w)
  PROVE  RelayTypes' /\ RelayHolds'
<1>1. /\ Verifies(w)
      /\ disk' = {v \in disk : Key(v) # Key(w)} \cup {w}
      /\ relay' = {v \in relay : Key(v) # Key(w)} \cup {w}
      /\ tmp' = {v \in tmp : Key(v) # Key(w)}
      /\ acked' = acked \cup {Key(w)}
  BY DEF PublishWitness, Replace
<1>2. /\ IsFiniteSet({v \in disk : Key(v) # Key(w)})
      /\ IsFiniteSet({v \in relay : Key(v) # Key(w)})
      /\ IsFiniteSet({v \in tmp : Key(v) # Key(w)})
  <2> DEFINE A == {v \in disk : Key(v) # Key(w)}
             B == {v \in relay : Key(v) # Key(w)}
             C == {v \in tmp : Key(v) # Key(w)}
  <2>1. A \in SUBSET disk /\ B \in SUBSET relay /\ C \in SUBSET tmp
    OBVIOUS
  <2> HIDE DEF A, B, C
  <2>2. IsFiniteSet(A) /\ IsFiniteSet(B) /\ IsFiniteSet(C)
    BY <2>1, FS_Subset DEF RelayTypes
  <2> QED
    BY <2>2 DEF A, B, C
<1>3. IsFiniteSet(disk') /\ IsFiniteSet(relay') /\ IsFiniteSet(tmp')
  BY <1>1, <1>2, FS_AddElement
<1>4. RelayTypes'
  BY <1>1, <1>3 DEF RelayTypes
<1>5. \A v, u \in relay' : Key(v) = Key(u) => v = u
  BY <1>1 DEF RelayHolds
<1>6. \A v \in disk' \cup tmp' : Verifies(v)
  BY <1>1 DEF RelayHolds
<1>7. ASSUME NEW k \in acked' PROVE (\E v \in disk' : Key(v) = k) /\ (\E v \in relay' : Key(v) = k)
  <2>1. CASE k = Key(w)
    BY <1>1, <2>1
  <2>2. CASE k # Key(w)
    <3>1. k \in acked
      BY <1>1, <2>2
    <3> QED
      BY <1>1, <2>2, <3>1 DEF RelayHolds, RelayedIsKept
  <2> QED
    BY <2>1, <2>2
<1> QED
  BY <1>4, <1>5, <1>6, <1>7 DEF RelayHolds, RelayedIsKept

\* A write that stops before its rename leaves only a .tmp.
LEMMA FailKeeps ==
  ASSUME RelayTypes, RelayHolds, NEW w \in Genuine \cup Minted, PublishFails(w)
  PROVE  RelayTypes' /\ RelayHolds'
<1>1. /\ Verifies(w) /\ tmp' = {v \in tmp : Key(v) # Key(w)} \cup {w}
      /\ UNCHANGED <<relay, disk, acked>>
  BY DEF PublishFails, Replace
<1>2. IsFiniteSet(tmp')
  <2> DEFINE C == {v \in tmp : Key(v) # Key(w)}
  <2>1. C \in SUBSET tmp
    OBVIOUS
  <2>2. tmp' = C \cup {w}
    BY <1>1
  <2> HIDE DEF C
  <2>3. IsFiniteSet(C)
    BY <2>1, FS_Subset DEF RelayTypes
  <2> QED
    BY <2>2, <2>3, FS_AddElement
<1>3. RelayTypes'
  BY <1>1, <1>2 DEF RelayTypes
<1> QED
  BY <1>1, <1>3 DEF RelayHolds, RelayedIsKept

\* load: one file of each key is read, and each verifies.
LEMMA RestartKeeps ==
  ASSUME RelayTypes, RelayHolds, Restart
  PROVE  RelayTypes' /\ RelayHolds'
<1>1. PICK S \in SUBSET (disk \cup tmp) :
        /\ \A v \in disk \cup tmp : \E w \in S : Key(w) = Key(v)
        /\ \A v, w \in S : Key(v) = Key(w) => v = w
        /\ relay' = {v \in S : Verifies(v)}
  BY DEF Restart
<1>2. UNCHANGED <<disk, tmp, acked>>
  BY DEF Restart
<1>3. relay' = S
  BY <1>1 DEF RelayHolds
<1>4. IsFiniteSet(S)
  <2>1. IsFiniteSet(disk \cup tmp)
    BY FS_Union DEF RelayTypes
  <2> QED
    BY <2>1, FS_Subset
<1>5. RelayTypes'
  BY <1>2, <1>3, <1>4 DEF RelayTypes
<1>6. ASSUME NEW k \in acked PROVE \E w \in S : Key(w) = k
  <2>1. PICK v \in disk : Key(v) = k
    BY DEF RelayHolds
  <2> QED
    BY <1>1, <2>1
<1> QED
  BY <1>1, <1>2, <1>3, <1>5, <1>6 DEF RelayHolds, RelayedIsKept

\* What an observer witnesses is genuine.
LEMMA ServedIsGenuine ==
  ASSUME NEW o \in Trusted, NEW r \in Served[o]
  PROVE  Of(o, r) \in Genuine
<1>1. r \in Record
  BY ClientAssumption
<1> QED
  BY <1>1 DEF Genuine

\* The relay's steps of Next.
RelayStep ==
  \/ \E o \in Trusted : \E r \in Served[o] : Witnesses(o, r)
  \/ \E w \in Minted : Mints(w)
  \/ \E o \in Trusted : \E r \in Served[o] : PublishFails(Of(o, r))
  \/ Restart

\* No step of the relay touches the client, and none loses a witness.
LEMMA RelaySteps ==
  ASSUME RelayTypes, RelayHolds, RelayStep
  PROVE  RelayTypes' /\ RelayHolds' /\ UNCHANGED client
<1>1. CASE \E o \in Trusted : \E r \in Served[o] : Witnesses(o, r)
  <2>1. PICK o \in Trusted : \E r \in Served[o] : Witnesses(o, r)
    BY <1>1
  <2>2. PICK r \in Served[o] : Witnesses(o, r)
    BY <2>1
  <2>3. PublishWitness(Of(o, r))
    BY <2>2 DEF Witnesses
  <2> QED
    BY <2>3, ServedIsGenuine, PublishKeeps DEF PublishWitness
<1>2. CASE \E w \in Minted : Mints(w)
  BY <1>2, PublishKeeps DEF Mints, PublishWitness
<1>3. CASE \E o \in Trusted : \E r \in Served[o] : PublishFails(Of(o, r))
  BY <1>3, ServedIsGenuine, FailKeeps DEF PublishFails
<1>4. CASE Restart
  BY <1>4, RestartKeeps DEF Restart
<1> QED
  BY <1>1, <1>2, <1>3, <1>4 DEF RelayStep

\* A step is of one of the four kinds.
LEMMA NextIs ==
  ASSUME [Next]_vars
  PROVE  \/ \E rs \in Offers : Offer(rs)
         \/ \E r \in Heads : OfferHeadOnly(r)
         \/ Poll
         \/ RelayStep
         \/ UNCHANGED vars
  BY DEF Next, RelayStep

\* Every step keeps the invariant.
LEMMA StepHolds == IndInv /\ [Next]_vars => IndInv'
<1> SUFFICES ASSUME IndInv, [Next]_vars PROVE IndInv'
  OBVIOUS
<1> USE DEF IndInv
<1>1. ASSUME NEW rs \in Offers, Offer(rs) PROVE IndInv'
  <2>1. rs \in Seq(Record) /\ Observed(rs) /\ UNCHANGED peer
    BY <1>1, ClientAssumption DEF Offer
  <2>2. ClientTypes' /\ WitnessIsEvidence'
    BY <1>1, <2>1, ObservedKeeps, OfferPin DEF ClientTypes
  <2>3. RelayTypes' /\ RelayHolds'
    BY <2>1 DEF RelayTypes, RelayHolds, RelayedIsKept, peer
  <2> QED
    BY <1>1, <2>2, <2>3, OfferPin
<1>2. ASSUME NEW r \in Heads, OfferHeadOnly(r) PROVE IndInv'
  <2>1. <<r>> \in Seq(Record) /\ Observed(<<r>>) /\ UNCHANGED peer
    BY <1>2, ClientAssumption DEF OfferHeadOnly
  <2>2. ClientTypes' /\ WitnessIsEvidence'
    BY <1>2, <2>1, ObservedKeeps, HeadOnlyPin DEF ClientTypes
  <2>3. RelayTypes' /\ RelayHolds'
    BY <2>1 DEF RelayTypes, RelayHolds, RelayedIsKept, peer
  <2> QED
    BY <1>2, <2>2, <2>3, HeadOnlyPin
<1>3. CASE Poll
  <2>1. UNCHANGED <<pin, degraded, peer>>
    BY <1>3 DEF Poll
  <2>2. RelayTypes' /\ RelayHolds' /\ PinIsAnchored'
    BY <2>1 DEF RelayTypes, RelayHolds, RelayedIsKept, PinIsAnchored, peer
  <2> QED
    BY <1>3, <2>2, PollKeeps
<1>4. CASE RelayStep
  <2>1. RelayTypes' /\ RelayHolds' /\ UNCHANGED client
    BY <1>4, RelaySteps
  <2> QED
    BY <2>1 DEF ClientTypes, PinIsAnchored, WitnessIsEvidence, client
<1>5. CASE UNCHANGED vars
  BY <1>5 DEF ClientTypes, RelayTypes, RelayHolds, RelayedIsKept, PinIsAnchored,
              WitnessIsEvidence, vars, client, peer
<1> QED
  BY <1>1, <1>2, <1>3, <1>4, <1>5, NextIs

------------------------------------------------------------------------------
(* What a client can rely on. *)

\* The invariant: evidence and witnesses are of signed records, the relay keeps
\* what it acknowledged, and the pin stands on the anchor until a bare head is
\* accepted (SlotClient, publish_witness, load).
THEOREM Inductive == Spec => []IndInv
  BY InitHolds, StepHolds, PTL DEF Spec

\* Two records at one sequence are incompatible, and so is a record with one
\* whose predecessor at that sequence is another.
LEMMA SideBySide ==
  ASSUME NEW q \in Record, NEW r \in Record,
         (SeqNo(r) = SeqNo(q) /\ r # q) \/ (SeqNo(r) = SeqNo(q) + 1 /\ Front(r) # q)
  PROVE  Incompatible(q, r)
<1>1. /\ q \in Seq(Versions) /\ r \in Seq(Versions) /\ Front(r) \in Seq(Versions)
      /\ Len(q) = SeqNo(q) + 1 /\ Len(r) = SeqNo(r) + 1 /\ Len(Front(r)) = SeqNo(r)
      /\ SeqNo(q) \in Nat /\ SeqNo(r) \in Nat
      /\ \A i \in 1 .. SeqNo(r) : Front(r)[i] = r[i]
  BY RecordShape
<1>2. CASE SeqNo(r) = SeqNo(q) /\ r # q
  <2>1. ~\A i \in 1 .. Len(q) : q[i] = r[i]
    <3>1. Len(q) = Len(r)
      BY <1>1, <1>2
    <3> QED
      BY <3>1, <1>1, <1>2, SeqEqual
  <2>2. Len(q) = Len(r)
    BY <1>1, <1>2
  <2>3. ~IsPrefix(q, r) /\ ~IsPrefix(r, q)
    BY <1>1, <2>1, <2>2, PrefixIs
  <2> QED
    BY <2>3 DEF Incompatible
<1>3. CASE SeqNo(r) = SeqNo(q) + 1 /\ Front(r) # q
  <2>1. Len(q) = Len(Front(r)) /\ Len(r) = Len(q) + 1
    BY <1>1, <1>3
  <2>2. ~\A i \in 1 .. Len(q) : q[i] = Front(r)[i]
    BY <2>1, <1>1, <1>3, SeqEqual
  <2>3. ~\A i \in 1 .. Len(q) : q[i] = r[i]
    BY <1>1, <2>1, <2>2
  <2>4. ~IsPrefix(q, r)
    BY <1>1, <2>3, PrefixIs
  <2>5. ~IsPrefix(r, q)
    BY <1>1, <2>1, PrefixIs
  <2> QED
    BY <2>4, <2>5 DEF Incompatible
<1> QED
  BY <1>2, <1>3

\* A proof made of retained witnesses convicts.
LEMMA InvConvicts == IndInv => ProofConvicts
<1> SUFFICES ASSUME IndInv PROVE ProofConvicts
  OBVIOUS
<1> DEFINE ws == witnesses
           p == ForkProof(ws)
<1>1. ws \in Seq(Genuine) /\ Len(ws) <= MaxWitnesses
  BY DEF IndInv, ClientTypes
<1>2. \A i \in DOMAIN ws : /\ ws[i].by \in Trusted /\ ws[i].hash \in Record /\ Verifies(ws[i])
                           /\ ws[i].seq = SeqNo(ws[i].hash) /\ ws[i].seq \in Nat
                           /\ ws[i].prev = Front(ws[i].hash)
  BY <1>1, GenuineShape
<1> HIDE DEF ws
<1>3. CASE SameSeq(ws) # {}
  <2> DEFINE q == Least(SameSeq(ws))
  <2>1. SameSeq(ws) \in SUBSET (Nat \X Nat)
    BY <1>1 DEF SameSeq
  <2>2. q \in SameSeq(ws)
    BY <1>3, <2>1, LeastPair
  <2>3. p = [seq |-> ws[q[1]].seq, a |-> ws[q[1]], b |-> ws[q[2]], link |-> <<>>]
    BY <1>3 DEF ForkProof
  <2> HIDE DEF q, p
  <2>4. /\ q[1] \in DOMAIN ws /\ q[2] \in DOMAIN ws
        /\ ws[q[1]].seq = ws[q[2]].seq /\ ws[q[1]].hash # ws[q[2]].hash
    BY <2>2 DEF SameSeq
  <2>5. p.seq = ws[q[1]].seq /\ p.a = ws[q[1]] /\ p.b = ws[q[2]] /\ p.link = <<>>
    BY <2>3
  <2>6. ProofVerifies(p)
    BY <1>2, <2>4, <2>5 DEF ProofVerifies
  <2>7. Incompatible(p.a.hash, p.b.hash)
    BY <1>2, <2>4, <2>5, SideBySide
  <2>8. {p.a.by, p.b.by} \subseteq Trusted
    BY <1>2, <2>4, <2>5
  <2> QED
    BY <2>5, <2>6, <2>7, <2>8 DEF ProofConvicts, p, ws
<1>4. CASE SameSeq(ws) = {} /\ Conflicts(ws) # {} /\ ProofVerifies(Linked(ws))
  <2> DEFINE c == Least(Conflicts(ws))
  <2>1. /\ c[3] \in DOMAIN ws /\ c[4] \in DOMAIN ws
        /\ ws[c[4]].seq = c[1] /\ ws[c[3]].seq = c[1] + 1 /\ c[1] \in Nat
        /\ ws[c[3]].prev # ws[c[4]].hash
        /\ Walk(ws, ws[c[3]], c[1]).link = <<>>
    BY <1>1, <1>4, NearestIsDirect
  <2>2. p = Linked(ws)
    BY <1>4 DEF ForkProof
  <2>3. Linked(ws) = [seq |-> c[1], a |-> ws[c[4]], b |-> ws[c[3]],
                      link |-> Walk(ws, ws[c[3]], c[1]).link]
    BY DEF Linked
  <2> HIDE DEF c, p
  <2>4. p.a = ws[c[4]] /\ p.b = ws[c[3]] /\ p.link = <<>>
    BY <2>1, <2>2, <2>3
  <2>5. Incompatible(p.a.hash, p.b.hash)
    BY <1>2, <2>1, <2>4, SideBySide
  <2>6. {p.a.by, p.b.by} \subseteq Trusted
    BY <1>2, <2>1, <2>4
  <2>7. ProofVerifies(p)
    BY <1>4, <2>2
  <2> QED
    BY <2>4, <2>5, <2>6, <2>7 DEF ProofConvicts, p, ws
<1>5. CASE SameSeq(ws) = {} /\ ~(Conflicts(ws) # {} /\ ProofVerifies(Linked(ws)))
  <2>1. p = NoProof
    BY <1>5 DEF ForkProof
  <2> QED
    BY <2>1 DEF ProofConvicts, ws
<1> QED
  BY <1>3, <1>4, <1>5

\* No peer and no key outside the roster can make a client alarm: a proof it
\* derives is of two rostered observers with incompatible records, verifies
\* anywhere, and, for any number of witnesses, needs no link
\* (fork_proof, witness_conflict, ForkProof::verify).
THEOREM AlarmsConvict == Spec => []ProofConvicts
  BY Inductive, InvConvicts, PTL

\* What the witnesses show is found.
LEMMA InvFinds == IndInv => ForkIsFound
<1> SUFFICES ASSUME IndInv, NEW s \in Seqs, Shown(s) PROVE \E t \in ForkedAt : t <= s
  BY DEF ForkIsFound
<1> DEFINE ws == witnesses
<1>0. ws \in Seq(Genuine) /\ Len(ws) <= MaxWitnesses
  BY DEF IndInv, ClientTypes
<1>1. \A i \in DOMAIN ws : /\ ws[i].hash \in Record
                           /\ ws[i].seq = SeqNo(ws[i].hash) /\ ws[i].seq \in Nat
                           /\ ws[i].prev = Front(ws[i].hash)
  BY <1>0, GenuineShape
<1>2. PICK i \in DOMAIN ws, j \in DOMAIN ws :
        /\ SeqNo(ws[i].hash) = s /\ s <= SeqNo(ws[j].hash)
        /\ SubSeq(ws[j].hash, 1, s + 1) # ws[i].hash
        /\ \A t \in s + 1 .. SeqNo(ws[j].hash) : Named(ws, SubSeq(ws[j].hash, 1, t + 1)) # {}
  BY DEF Shown
<1> DEFINE low == ws[i].hash
           high == ws[j].hash
<1>3. /\ low \in Record /\ high \in Record /\ SeqNo(low) = s /\ s <= SeqNo(high)
      /\ SubSeq(high, 1, s + 1) # low
      /\ \A t \in s + 1 .. SeqNo(high) : Named(ws, SubSeq(high, 1, t + 1)) # {}
  BY <1>1, <1>2
<1>4. /\ s \in Nat /\ SeqNo(high) \in Nat /\ high \in Seq(Versions) /\ Len(high) = SeqNo(high) + 1
  BY <1>3, RecordShape
<1>5. CASE SeqNo(high) = s
  <2>1. high # low
    <3> HIDE DEF high, low
    <3>1. SubSeq(high, 1, s + 1) = high
      BY <1>4, <1>5
    <3> QED
      BY <3>1, <1>3
  <2>2. /\ low \in recordEvidence[s] \/ Cardinality(recordEvidence[s]) > 1
        /\ high \in recordEvidence[s] \/ Cardinality(recordEvidence[s]) > 1
    BY <1>3, <1>5 DEF IndInv, WitnessIsEvidence
  <2>3. IsFiniteSet(recordEvidence[s])
    BY DEF IndInv, ClientTypes
  <2>4. Cardinality(recordEvidence[s]) > 1
    <3> HIDE DEF high, low
    <3> QED
      BY <2>1, <2>2, <2>3, TwoElements
  <2>5. s \in ForkedAt
    BY <2>4 DEF ForkedAt
  <2> QED
    BY <2>5, <1>4
<1>6. CASE SeqNo(high) # s
  <2> DEFINE g == SubSeq(high, 1, s + 2)
  <2>1. s + 1 \in s + 1 .. SeqNo(high)
    BY <1>3, <1>4, <1>6
  <2>2. Named(ws, SubSeq(high, 1, (s + 1) + 1)) # {}
    BY <1>3, <2>1
  <2>3. (s + 1) + 1 = s + 2
    BY <1>4
  <2>4. PICK e \in DOMAIN ws : ws[e].hash = g
    BY <2>2, <2>3 DEF Named
  <2> HIDE DEF high
  <2>5. Len(g) = s + 2 /\ SubSeq(g, 1, s + 1) = SubSeq(high, 1, s + 1)
    <3>1. s + 2 <= Len(high)
      BY <1>4, <2>1
    <3>2. /\ g \in Seq(Versions) /\ Len(g) = s + 2
          /\ \A k \in 1 .. s + 2 : g[k] = high[k]
      BY <3>1, <1>4
    <3> HIDE DEF g
    <3> DEFINE x == SubSeq(g, 1, s + 1)
               y == SubSeq(high, 1, s + 1)
    <3>3. /\ x \in Seq(Versions) /\ Len(x) = s + 1 /\ \A k \in 1 .. s + 1 : x[k] = g[k]
      BY <3>2, <1>4
    <3>4. /\ y \in Seq(Versions) /\ Len(y) = s + 1 /\ \A k \in 1 .. s + 1 : y[k] = high[k]
      BY <3>1, <1>4
    <3> HIDE DEF x, y
    <3>5. \A k \in 1 .. s + 1 : x[k] = y[k]
      BY <3>2, <3>3, <3>4, <1>4
    <3>6. x = y
      BY <3>3, <3>4, <3>5, SeqEqual
    <3> QED
      BY <3>2, <3>6 DEF x, y
  <2> HIDE DEF g
  <2>6. ws[e].seq = s + 1 /\ ws[e].prev = SubSeq(high, 1, s + 1)
    <3>1. ws[e].seq = SeqNo(g) /\ ws[e].prev = Front(g)
      BY <1>1, <2>4
    <3>2. Len(g) - 1 = s + 1
      BY <2>5, <1>4
    <3> QED
      BY <3>1, <3>2, <2>5 DEF SeqNo, Front
  <2>7. ws[i].seq = s /\ ws[e].prev # ws[i].hash
    BY <1>1, <1>3, <2>6
  <2> DEFINE c == <<ws[i].seq, ws[e].seq, e, i>>
  <2>8. c \in Conflicts(ws) /\ c[1] = s
    BY <1>0, <2>6, <2>7, DirectIsConflict
  <2> HIDE DEF c
  <2>9. s \in ForkedAt
    BY <2>8 DEF ForkedAt
  <2> QED
    BY <2>9, <1>4
<1> QED
  BY <1>5, <1>6

\* Whatever came first and was refused, repeated or left out for lack of room,
\* forked names the lowest fork that the retained witnesses show, or one below
\* it (forked, walk_to, add_bounded).
THEOREM ForksAreFound == Spec => []ForkIsFound
  BY Inductive, InvFinds, PTL

\* Every step moves the pin as it may.
LEMMA StepMoves == IndInv /\ [Next]_vars => PinMove
<1> SUFFICES ASSUME IndInv, [Next]_vars PROVE PinMove
  OBVIOUS
<1> USE DEF IndInv
<1>1. ASSUME NEW rs \in Offers, Offer(rs) PROVE PinMove
  BY <1>1, OfferPin
<1>2. ASSUME NEW r \in Heads, OfferHeadOnly(r) PROVE PinMove
  BY <1>2, HeadOnlyPin
<1>3. CASE Poll
  BY <1>3 DEF Poll, PinMove
<1>4. CASE RelayStep
  BY <1>4, RelaySteps DEF client, PinMove
<1>5. CASE UNCHANGED vars
  BY <1>5 DEF PinMove, vars, client
<1> QED
  BY <1>1, <1>2, <1>3, <1>4, <1>5, NextIs

\* The pin never falls below the anchor or goes back, leaves its history only
\* under the verdict that warns of it, and until then stands on the anchor and
\* on rostered writers, however long the offered histories
\* (offer, offer_head_only, verify_chain).
THEOREM PinsForward == Spec => PinsMoveForward
<1>1. IndInv => PinIsAnchored
  BY DEF IndInv
<1>2. IndInv /\ [Next]_vars =>
        [pin' # pin =>
          /\ SeqNo(pin') >= SeqNo(Anchor)
          /\ pin # <<>> => SeqNo(pin') >= SeqNo(pin)
          /\ last' = "accepted" => IsPrefix(pin, pin')]_vars
  BY StepMoves DEF PinMove
<1> QED
  BY <1>1, <1>2, Inductive, PTL DEF Spec, PinsMoveForward

\* Evidence that has parted stays parted while it only grows.
LEMMA ForkedStays ==
  ASSUME ClientTypes, ClientTypes',
         \A s \in Seqs : /\ evidence[s] \subseteq evidence'[s]
                         /\ recordEvidence[s] \subseteq recordEvidence'[s],
         \A i \in DOMAIN witnesses : i \in DOMAIN witnesses' /\ witnesses'[i] = witnesses[i],
         ForkedAt # {}
  PROVE  ForkedAt' # {}
<1>1. ASSUME NEW s \in Seqs, Cardinality(evidence[s]) > 1 PROVE s \in ForkedAt'
  <2>1. Cardinality(evidence'[s]) > 1
    BY <1>1, MoreStays DEF ClientTypes
  <2> QED
    BY <2>1 DEF ForkedAt
<1>2. ASSUME NEW s \in Seqs, Cardinality(recordEvidence[s]) > 1 PROVE s \in ForkedAt'
  <2>1. Cardinality(recordEvidence'[s]) > 1
    BY <1>2, MoreStays DEF ClientTypes
  <2> QED
    BY <2>1 DEF ForkedAt
<1>3. ASSUME NEW c \in Conflicts(witnesses) PROVE ForkedAt' # {}
  <2>1. witnesses \in Seq(Genuine) /\ witnesses' \in Seq(Genuine) /\ Len(witnesses') <= MaxWitnesses
    BY DEF ClientTypes
  <2>2. /\ c[4] \in DOMAIN witnesses /\ witnesses[c[4]].seq = c[1]
        /\ \E e \in DOMAIN witnesses : /\ witnesses[e].seq = c[1] + 1
                                       /\ witnesses[e].prev # witnesses[c[4]].hash
    BY <2>1, ConflictIsDirect
  <2>3. PICK e \in DOMAIN witnesses : /\ witnesses[e].seq = c[1] + 1
                                      /\ witnesses[e].prev # witnesses[c[4]].hash
    BY <2>2
  <2> DEFINE l == c[4]
             d == <<witnesses'[l].seq, witnesses'[e].seq, e, l>>
  <2>4. /\ l \in DOMAIN witnesses' /\ e \in DOMAIN witnesses'
        /\ witnesses'[e].seq = witnesses'[l].seq + 1
        /\ witnesses'[e].prev # witnesses'[l].hash
    BY <2>2, <2>3
  <2> HIDE DEF l
  <2>5. d \in Conflicts(witnesses')
    BY <2>1, <2>4, DirectIsConflict
  <2> HIDE DEF d
  <2>6. d[1] \in ForkedAt'
    BY <2>5 DEF ForkedAt
  <2> QED
    BY <2>6
<1> QED
  BY <1>1, <1>2, <1>3 DEF ForkedAt

\* A poll over a relay that holds a contradiction parts the evidence.
LEMMA PollParts ==
  ASSUME IndInv, Poll, Contradicted
  PROVE  ForkedAt' # {}
<1>1. PICK v \in relay, w \in relay :
        {v.by, w.by} \subseteq Trusted /\ v.seq = w.seq /\ v.hash # w.hash
  BY DEF Contradicted
<1>2. v \in Genuine /\ w \in Genuine
  BY <1>1, KeyShape DEF IndInv, RelayTypes
<1> DEFINE s == v.seq
<1>3. s \in Seqs /\ w.seq = s
  BY <1>1, <1>2, GenuineShape
<1> HIDE DEF s
<1>4. /\ ClientTypes'
      /\ v.hash \in recordEvidence'[s] \/ Cardinality(recordEvidence'[s]) > 1
      /\ w.hash \in recordEvidence'[s] \/ Cardinality(recordEvidence'[s]) > 1
  BY <1>1, <1>3, PollKeeps DEF IndInv, s
<1>5. IsFiniteSet(recordEvidence'[s])
  BY <1>3, <1>4 DEF ClientTypes
<1>6. Cardinality(recordEvidence'[s]) > 1
  BY <1>1, <1>4, <1>5, TwoElements
<1>7. s \in ForkedAt'
  BY <1>3, <1>6 DEF ForkedAt
<1> QED
  BY <1>7

\* Every step keeps what has parted.
LEMMA StepStaysForked == IndInv /\ [Next]_vars /\ ForkedAt # {} => ForkedAt' # {}
<1> SUFFICES ASSUME IndInv, [Next]_vars, ForkedAt # {} PROVE ForkedAt' # {}
  OBVIOUS
<1>0. ClientTypes /\ ClientTypes' /\ WitnessIsEvidence /\ RelayTypes /\ RelayHolds
  BY StepHolds DEF IndInv
<1>1. ASSUME NEW rs \in Offers, Offer(rs) PROVE ForkedAt' # {}
  <2>1. rs \in Seq(Record) /\ Observed(rs)
    BY <1>1, ClientAssumption DEF Offer
  <2> QED
    BY <1>0, <2>1, ObservedKeeps, ForkedStays
<1>2. ASSUME NEW r \in Heads, OfferHeadOnly(r) PROVE ForkedAt' # {}
  <2>1. <<r>> \in Seq(Record) /\ Observed(<<r>>)
    BY <1>2, ClientAssumption DEF OfferHeadOnly
  <2> QED
    BY <1>0, <2>1, ObservedKeeps, ForkedStays
<1>3. CASE Poll
  <2>1. evidence' = evidence
    BY <1>3 DEF Poll
  <2> QED
    BY <1>0, <1>3, <2>1, PollKeeps, ForkedStays
<1>4. CASE RelayStep
  <2>1. UNCHANGED client
    BY <1>0, <1>4, RelaySteps
  <2> QED
    BY <2>1 DEF ForkedAt, client
<1>5. CASE UNCHANGED vars
  BY <1>5 DEF ForkedAt, vars, client
<1> QED
  BY <1>1, <1>2, <1>3, <1>4, <1>5, NextIs

\* An acknowledged witness is relayed for ever after, whatever writes failed
\* and however often the peer was restarted; a contradiction of rostered
\* observers is noticed by the next poll, and what has parted stays parted
\* (publish_witness, load, observe_witness).
THEOREM PollsNotice == Spec => PollNotices
<1>1. IndInv => RelayedIsKept
  BY DEF IndInv, RelayHolds
<1>2. IndInv /\ [Next]_vars =>
        [/\ Poll /\ Contradicted => ForkedAt' # {}
         /\ ForkedAt # {} => ForkedAt' # {}]_vars
  BY PollParts, StepStaysForked
<1> QED
  BY <1>1, <1>2, Inductive, PTL DEF Spec, PollNotices

=============================================================================
