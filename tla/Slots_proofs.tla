---------------------------- MODULE Slots_proofs ----------------------------
(***************************************************************************)
(* Slots, on both sides.                                                   *)
(*                                                                         *)
(* SlotSync for every set of devices, every hostility and every interval,  *)
(* page size and limit: the inductive invariant SyncInv and the three      *)
(* properties of the syncs.                                                *)
(*                                                                         *)
(* SlotPeer for every set of records, writers and handoffs and every       *)
(* length of history: the inductive invariant, what clients get from it,   *)
(* and that SlotPeer implements SlotLog.                                   *)
(***************************************************************************)
EXTENDS SlotPeer, SlotSync, FiniteSetTheorems, SequenceTheorems, TLAPS

(* The syncs of the devices: SyncInv, an invariant of SlotSync. *)

SignedRecord == Seq(Signing) \ {<<>>}

\* The records a history of head h consists of, and the rungs below a rung.
Below(h) == {SubSeq(h, 1, i) : i \in 1 .. Len(h)}

RollsBack == "rollback" \in hostility

SyncTypes ==
  /\ hostility \in Hostilities /\ view \in {0, 1}
  /\ puts \in [Device -> 0 .. MaxPuts]
  /\ signed \in 0 .. MaxSigned /\ stops \in Nat
  /\ witnesses \subseteq SignedRecord
  /\ pin \in [Device -> SignedRecord \cup {Nothing}]
  /\ cpPin \in [Device -> rungs \cup {Nothing}]

\* Each branch is one history.  A peer that rolls back never gets beyond two
\* records, and on its second branch those may be of different parents.
MainHolds ==
  /\ Top(main) \in Seq(Signing) /\ main = Below(Top(main))
  /\ RollsBack => Len(Top(main)) <= 2

AltHolds ==
  /\ alt # {} => "fork" \in hostility
  /\ \/ /\ Top(alt) \in Seq(Signing) /\ alt = Below(Top(alt))
        /\ RollsBack => Len(Top(alt)) <= 2
     \/ RollsBack /\ \E x \in alt, y \in alt :
          /\ x \in Seq(Signing) /\ y \in Seq(Signing)
          /\ alt = {x, y} /\ Len(x) = 1 /\ Len(y) = 2

\* The ladder is the rungs below one, the crown, and rises from the first
\* record; the records it names may be of either branch.
Crown == IF rungs = {} THEN Nothing ELSE Highest(rungs)
Climbing(c) ==
  /\ c # <<>> => Seqno(c[1]) = 0
  /\ \A i, j \in DOMAIN c : i < j => Seqno(c[i]) < Seqno(c[j])
RungsHold ==
  /\ Crown \in Seq(SignedRecord) /\ rungs = Below(Crown) /\ Climbing(Crown)

\* The witness node still relays all that was vouched for, so a later sync
\* with it compares its walk with every one of them.
VouchedHolds ==
  /\ vouched \subseteq witnesses
  /\ \A a, b \in vouched : IsPrefix(a, b) \/ IsPrefix(b, a)

\* All that anybody remembers of an honest peer is in its history.
HonestHolds ==
  hostility = {} =>
    /\ witnesses \subseteq main
    /\ \A d \in Device : pin[d] \in main \cup {Nothing}
    /\ \A i \in DOMAIN Crown : Crown[i] \in main

SyncInv ==
  SyncTypes /\ MainHolds /\ AltHolds /\ RungsHold /\ VouchedHolds /\ HonestHolds

-----------------------------------------------------------------------------
(* Sequences and what is below them. *)

\* The first i entries.
LEMMA Upto ==
  ASSUME NEW S, NEW h \in Seq(S), NEW i \in 0 .. Len(h)
  PROVE  /\ SubSeq(h, 1, i) \in Seq(S) /\ Len(SubSeq(h, 1, i)) = i
         /\ \A j \in 1 .. i : SubSeq(h, 1, i)[j] = h[j]
<1>1. Len(h) \in Nat /\ i \in Int /\ \A j \in 1 .. i : h[j] \in S
  BY LenProperties, ElementOfSeq
<1> QED
  BY <1>1, SubSeqProperties

\* All of them.
LEMMA UptoEnd ==
  ASSUME NEW S, NEW h \in Seq(S)
  PROVE  SubSeq(h, 1, Len(h)) = h
BY SubSeqFull

\* The first j of the first i.
LEMMA UptoUpto ==
  ASSUME NEW S, NEW h \in Seq(S), NEW i \in 0 .. Len(h), NEW j \in 0 .. i
  PROVE  SubSeq(SubSeq(h, 1, i), 1, j) = SubSeq(h, 1, j)
<1> DEFINE s == SubSeq(h, 1, i)
<1>1. Len(h) \in Nat /\ i \in 0 .. Len(h) /\ j \in 0 .. Len(h)
  BY LenProperties
<1>2. s \in Seq(S) /\ Len(s) = i /\ \A n \in 1 .. i : s[n] = h[n]
  BY Upto
<1> HIDE DEF s
<1>3. SubSeq(s, 1, j) \in Seq(S) /\ Len(SubSeq(s, 1, j)) = j /\ \A n \in 1 .. j : SubSeq(s, 1, j)[n] = s[n]
  BY <1>2, Upto
<1>4. SubSeq(h, 1, j) \in Seq(S) /\ Len(SubSeq(h, 1, j)) = j /\ \A n \in 1 .. j : SubSeq(h, 1, j)[n] = h[n]
  BY <1>1, Upto
<1>5. SubSeq(s, 1, j) = SubSeq(h, 1, j)
  BY <1>1, <1>2, <1>3, <1>4, SeqEqual
<1> QED
  BY <1>5 DEF s

\* One entry more.
LEMMA AppendIs ==
  ASSUME NEW S, NEW h \in Seq(S), NEW e \in S
  PROVE  /\ Append(h, e) \in Seq(S) /\ Len(Append(h, e)) = Len(h) + 1 /\ Append(h, e) # <<>>
         /\ Front(Append(h, e)) = h /\ Last(Append(h, e)) = e
         /\ \A i \in 0 .. Len(h) : SubSeq(Append(h, e), 1, i) = SubSeq(h, 1, i)
         /\ \A i \in 1 .. Len(h) : Append(h, e)[i] = h[i]
<1> DEFINE a == Append(h, e)
<1>1. /\ a \in Seq(S) /\ Len(a) = Len(h) + 1 /\ Len(h) \in Nat
      /\ a[Len(h) + 1] = e /\ \A i \in 1 .. Len(h) : a[i] = h[i]
  OBVIOUS
<1>2. a # <<>>
  <2>1. Len(a) # 0
    BY <1>1
  <2> QED
    BY <2>1, <1>1, EmptySeq
<1> HIDE DEF a
<1>3. ASSUME NEW i \in 0 .. Len(h) PROVE SubSeq(a, 1, i) = SubSeq(h, 1, i)
  <2>1. SubSeq(a, 1, i) \in Seq(S) /\ Len(SubSeq(a, 1, i)) = i /\ \A j \in 1 .. i : SubSeq(a, 1, i)[j] = a[j]
    <3>1. i \in 0 .. Len(a)
      BY <1>1
    <3> QED
      BY <3>1, <1>1, Upto
  <2>2. SubSeq(h, 1, i) \in Seq(S) /\ Len(SubSeq(h, 1, i)) = i /\ \A j \in 1 .. i : SubSeq(h, 1, i)[j] = h[j]
    BY Upto
  <2> QED
    BY <2>1, <2>2, <1>1, SeqEqual
<1>4. SubSeq(a, 1, Len(a) - 1) = h
  <2>1. Len(a) - 1 = Len(h) /\ Len(h) \in 0 .. Len(h)
    BY <1>1
  <2> QED
    BY <2>1, <1>3, UptoEnd
<1> QED
  BY <1>1, <1>2, <1>3, <1>4 DEF a, Front, Last

\* A sequence is its front and one entry more.
LEMMA FrontIs ==
  ASSUME NEW S, NEW h \in Seq(S), h # <<>>
  PROVE  /\ Front(h) \in Seq(S) /\ Len(Front(h)) = Len(h) - 1 /\ Len(h) \in Nat \ {0}
         /\ Front(h) = SubSeq(h, 1, Len(h) - 1)
         /\ \A i \in 0 .. Len(h) - 1 : SubSeq(Front(h), 1, i) = SubSeq(h, 1, i)
         /\ \A i \in 1 .. Len(h) - 1 : Front(h)[i] = h[i]
         /\ Last(h) = h[Len(h)] /\ Last(h) \in S
<1>1. Len(h) \in Nat \ {0}
  BY EmptySeq
<1>2. Len(h) - 1 \in 0 .. Len(h) /\ Len(h) \in 1 .. Len(h)
  BY <1>1
<1>3. /\ SubSeq(h, 1, Len(h) - 1) \in Seq(S) /\ Len(SubSeq(h, 1, Len(h) - 1)) = Len(h) - 1
      /\ \A i \in 1 .. Len(h) - 1 : SubSeq(h, 1, Len(h) - 1)[i] = h[i]
  BY <1>2, Upto
<1>4. \A i \in 0 .. Len(h) - 1 : SubSeq(SubSeq(h, 1, Len(h) - 1), 1, i) = SubSeq(h, 1, i)
  BY <1>2, UptoUpto
<1>5. h[Len(h)] \in S
  BY <1>2, ElementOfSeq
<1> QED
  BY <1>1, <1>3, <1>4, <1>5 DEF Front, Last

\* What is below h: one sequence of each length up to its own.
LEMMA BelowIs ==
  ASSUME NEW S, NEW h \in Seq(S)
  PROVE  /\ \A q \in Below(h) : /\ q \in Seq(S) /\ q # <<>> /\ Len(q) \in 1 .. Len(h)
                                /\ q = SubSeq(h, 1, Len(q))
         /\ \A i \in 1 .. Len(h) : SubSeq(h, 1, i) \in Below(h) /\ Len(SubSeq(h, 1, i)) = i
         /\ h # <<>> => h \in Below(h)
         /\ Below(h) = {} <=> h = <<>>
<1>1. \A i \in 1 .. Len(h) : SubSeq(h, 1, i) \in Below(h)
  BY DEF Below
<1>2. \A i \in 1 .. Len(h) : SubSeq(h, 1, i) \in Seq(S) /\ Len(SubSeq(h, 1, i)) = i
  <2>1. \A i \in 1 .. Len(h) : i \in 0 .. Len(h)
    BY LenProperties
  <2> QED
    BY <2>1, Upto
<1>3. ASSUME NEW q \in Below(h)
      PROVE  q \in Seq(S) /\ q # <<>> /\ Len(q) \in 1 .. Len(h) /\ q = SubSeq(h, 1, Len(q))
  <2>1. PICK i \in 1 .. Len(h) : q = SubSeq(h, 1, i)
    BY DEF Below
  <2>2. q \in Seq(S) /\ Len(q) = i
    BY <2>1, <1>2
  <2>3. q # <<>>
    BY <2>2, EmptySeq
  <2> QED
    BY <2>1, <2>2, <2>3
<1>4. h # <<>> => h \in Below(h)
  <2>1. h # <<>> => Len(h) \in 1 .. Len(h)
    BY EmptySeq
  <2> QED
    BY <2>1, <1>1, UptoEnd
<1>5. h = <<>> => Below(h) = {}
  <2>1. h = <<>> => Len(h) = 0
    BY EmptySeq
  <2> QED
    BY <2>1 DEF Below
<1> QED
  BY <1>1, <1>2, <1>3, <1>4, <1>5

\* Two of them of one length are the same.
LEMMA BelowOnce ==
  ASSUME NEW S, NEW h \in Seq(S), NEW p \in Below(h), NEW q \in Below(h), Len(p) = Len(q)
  PROVE  p = q
<1>1. p = SubSeq(h, 1, Len(p)) /\ q = SubSeq(h, 1, Len(q))
  BY BelowIs
<1> QED
  BY <1>1

\* Adding one entry, and taking it away.
LEMMA BelowAppend ==
  ASSUME NEW S, NEW h \in Seq(S), NEW e \in S
  PROVE  Below(Append(h, e)) = Below(h) \cup {Append(h, e)}
<1> DEFINE a == Append(h, e)
<1>1. a \in Seq(S) /\ Len(a) = Len(h) + 1 /\ Len(h) \in Nat /\ a # <<>>
      /\ \A i \in 0 .. Len(h) : SubSeq(a, 1, i) = SubSeq(h, 1, i)
  BY AppendIs, LenProperties
<1> HIDE DEF a
<1>2. ASSUME NEW q \in Below(a) PROVE q \in Below(h) \cup {a}
  <2>1. Len(q) \in 1 .. Len(a) /\ q = SubSeq(a, 1, Len(q))
    BY <1>1, BelowIs
  <2>2. CASE Len(q) = Len(a)
    BY <2>1, <2>2, <1>1, UptoEnd
  <2>3. CASE Len(q) # Len(a)
    <3>1. Len(q) \in 1 .. Len(h)
      <4> DEFINE n == Len(q)  k == Len(h)
      <4>1. n \in 1 .. k + 1 /\ n # k + 1 /\ k \in Nat
        BY <2>1, <2>3, <1>1
      <4> HIDE DEF n, k
      <4>2. n \in 1 .. k
        BY <4>1
      <4> QED
        BY <4>2 DEF n, k
    <3>2. q = SubSeq(h, 1, Len(q))
      BY <3>1, <2>1, <1>1
    <3>3. SubSeq(h, 1, Len(q)) \in Below(h)
      BY <3>1, BelowIs
    <3> QED
      BY <3>2, <3>3
  <2> QED
    BY <2>2, <2>3
<1>3. ASSUME NEW q \in Below(h) PROVE q \in Below(a)
  <2>1. Len(q) \in 1 .. Len(h) /\ q = SubSeq(h, 1, Len(q))
    BY BelowIs
  <2>2. Len(q) \in 1 .. Len(a) /\ q = SubSeq(a, 1, Len(q))
    BY <2>1, <1>1
  <2>3. SubSeq(a, 1, Len(q)) \in Below(a)
    BY <2>2, <1>1, BelowIs
  <2> QED
    BY <2>2, <2>3
<1>4. a \in Below(a)
  BY <1>1, BelowIs
<1> QED
  BY <1>2, <1>3, <1>4 DEF a

\* The part of a history below a sequence number.
LEMMA BelowCut ==
  ASSUME NEW S, NEW h \in Seq(S), NEW n \in 0 .. Len(h)
  PROVE  {q \in Below(h) : Seqno(q) < n} = Below(SubSeq(h, 1, n))
<1> DEFINE c == SubSeq(h, 1, n)
<1>1. c \in Seq(S) /\ Len(c) = n /\ Len(h) \in Nat
  BY Upto, LenProperties
<1>2. \A i \in 0 .. n : SubSeq(c, 1, i) = SubSeq(h, 1, i)
  BY UptoUpto
<1> HIDE DEF c
<1>3. ASSUME NEW q \in Below(h), Seqno(q) < n PROVE q \in Below(c)
  <2>1. Len(q) \in 1 .. Len(h) /\ q = SubSeq(h, 1, Len(q))
    BY BelowIs
  <2>2. Len(q) \in 1 .. n
    BY <2>1, <1>3 DEF Seqno
  <2>3. Len(q) \in 1 .. Len(c) /\ q = SubSeq(c, 1, Len(q))
    BY <2>1, <2>2, <1>1, <1>2
  <2>4. SubSeq(c, 1, Len(q)) \in Below(c)
    BY <2>3, <1>1, BelowIs
  <2> QED
    BY <2>3, <2>4
<1>4. ASSUME NEW q \in Below(c) PROVE q \in Below(h) /\ Seqno(q) < n
  <2>1. Len(q) \in 1 .. n /\ q = SubSeq(c, 1, Len(q))
    BY <1>1, BelowIs
  <2>2. Len(q) \in 1 .. Len(h) /\ q = SubSeq(h, 1, Len(q))
    BY <2>1, <1>1, <1>2
  <2>3. SubSeq(h, 1, Len(q)) \in Below(h)
    BY <2>2, BelowIs
  <2> QED
    <3>1. Seqno(q) < n
      BY <2>1 DEF Seqno
    <3> QED
      BY <2>2, <2>3, <3>1
<1> QED
  BY <1>3, <1>4 DEF c

\* Its last record, and its size.
LEMMA BelowTop ==
  ASSUME NEW S, NEW h \in Seq(S)
  PROVE  Top(Below(h)) = h
<1>1. CASE h = <<>>
  BY <1>1, BelowIs DEF Top, Nothing
<1>2. CASE h # <<>>
  <2>1. Below(h) # {} /\ h \in Below(h) /\ \A q \in Below(h) : Len(q) \in 1 .. Len(h)
    BY <1>2, BelowIs
  <2>2. Len(h) \in Nat
    BY LenProperties
  <2>3. \A q \in Below(h) : Seqno(q) <= Seqno(h)
    BY <2>1, <2>2 DEF Seqno
  <2>4. ASSUME NEW r \in Below(h), \A q \in Below(h) : Seqno(q) <= Seqno(r) PROVE r = h
    <3>1. Len(h) - 1 <= Len(r) - 1 /\ Len(r) \in 1 .. Len(h)
      BY <2>1, <2>4 DEF Seqno
    <3>2. Len(r) = Len(h)
      BY <3>1, <2>2
    <3> QED
      BY <3>2, <2>1, BelowOnce
  <2> QED
    BY <2>1, <2>3, <2>4 DEF Top
<1> QED
  BY <1>1, <1>2

\* A history has as many records as its head is long.
LEMMA BelowSize ==
  ASSUME NEW S, NEW h \in Seq(S)
  PROVE  IsFiniteSet(Below(h)) /\ Cardinality(Below(h)) = Len(h)
<1> DEFINE D == 1 .. Len(h)
           f == [i \in D |-> SubSeq(h, 1, i)]
<1>1. Len(h) \in Nat
  BY LenProperties
<1>2. IsFiniteSet(D) /\ Cardinality(D) = Len(h)
  BY <1>1, FS_Interval
<1>3. f \in Bijection(D, Below(h))
  <2>1. f \in [D -> Below(h)]
    BY BelowIs
  <2>2. \A i, j \in D : f[i] = f[j] => i = j
    <3>1. \A i \in D : Len(f[i]) = i
      BY BelowIs
    <3> QED
      BY <3>1
  <2>3. \A q \in Below(h) : \E i \in D : f[i] = q
    BY DEF Below
  <2> QED
    BY <2>1, <2>2, <2>3 DEF Bijection, Injection, Surjection, IsInjective
<1>4. ExistsBijection(D, Below(h))
  BY <1>3 DEF ExistsBijection
<1> HIDE DEF D
<1> QED
  BY <1>2, <1>4, FS_Bijection

-----------------------------------------------------------------------------
(* What a connection is served. *)

\* A branch that is one history is served whole, or up to the last but one.
LEMMA HeadOf ==
  ASSUME NEW t \in Seq(Signing), Branch = Below(t)
  PROVE  /\ SlotHead = IF RollsBack /\ Len(t) > 1 THEN Front(t) ELSE t
         /\ SlotHead \in Seq(Signing)
         /\ {r \in Branch : Seqno(r) <= Seqno(SlotHead)} = Below(SlotHead)
<1>1. Top(Branch) = t /\ Cardinality(Branch) = Len(t) /\ Len(t) \in Nat
  BY BelowTop, BelowSize, LenProperties
<1>2. CASE RollsBack /\ Len(t) > 1
  <2>1. t # <<>>
    BY <1>2, EmptySeq
  <2> DEFINE f == Front(t)
  <2>2. f \in Seq(Signing) /\ Len(f) = Len(t) - 1 /\ f = SubSeq(t, 1, Len(t) - 1)
    BY <2>1, FrontIs
  <2>3. {q \in Below(t) : Seqno(q) < Len(t) - 1} = Below(f)
    <3>1. Len(t) - 1 \in 0 .. Len(t)
      BY <1>1, <1>2
    <3> QED
      BY <3>1, <2>2, BelowCut
  <2>4. \A q \in Below(t) : Len(q) \in 1 .. Len(t)
    BY BelowIs
  <2>5. t \in Below(t)
    BY <2>1, BelowIs
  <2> HIDE DEF f
  <2>6. \A q \in Below(t) : q # t => Len(q) < Len(t)
    <3>1. SUFFICES ASSUME NEW q \in Below(t), q # t PROVE Len(q) < Len(t)
      OBVIOUS
    <3>2. Len(q) # Len(t)
      BY <3>1, <2>5, BelowOnce
    <3> QED
      BY <3>2, <2>4, <1>1
  <2>7. Below(t) \ {t} = Below(f)
    BY <2>3, <2>4, <2>5, <2>6, <1>1 DEF Seqno
  <2>8. SlotHead = f
    <3>1. SlotHead = Top(Branch \ {t})
      BY <1>1, <1>2 DEF SlotHead, RollsBack
    <3> QED
      BY <3>1, <2>7, <2>2, BelowTop
  <2>9. {r \in Below(t) : Seqno(r) <= Seqno(f)} = Below(f)
    BY <2>2, <2>3, <2>4, <1>1 DEF Seqno
  <2> QED
    BY <2>2, <2>8, <2>9, <1>2 DEF f
<1>3. CASE ~(RollsBack /\ Len(t) > 1)
  <2>1. SlotHead = t
    BY <1>1, <1>3 DEF SlotHead, RollsBack
  <2>2. \A q \in Below(t) : Len(q) \in 1 .. Len(t)
    BY BelowIs
  <2>3. {r \in Below(t) : Seqno(r) <= Seqno(t)} = Below(t)
    BY <2>2, <1>1 DEF Seqno
  <2> QED
    BY <2>1, <2>3, <1>3
<1> QED
  BY <1>2, <1>3

\* A history of one record.
LEMMA BelowSingle ==
  ASSUME NEW S, NEW x \in Seq(S), Len(x) = 1
  PROVE  Below(x) = {x}
<1>1. 1 .. Len(x) = {1}
  OBVIOUS
<1>2. SubSeq(x, 1, 1) = x
  BY UptoEnd
<1> QED
  BY <1>1, <1>2 DEF Below

\* Of two, the longer is the last.
LEMMA TopOfTwo ==
  ASSUME NEW x, NEW y, Len(x) = 1, Len(y) = 2
  PROVE  Top({x, y}) = y
<1>1. Seqno(x) = 0 /\ Seqno(y) = 1
  BY DEF Seqno
<1>2. \A q \in {x, y} : Seqno(q) <= Seqno(y)
  BY <1>1
<1>3. \A r \in {x, y} : (\A q \in {x, y} : Seqno(q) <= Seqno(r)) => r = y
  BY <1>1
<1> QED
  BY <1>2, <1>3 DEF Top

\* A second branch of two records that are of different parents: the first.
LEMMA HeadOfTwo ==
  ASSUME RollsBack, NEW x \in Seq(Signing), NEW y \in Seq(Signing),
         Branch = {x, y}, Len(x) = 1, Len(y) = 2
  PROVE  /\ SlotHead = x
         /\ {r \in Branch : Seqno(r) <= Seqno(SlotHead)} = Below(SlotHead)
<1>1. Top(Branch) = y
  BY TopOfTwo
<1>2. Branch \ {y} = {x}
  OBVIOUS
<1>3. Top({x}) = x
  <2>1. Seqno(x) <= Seqno(x)
    BY DEF Seqno
  <2> QED
    BY <2>1 DEF Top
<1>4. Cardinality(Branch) = 2
  <2>1. IsFiniteSet({x}) /\ Cardinality({x}) = 1
    BY FS_Singleton
  <2>2. y \notin {x}
    OBVIOUS
  <2>3. Cardinality({x} \cup {y}) = Cardinality({x}) + 1
    BY <2>1, <2>2, FS_AddElement
  <2>4. {x} \cup {y} = Branch
    OBVIOUS
  <2>5. Cardinality(Branch) = Cardinality({x}) + 1
    BY <2>3, <2>4
  <2> QED
    BY <2>1, <2>5
<1>5. SlotHead = x
  <2>1. Cardinality(Branch) > 1
    BY <1>4
  <2>2. SlotHead = Top(Branch \ {y})
    BY <1>1, <2>1 DEF SlotHead, RollsBack
  <2> QED
    BY <2>2, <1>2, <1>3
<1>6. Below(x) = {x}
  BY BelowSingle
<1>7. {r \in Branch : Seqno(r) <= Seqno(x)} = {x}
  <2>1. Seqno(x) = 0 /\ Seqno(y) = 1
    BY DEF Seqno
  <2> QED
    BY <2>1
<1> QED
  BY <1>5, <1>6, <1>7

\* Whatever the peer is, one connection is served one history, from its
\* beginning to the head.
LEMMA HeadIs ==
  ASSUME MainHolds, AltHolds
  PROVE  /\ SlotHead \in Seq(Signing)
         /\ {r \in Branch : Seqno(r) <= Seqno(SlotHead)} = Below(SlotHead)
         /\ RollsBack => Len(SlotHead) <= 1
<1>1. ASSUME NEW t \in Seq(Signing), Branch = Below(t), RollsBack => Len(t) <= 2
      PROVE  /\ SlotHead \in Seq(Signing)
             /\ {r \in Branch : Seqno(r) <= Seqno(SlotHead)} = Below(SlotHead)
             /\ RollsBack => Len(SlotHead) <= 1
  <2>1. SlotHead = IF RollsBack /\ Len(t) > 1 THEN Front(t) ELSE t
    BY <1>1, HeadOf
  <2>2. SlotHead \in Seq(Signing) /\ {r \in Branch : Seqno(r) <= Seqno(SlotHead)} = Below(SlotHead)
    BY <1>1, HeadOf
  <2>3. Len(t) \in Nat
    BY LenProperties
  <2>4. RollsBack => Len(SlotHead) <= 1
    <3>1. CASE Len(t) > 1
      <4>1. t # <<>>
        BY <3>1, EmptySeq
      <4>2. Len(Front(t)) = Len(t) - 1
        BY <4>1, FrontIs
      <4> QED
        BY <4>2, <3>1, <2>1, <1>1, <2>3
    <3>2. CASE ~(Len(t) > 1)
      BY <3>2, <2>1, <2>3
    <3> QED
      BY <3>1, <3>2
  <2> QED
    BY <2>2, <2>4
<1>2. CASE Branch = main
  BY <1>1, <1>2 DEF MainHolds
<1>3. CASE Branch = alt
  <2>1. CASE Top(alt) \in Seq(Signing) /\ alt = Below(Top(alt)) /\ (RollsBack => Len(Top(alt)) <= 2)
    BY <1>1, <1>3, <2>1
  <2>2. CASE RollsBack /\ \E x \in alt, y \in alt :
          /\ x \in Seq(Signing) /\ y \in Seq(Signing) 
          /\ alt = {x, y} /\ Len(x) = 1 /\ Len(y) = 2
    <3>1. PICK x \in alt, y \in alt : x \in Seq(Signing) /\ y \in Seq(Signing) /\ alt = {x, y} /\ Len(x) = 1 /\ Len(y) = 2
      BY <2>2
    <3>2. SlotHead = x /\ {r \in Branch : Seqno(r) <= Seqno(SlotHead)} = Below(SlotHead)
      BY <3>1, <2>2, <1>3, HeadOfTwo
    <3>3. Len(SlotHead) <= 1
      <4>1. SlotHead = x
        BY <3>2
      <4>2. Len(x) = 1
        BY <3>1
      <4> QED
        BY <4>1, <4>2
    <3> QED
      BY <3>1, <3>2, <3>3
  <2> QED
    BY <2>1, <2>2 DEF AltHolds
<1> QED
  BY <1>2, <1>3 DEF Branch

\* What is asked for is the upper part of it.
LEMMA HistoryIs ==
  ASSUME MainHolds, AltHolds, NEW from \in Int
  PROVE  SlotHistory(from) = {r \in Below(SlotHead) : from <= Seqno(r)}
BY HeadIs DEF SlotHistory

\* However much of it is fetched.
LEMMA FetchBelow ==
  ASSUME MainHolds, AltHolds, NEW from
  PROVE  Fetch(from) \subseteq Below(SlotHead)
BY HeadIs DEF Fetch, SlotHistory

\* Pages until the head: all of it.
LEMMA FetchAll ==
  ASSUME MainHolds, AltHolds, NEW from \in Int, SlotHead \in Fetch(from)
  PROVE  Fetch(from) = {r \in Below(SlotHead) : from <= Seqno(r)}
<1> DEFINE h == SlotHead
           H == {r \in Below(h) : from <= Seqno(r)}
           Under(r) == {q \in H : Seqno(q) < Seqno(r)}
<1>1. SlotHistory(from) = H
  BY HistoryIs
<1>2. h \in Seq(Signing)
  BY HeadIs
<1>3. IsFiniteSet(Below(h)) /\ \A q \in Below(h) : Len(q) \in 1 .. Len(h)
  BY <1>2, BelowSize, BelowIs
<1>4. Len(h) \in Nat
  BY <1>2, LenProperties
<1> HIDE DEF h
<1>5. \A r \in H : Under(r) \subseteq Under(h)
  BY <1>3, <1>4 DEF Seqno
<1>6. IsFiniteSet(Under(h))
  <2>1. Under(h) \subseteq Below(h)
    OBVIOUS
  <2> QED
    BY <2>1, <1>3, FS_Subset
<1>7. \A r \in H : Cardinality(Under(r)) <= Cardinality(Under(h)) /\ Cardinality(Under(r)) \in Nat
  <2>1. SUFFICES ASSUME NEW r \in H PROVE Cardinality(Under(r)) <= Cardinality(Under(h)) /\ Cardinality(Under(r)) \in Nat
    OBVIOUS
  <2> HIDE DEF Under, H
  <2>2. IsFiniteSet(Under(r)) /\ Cardinality(Under(r)) <= Cardinality(Under(h))
    BY <2>1, <1>5, <1>6, FS_Subset
  <2> QED
    BY <2>2, FS_CardinalityType
<1>8. Cardinality(Under(h)) \in Nat /\ Budget \in Int
  <2>1. Budget \in Int
    BY SyncAssumption DEF Budget
  <2> QED
    BY <2>1, <1>6, FS_CardinalityType
<1>9. Fetch(from) = {r \in H : Cardinality(Under(r)) < Budget}
  BY <1>1 DEF Fetch
<1> HIDE DEF Under, H
<1>10. Cardinality(Under(h)) < Budget
  BY <1>9 DEF h
<1>11. \A r \in H : Cardinality(Under(r)) < Budget
  BY <1>7, <1>8, <1>10
<1> QED
  BY <1>9, <1>11 DEF H, h

\* The natural order is well-founded.
LEMMA LeastNat ==
  ASSUME NEW T \in SUBSET Nat, T # {}
  PROVE  \E x \in T : \A y \in T : x <= y
<1> DEFINE Less == {p \in Nat \X Nat : p[1] < p[2]}
<1>1. IsWellFoundedOn(OpToRel(<, Nat), Nat)
  BY NatLessThanWellFounded
<1>2. OpToRel(<, Nat) = Less
  BY DEF OpToRel
<1>3. IsWellFoundedOn(Less, Nat)
  BY <1>1, <1>2
<1> HIDE DEF Less
<1>4. PICK x \in T : \A y \in T : ~ (<<y, x>> \in Less)
  BY <1>3, WFMin
<1>5. ASSUME NEW y \in T PROVE x <= y
  <2>1. ~ (<<y, x>> \in Less) /\ x \in Nat /\ y \in Nat
    BY <1>4
  <2>2. <<y, x>> \in Nat \X Nat /\ <<y, x>>[1] = y /\ <<y, x>>[2] = x
    BY <2>1
  <2>3. ~(y < x)
    BY <2>1, <2>2 DEF Less
  <2> QED
    BY <2>3, <2>1
<1> QED
  BY <1>5

\* A sync starts its walk at the lowest memory.
LEMMA StartIs ==
  ASSUME SyncTypes, MainHolds, AltHolds, NEW d \in Device, NEW w \in BOOLEAN, SlotHead # Nothing
  PROVE  /\ WalkStart(d, w) \in Nat /\ WalkStart(d, w) <= Seqno(SlotHead)
         /\ \A m \in Memories(d, w) : m \in SignedRecord /\ Seqno(m) \in Nat /\ WalkStart(d, w) <= Seqno(m)
         /\ \/ WalkStart(d, w) = Seqno(SlotHead)
            \/ \E m \in Memories(d, w) : WalkStart(d, w) = Seqno(m)
<1>1. \A r \in SignedRecord : Seqno(r) \in Nat
  <2>1. \A r \in SignedRecord : Len(r) \in Nat \ {0}
    BY EmptySeq DEF SignedRecord
  <2> QED
    BY <2>1 DEF Seqno
<1>2. SlotHead \in SignedRecord
  BY HeadIs DEF SignedRecord, Nothing
<1>3. Memories(d, w) \subseteq SignedRecord
  BY DEF SyncTypes, Memories, Relayed
<1> DEFINE S == {Seqno(m) : m \in Memories(d, w)} \cup {Seqno(SlotHead)}
<1>4. S \in SUBSET Nat /\ S # {}
  BY <1>1, <1>2, <1>3
<1>5. \E x \in S : \A y \in S : x <= y
  <2> HIDE DEF S
  <2> QED
    BY <1>4, LeastNat
<1>6. Min(S) \in S /\ \A y \in S : Min(S) <= y
  <2> HIDE DEF S
  <2> QED
    BY <1>5 DEF Min
<1>7. WalkStart(d, w) = Min(S)
  BY DEF WalkStart
<1> QED
  BY <1>1, <1>3, <1>4, <1>6, <1>7

\* A sync that walks from its lowest memory to the head has every memory below
\* the head.
LEMMA WalkHolds ==
  ASSUME SyncTypes, MainHolds, AltHolds, NEW d \in Device, NEW w \in BOOLEAN,
         SlotHead # Nothing, Arrived(d, w), NotRolledBack(d, w), MemoriesHold(d, w),
         NEW m \in Memories(d, w)
  PROVE  m \in Below(SlotHead)
<1> DEFINE h == SlotHead  from == WalkStart(d, w)  n == Len(m)
<1>1. h \in Seq(Signing) /\ Len(h) \in Nat
  BY HeadIs, LenProperties
<1>2. from \in Nat /\ from <= Seqno(m) /\ m \in SignedRecord /\ Seqno(m) \in Nat
  BY StartIs
<1>3. Chain(d, w) = {r \in Below(h) : from <= Seqno(r)}
  <2>1. h \in Fetch(from)
    BY DEF Arrived
  <2>2. Chain(d, w) = Fetch(from)
    BY DEF Chain
  <2>3. from \in Int
    BY <1>2
  <2> QED
    BY <2>1, <2>2, <2>3, FetchAll
<1>4. Seqno(m) <= Seqno(h)
  BY DEF NotRolledBack
<1>5. n \in 1 .. Len(h)
  <2>1. m \in Seq(Signing)
    BY <1>2 DEF SignedRecord
  <2>2. n \in Nat
    BY <2>1, LenProperties
  <2> QED
    BY <2>2, <1>1, <1>2, <1>4 DEF Seqno
<1> DEFINE r == SubSeq(h, 1, n)
<1>6. r \in Below(h) /\ Len(r) = n
  BY <1>1, <1>5, BelowIs
<1>7. r \in At(Chain(d, w), Seqno(m))
  <2> HIDE DEF r
  <2>1. Seqno(r) = Seqno(m)
    BY <1>6 DEF Seqno
  <2> QED
    BY <2>1, <1>6, <1>2, <1>3 DEF At
<1>8. m \in At(Chain(d, w), Seqno(m))
  <2>1. ~Contradicted(d, w, Chain(d, w), m)
    BY DEF MemoriesHold
  <2> QED
    BY <2>1, <1>7 DEF Contradicted
<1> QED
  BY <1>8, <1>3 DEF At

\* However a sync got to the head, a memory as high is the head.
LEMMA MemoryAtHead ==
  ASSUME SyncTypes, MainHolds, AltHolds, NEW d \in Device, NEW w \in BOOLEAN,
         SlotHead # Nothing, HeadAccepted(d, w),
         NEW m \in Memories(d, w), Seqno(m) = Seqno(SlotHead)
  PROVE  m = SlotHead
<1>1. SlotHead \in Seq(Signing) /\ SlotHead # <<>> /\ SlotHead \in Below(SlotHead)
  BY HeadIs, BelowIs DEF Nothing
<1>2. Chain(d, w) \subseteq Below(SlotHead)
  BY FetchBelow DEF Chain
<1>3. SlotHead \in Chain(d, w) /\ MemoriesHold(d, w)
  BY DEF HeadAccepted, WalkVerifies
<1>4. SlotHead \in At(Chain(d, w), Seqno(m))
  BY <1>3 DEF At
<1>5. m \in At(Chain(d, w), Seqno(m))
  <2>1. ~Contradicted(d, w, Chain(d, w), m)
    BY <1>3 DEF MemoriesHold
  <2> QED
    BY <2>1, <1>4 DEF Contradicted
<1>6. m \in Below(SlotHead)
  BY <1>5, <1>2 DEF At
<1>7. Len(m) = Len(SlotHead)
  <2>1. Len(m) \in Nat /\ Len(SlotHead) \in Nat
    BY <1>1, <1>6, BelowIs, LenProperties
  <2> QED
    BY <2>1 DEF Seqno
<1> QED
  BY <1>1, <1>6, <1>7, BelowOnce

-----------------------------------------------------------------------------
(* What a sync does. *)

\* The head was accepted and the sync's record, if it had one, is with the peer.
GotThrough(d, w) ==
  /\ HeadAccepted(d, w)
  /\ IF Publishes(d) THEN signed < MaxSigned /\ Published(d) /\ PublishNext(d)
     ELSE UNCHANGED <<signed, main, alt>>

\* The writes, and their order.
WriteNames == {"seen rung", "record", "pin", "rung", "own rung", "witness"}
\* Each of them in its place.
LEMMA WritesAre ==
  /\ Writes \in Seq(WriteNames) /\ Len(Writes) = 6 /\ DOMAIN Writes = 1 .. 6
  /\ Writes[1] = "seen rung" /\ Writes[2] = "record" /\ Writes[3] = "pin"
  /\ Writes[4] = "rung" /\ Writes[5] = "own rung" /\ Writes[6] = "witness"
<1>1. Writes \in Seq(WriteNames)
  BY DEF Writes, WriteNames
<1>2. Len(Writes) = 6 /\ DOMAIN Writes = 1 .. 6
  BY DEF Writes
<1>3. Writes[1] = "seen rung" /\ Writes[2] = "record" /\ Writes[3] = "pin" /\ Writes[4] = "rung"
  BY DEF Writes
<1>4. Writes[5] = "own rung" /\ Writes[6] = "witness"
  BY DEF Writes
<1> QED
  BY <1>1, <1>2, <1>3, <1>4

\* Which are among the first n.
LEMMA WritesUpto ==
  ASSUME NEW n \in 0 .. 6
  PROVE  /\ "record" \in ToSet(SubSeq(Writes, 1, n)) <=> 2 <= n
         /\ "pin" \in ToSet(SubSeq(Writes, 1, n)) <=> 3 <= n
         /\ "rung" \in ToSet(SubSeq(Writes, 1, n)) <=> 4 <= n
         /\ "own rung" \in ToSet(SubSeq(Writes, 1, n)) <=> 5 <= n
         /\ "witness" \in ToSet(SubSeq(Writes, 1, n)) <=> 6 <= n
<1> DEFINE W == Writes  s == SubSeq(W, 1, n)
<1>1. /\ W \in Seq(WriteNames) /\ Len(W) = 6
      /\ W[1] = "seen rung" /\ W[2] = "record" /\ W[3] = "pin"
      /\ W[4] = "rung" /\ W[5] = "own rung" /\ W[6] = "witness"
  BY WritesAre
<1> HIDE DEF W
<1>2. s \in Seq(WriteNames) /\ Len(s) = n /\ \A j \in 1 .. n : s[j] = W[j]
  <2> HIDE DEF s
  <2>1. n \in 0 .. Len(W)
    BY <1>1
  <2> QED
    BY <2>1, <1>1, Upto DEF s
<1>3. DOMAIN s = 1 .. n
  BY <1>2, LenProperties
<1>4. ToSet(s) = {s[j] : j \in 1 .. n}
  BY <1>3 DEF ToSet
<1>5. \A x : x \in ToSet(s) <=> \E j \in 1 .. n : W[j] = x
  <2> HIDE DEF s
  <2> QED
    BY <1>2, <1>4
<1> HIDE DEF s
<1>6. ASSUME NEW j \in 1 .. n
      PROVE  /\ W[j] = "record" => j = 2
             /\ W[j] = "pin" => j = 3
             /\ W[j] = "rung" => j = 4
             /\ W[j] = "own rung" => j = 5
             /\ W[j] = "witness" => j = 6
  <2>1. j = 1 \/ j = 2 \/ j = 3 \/ j = 4 \/ j = 5 \/ j = 6
    OBVIOUS
  <2> QED
    BY <2>1, <1>1
<1>7. \A k \in 1 .. 6 : k \in 1 .. n <=> k <= n
  OBVIOUS
<1>8. /\ "record" \in ToSet(s) <=> 2 \in 1 .. n
      /\ "pin" \in ToSet(s) <=> 3 \in 1 .. n
      /\ "rung" \in ToSet(s) <=> 4 \in 1 .. n
  BY <1>1, <1>5, <1>6
<1>9. /\ "own rung" \in ToSet(s) <=> 5 \in 1 .. n
      /\ "witness" \in ToSet(s) <=> 6 \in 1 .. n
  BY <1>1, <1>5, <1>6
<1>10. (2 \in 1 .. n <=> 2 <= n) /\ (3 \in 1 .. n <=> 3 <= n) /\ (4 \in 1 .. n <=> 4 <= n) /\ (5 \in 1 .. n <=> 5 <= n) /\ (6 \in 1 .. n <=> 6 <= n)
  BY <1>7
<1>11. s = SubSeq(Writes, 1, n)
  BY DEF s, W
<1>12. /\ "record" \in ToSet(s) <=> 2 <= n
       /\ "pin" \in ToSet(s) <=> 3 <= n
       /\ "rung" \in ToSet(s) <=> 4 <= n
       /\ "own rung" \in ToSet(s) <=> 5 <= n
       /\ "witness" \in ToSet(s) <=> 6 <= n
  BY <1>8, <1>9, <1>10
<1> QED
  BY <1>11, <1>12

\* When a write is reached.
LEMMA DueIs ==
  ASSUME NEW d \in Device, NEW w \in BOOLEAN
  PROVE  /\ "record" \in Due(d, w) <=> HeadAccepted(d, w) /\ Publishes(d)
         /\ "pin" \in Due(d, w) => HeadAccepted(d, w) /\ (Publishes(d) => Published(d))
         /\ "rung" \in Due(d, w) =>
              HeadAccepted(d, w) /\ (Publishes(d) => Published(d)) /\ RungDue(d) /\ RungTaken(d)
         /\ "own rung" \in Due(d, w) <=> "rung" \in Due(d, w)
         /\ "witness" \in Due(d, w) =>
              HeadAccepted(d, w) /\ (Publishes(d) => Published(d)) /\ w /\ Settled(d) # Nothing
<1> DEFINE accepted == HeadAccepted(d, w)
           settled  == accepted /\ (Publishes(d) => Published(d))
           laddered == settled /\ (RungDue(d) => RungTaken(d))
           If(s) == CASE s = "seen rung" ->
                           LadderAccepted(d, w) /\ RungSeq(TopRung(d)) > RungSeq(cpPin[d])
                      [] s = "record" -> accepted /\ Publishes(d)
                      [] s = "pin" ->
                           settled /\ (Publishes(d) \/ Seqno(SlotHead) > Seqno(pin[d]))
                      [] s \in {"rung", "own rung"} -> laddered /\ RungDue(d)
                      [] s = "witness" ->
                           laddered /\ w /\ Settled(d) # Nothing /\ WitnessTaken(d)
<1>1. Due(d, w) = {s \in ToSet(Writes) : If(s)}
  BY DEF Due
<1>2. \A x \in WriteNames : x \in ToSet(Writes)
  <2> DEFINE W == Writes
  <2>1. DOMAIN W = 1 .. 6
        /\ W[1] = "seen rung" /\ W[2] = "record" /\ W[3] = "pin"
        /\ W[4] = "rung" /\ W[5] = "own rung" /\ W[6] = "witness"
    BY WritesAre
  <2> HIDE DEF W
  <2>2. \A j \in 1 .. 6 : W[j] \in ToSet(W)
    BY <2>1 DEF ToSet
  <2>3. W[1] \in ToSet(W) /\ W[2] \in ToSet(W) /\ W[3] \in ToSet(W) /\ W[4] \in ToSet(W) /\ W[5] \in ToSet(W) /\ W[6] \in ToSet(W)
    BY <2>2
  <2> DEFINE T == ToSet(W)
  <2> HIDE DEF T
  <2>4. "seen rung" \in T /\ "record" \in T /\ "pin" \in T /\ "rung" \in T /\ "own rung" \in T /\ "witness" \in T
    BY <2>1, <2>3 DEF T
  <2> QED
    BY <2>4 DEF WriteNames, W, T
<1>3. /\ If("record") <=> accepted /\ Publishes(d)
      /\ If("pin") => settled
      /\ If("rung") <=> laddered /\ RungDue(d)
      /\ If("own rung") <=> laddered /\ RungDue(d)
      /\ If("witness") => laddered /\ w /\ Settled(d) # Nothing
  OBVIOUS
<1> HIDE DEF If
<1>4. \A s \in WriteNames : s \in Due(d, w) <=> If(s)
  BY <1>1, <1>2
<1> QED
  BY <1>3, <1>4 DEF WriteNames

\* Each machine is left as it was or as the writes so far leave it: nothing is
\* pinned, hung on the ladder or witnessed before the record is with the peer.
LEMMA SyncIs ==
  ASSUME NEW d \in Device, NEW w \in BOOLEAN, Sync(d, w)
  PROVE  /\ UNCHANGED <<hostility, puts>> /\ view' = 1 - view /\ stops' \in {stops, stops + 1}
         /\ \/ UNCHANGED <<signed, main, alt>>
            \/ HeadAccepted(d, w) /\ Publishes(d) /\ signed < MaxSigned /\ PublishNext(d)
         /\ \E v : /\ pin' = [pin EXCEPT ![d] = v]
                   /\ v \in {pin[d], Nothing} \/ (v = Settled(d) /\ GotThrough(d, w))
         /\ \/ rungs' = rungs
            \/ /\ rungs' = rungs \cup {NextRung(d)}
               /\ GotThrough(d, w) /\ RungDue(d) /\ RungTaken(d)
         /\ \E v : /\ cpPin' = [cpPin EXCEPT ![d] = v]
                   /\ v \in {cpPin[d], Nothing, TopRung(d)} \/ (v = NextRung(d) /\ v \in rungs')
         /\ \/ UNCHANGED <<witnesses, vouched>>
            \/ /\ GotThrough(d, w) /\ w /\ Settled(d) # Nothing
               /\ witnesses' = Witnessed(Settled(d))
               /\ \/ vouched' = vouched
                  \/ /\ vouched' = vouched \cup {Settled(d)}
                     /\ SlotHead = Nothing \/ Arrived(d, w)
<1> DEFINE due == Due(d, w)
           ends == {n \in 0 .. Len(Writes) - 1 : stops < MaxStops /\ Writes[n + 1] \in due}
<1>1. PICK last \in ends \cup {Len(Writes)}, torn \in BOOLEAN :
    LET done     == due \cap ToSet(SubSeq(Writes, 1, last))
        Does(s)  == s \in done
        Tears(s) == torn /\ s = Writes[last + 1]
    IN
    /\ torn => last \in ends /\ Writes[last + 1] \in PinWrites
    /\ stops' = IF last = Len(Writes) THEN stops ELSE stops + 1
    /\ view' = 1 - view
    /\ IF Does("record") THEN PublishNext(d)
       ELSE UNCHANGED <<signed, main, alt>>
    /\ pin' = [pin EXCEPT ![d] =
                 MayTear(@, Settled(d), Does("pin"), Tears("pin"))]
    /\ rungs' = IF Does("rung") THEN rungs \cup {NextRung(d)} ELSE rungs
    /\ cpPin' = [cpPin EXCEPT ![d] =
                   IF Does("own rung") THEN NextRung(d)
                   ELSE MayTear(@, TopRung(d), Does("seen rung"),
                                Tears("seen rung") \/ Tears("own rung"))]
    /\ witnesses' = IF Does("witness") THEN Witnessed(Settled(d)) ELSE witnesses
    /\ vouched' = IF Does("witness") /\ (SlotHead = Nothing \/ Arrived(d, w))
                  THEN vouched \cup {Settled(d)} ELSE vouched
    /\ UNCHANGED <<hostility, puts>>
  BY DEF Sync
<1> DEFINE Does(s) == s \in due \cap ToSet(SubSeq(Writes, 1, last))
           Tears(s) == torn /\ s = Writes[last + 1]
           p == MayTear(pin[d], Settled(d), Does("pin"), Tears("pin"))
           c == IF Does("own rung") THEN NextRung(d)
                ELSE MayTear(cpPin[d], TopRung(d), Does("seen rung"), Tears("seen rung") \/ Tears("own rung"))
<1>2. /\ stops' = IF last = Len(Writes) THEN stops ELSE stops + 1
      /\ view' = 1 - view
      /\ IF Does("record") THEN PublishNext(d) ELSE UNCHANGED <<signed, main, alt>>
      /\ rungs' = IF Does("rung") THEN rungs \cup {NextRung(d)} ELSE rungs
      /\ witnesses' = IF Does("witness") THEN Witnessed(Settled(d)) ELSE witnesses
      /\ vouched' = IF Does("witness") /\ (SlotHead = Nothing \/ Arrived(d, w))
                    THEN vouched \cup {Settled(d)} ELSE vouched
      /\ UNCHANGED <<hostility, puts>>
  BY <1>1
<1>3. pin' = [pin EXCEPT ![d] = p] /\ cpPin' = [cpPin EXCEPT ![d] = c]
  BY <1>1
<1>4. last \in 0 .. 6
  <2>1. Len(Writes) = 6
    BY DEF Writes
  <2> QED
    BY <2>1
<1> DEFINE early == ToSet(SubSeq(Writes, 1, last))
<1>5. /\ "pin" \in early => "record" \in early
      /\ "rung" \in early => "record" \in early
      /\ "own rung" \in early => "rung" \in early
      /\ "witness" \in early => "record" \in early
  <2>1. /\ "record" \in early <=> 2 <= last
        /\ "pin" \in early <=> 3 <= last
        /\ "rung" \in early <=> 4 <= last
        /\ "own rung" \in early <=> 5 <= last
        /\ "witness" \in early <=> 6 <= last
    BY <1>4, WritesUpto
  <2> DEFINE r == "record" \in early  p1 == "pin" \in early  g == "rung" \in early
             o == "own rung" \in early  t == "witness" \in early
  <2> HIDE DEF early, r, p1, g, o, t
  <2>2. (r <=> 2 <= last) /\ (p1 <=> 3 <= last) /\ (g <=> 4 <= last) /\ (o <=> 5 <= last) /\ (t <=> 6 <= last)
    BY <2>1 DEF r, p1, g, o, t
  <2>3. (p1 => r) /\ (g => r) /\ (o => g) /\ (t => r)
    BY <2>2, <1>4
  <2> QED
    BY <2>3 DEF r, p1, g, o, t
<1>6. /\ "record" \in due <=> HeadAccepted(d, w) /\ Publishes(d)
      /\ "pin" \in due => HeadAccepted(d, w) /\ (Publishes(d) => Published(d))
      /\ "rung" \in due =>
           HeadAccepted(d, w) /\ (Publishes(d) => Published(d)) /\ RungDue(d) /\ RungTaken(d)
      /\ "own rung" \in due <=> "rung" \in due
      /\ "witness" \in due =>
           HeadAccepted(d, w) /\ (Publishes(d) => Published(d)) /\ w /\ Settled(d) # Nothing
  BY DueIs
<1>7. Publishes(d) => signed < MaxSigned
  BY DEF Sync
<1> HIDE DEF due, early, ends
<1>8. /\ Does("record") => HeadAccepted(d, w) /\ Publishes(d)
      /\ Does("pin") => HeadAccepted(d, w) /\ (Publishes(d) => Published(d) /\ Does("record"))
      /\ Does("rung") => /\ HeadAccepted(d, w) /\ (Publishes(d) => Published(d) /\ Does("record"))
                         /\ RungDue(d) /\ RungTaken(d)
      /\ Does("own rung") => Does("rung")
      /\ Does("witness") => /\ HeadAccepted(d, w) /\ (Publishes(d) => Published(d) /\ Does("record"))
                            /\ w /\ Settled(d) # Nothing
  BY <1>5, <1>6 DEF early
<1> HIDE DEF Does, Tears
<1>9. ~Publishes(d) => ~Does("record")
  BY <1>8
<1>10. /\ Does("pin") => GotThrough(d, w)
       /\ Does("rung") => GotThrough(d, w)
       /\ Does("witness") => GotThrough(d, w)
  BY <1>2, <1>7, <1>8, <1>9 DEF GotThrough
<1>11. p \in {pin[d], Nothing} \/ (p = Settled(d) /\ GotThrough(d, w))
  BY <1>10 DEF MayTear
<1>12. c \in {cpPin[d], Nothing, TopRung(d)} \/ (c = NextRung(d) /\ c \in rungs')
  BY <1>2, <1>8 DEF MayTear
<1> HIDE DEF p, c
<1>13. \E v : /\ pin' = [pin EXCEPT ![d] = v]
              /\ v \in {pin[d], Nothing} \/ (v = Settled(d) /\ GotThrough(d, w))
  BY <1>3, <1>11
<1>14. \E v : /\ cpPin' = [cpPin EXCEPT ![d] = v]
              /\ v \in {cpPin[d], Nothing, TopRung(d)} \/ (v = NextRung(d) /\ v \in rungs')
  BY <1>3, <1>12
<1>15. /\ UNCHANGED <<hostility, puts>> /\ view' = 1 - view /\ stops' \in {stops, stops + 1}
       /\ \/ UNCHANGED <<signed, main, alt>>
          \/ HeadAccepted(d, w) /\ Publishes(d) /\ signed < MaxSigned /\ PublishNext(d)
  BY <1>2, <1>7, <1>8
<1>16. \/ rungs' = rungs
       \/ rungs' = rungs \cup {NextRung(d)} /\ GotThrough(d, w) /\ RungDue(d) /\ RungTaken(d)
  BY <1>2, <1>8, <1>10
<1>17. \/ UNCHANGED <<witnesses, vouched>>
       \/ /\ GotThrough(d, w) /\ w /\ Settled(d) # Nothing
          /\ witnesses' = Witnessed(Settled(d))
          /\ \/ vouched' = vouched
             \/ /\ vouched' = vouched \cup {Settled(d)}
                /\ SlotHead = Nothing \/ Arrived(d, w)
  BY <1>2, <1>8, <1>10
<1> QED
  BY <1>13, <1>14, <1>15, <1>16, <1>17

-----------------------------------------------------------------------------
(* The invariant at the beginning, and the two branches of the peer. *)

\* Nothing is published, pinned or signed.
LEMMA InitHolds == SyncInit => SyncInv
<1> SUFFICES ASSUME SyncInit PROVE SyncInv
  OBVIOUS
<1> DEFINE e == Nothing
<1>1. e \in Seq(Signing) /\ e \in Seq(SignedRecord) /\ Len(e) = 0
  BY DEF Nothing
<1>2. Below(e) = {}
  BY <1>1, BelowIs DEF Nothing
<1>3. Top(main) = e /\ Top(alt) = e /\ Crown = e
  BY DEF SyncInit, Top, Crown
<1>4. MainHolds /\ AltHolds
  <2>1. main = {} /\ alt = {}
    BY DEF SyncInit
  <2> HIDE DEF e
  <2>2. /\ Top(main) \in Seq(Signing) /\ main = Below(Top(main)) /\ Len(Top(main)) = 0
        /\ Top(alt) \in Seq(Signing) /\ alt = Below(Top(alt)) /\ Len(Top(alt)) = 0
    BY <1>1, <1>2, <1>3, <2>1
  <2>3. Len(Top(main)) <= 2 /\ Len(Top(alt)) <= 2
    BY <2>2
  <2> QED
    BY <2>1, <2>2, <2>3 DEF MainHolds, AltHolds
<1>5. RungsHold /\ HonestHolds
  <2>1. DOMAIN e = {} /\ e = <<>>
    BY DEF Nothing
  <2> HIDE DEF e
  <2> QED
    BY <1>1, <1>2, <1>3, <2>1 DEF SyncInit, RungsHold, Climbing, HonestHolds
<1>6. VouchedHolds
  BY DEF SyncInit, VouchedHolds
<1>7. SyncTypes
  <2>1. 0 \in 0 .. MaxPuts /\ 0 \in 0 .. MaxSigned
    BY SyncAssumption
  <2> QED
    BY <2>1 DEF SyncInit, SyncTypes
<1> QED
  BY <1>4, <1>5, <1>6, <1>7 DEF SyncInv

\* What is signed next hangs on the head served.
LEMMA RecordIs ==
  ASSUME SyncTypes, MainHolds, AltHolds, NEW d \in Device, Publishes(d), signed < MaxSigned
  PROVE  /\ NextRecord(d) \in SignedRecord /\ NextRecord(d) \in Seq(Signing)
         /\ Front(NextRecord(d)) = SlotHead
         /\ Len(NextRecord(d)) = Len(SlotHead) + 1 /\ Len(SlotHead) \in Nat
         /\ Seqno(NextRecord(d)) = Seqno(SlotHead) + 1 /\ Seqno(NextRecord(d)) \in Nat
         /\ Below(NextRecord(d)) = Below(SlotHead) \cup {NextRecord(d)}
<1> DEFINE e == [device |-> d, puts |-> puts[d], nonce |-> signed + 1]
<1>1. e \in Signing
  <2>1. puts[d] \in 1 .. MaxPuts
    BY SyncAssumption DEF SyncTypes, Publishes
  <2>2. signed + 1 \in 1 .. MaxSigned
    BY SyncAssumption DEF SyncTypes
  <2> QED
    BY <2>1, <2>2 DEF Signing
<1>2. SlotHead \in Seq(Signing) /\ Len(SlotHead) \in Nat
  BY HeadIs, LenProperties
<1>3. NextRecord(d) = Append(SlotHead, e)
  BY DEF NextRecord
<1> HIDE DEF e
<1>4. /\ NextRecord(d) \in Seq(Signing) /\ NextRecord(d) # <<>>
      /\ Len(NextRecord(d)) = Len(SlotHead) + 1 /\ Front(NextRecord(d)) = SlotHead
  BY <1>1, <1>2, <1>3, AppendIs
<1>5. Below(NextRecord(d)) = Below(SlotHead) \cup {NextRecord(d)}
  BY <1>1, <1>2, <1>3, BelowAppend
<1>6. Seqno(NextRecord(d)) = Seqno(SlotHead) + 1 /\ Seqno(NextRecord(d)) \in Nat
  BY <1>2, <1>4 DEF Seqno
<1> QED
  BY <1>2, <1>4, <1>5, <1>6 DEF SignedRecord

\* The first branch stays one history.
LEMMA MainKept ==
  ASSUME SyncTypes, MainHolds, AltHolds, NEW d \in Device, Publishes(d), signed < MaxSigned,
         PublishNext(d), hostility' = hostility
  PROVE  MainHolds'
<1> DEFINE r == NextRecord(d)
<1>1. /\ r \in Seq(Signing) /\ Front(r) = SlotHead /\ Below(r) = Below(SlotHead) \cup {r}
      /\ Len(r) = Len(SlotHead) + 1 /\ Len(SlotHead) \in Nat
  BY RecordIs
<1>2. RollsBack => Len(SlotHead) <= 1
  BY HeadIs
<1>3. main' = IF OnMain(r) THEN main \cup {r} ELSE main
  BY DEF PublishNext
<1> HIDE DEF r
<1>4. CASE OnMain(r)
  <2>1. main = Below(SlotHead)
    BY <1>1, <1>4 DEF OnMain, MainHolds
  <2>2. main' = Below(r)
    BY <2>1, <1>1, <1>3, <1>4
  <2>3. Top(main') = r
    BY <2>2, <1>1, BelowTop
  <2>4. RollsBack => Len(r) <= 2
    BY <1>1, <1>2
  <2>5. RollsBack' <=> RollsBack
    BY DEF RollsBack
  <2> QED
    BY <2>2, <2>3, <2>4, <2>5, <1>1 DEF MainHolds
<1>5. CASE ~OnMain(r)
  BY <1>3, <1>5 DEF MainHolds, RollsBack
<1> QED
  BY <1>4, <1>5

\* What the second branch starts from when the peer forks the one it serves.
LEMMA ForkBaseIs ==
  ASSUME SyncTypes, MainHolds, AltHolds, NEW d \in Device, Publishes(d), signed < MaxSigned, alt = {}
  PROVE  ForkBase(NextRecord(d)) = Below(SlotHead)
<1> DEFINE r == NextRecord(d)
<1>1. Seqno(r) = Seqno(SlotHead) + 1 /\ Seqno(SlotHead) \in Int
  <2>1. Len(SlotHead) \in Nat /\ Seqno(r) = Seqno(SlotHead) + 1
    BY RecordIs
  <2> QED
    BY <2>1 DEF Seqno
<1>2. main = Branch
  BY DEF Branch
<1>3. {q \in main : Seqno(q) <= Seqno(SlotHead)} = Below(SlotHead)
  BY <1>2, HeadIs
<1>4. \A q \in main : Seqno(q) \in Int
  <2>1. \A q \in main : Len(q) \in 1 .. Len(Top(main))
    BY BelowIs DEF MainHolds
  <2> QED
    BY <2>1 DEF Seqno
<1> HIDE DEF r
<1>5. ForkBase(r) = {q \in main : Seqno(q) <= Seqno(SlotHead)}
  BY <1>1, <1>4 DEF ForkBase
<1> QED
  BY <1>3, <1>5 DEF r

\* The second branch stays one history, or two records of a peer that also
\* rolls back.
LEMMA AltKept ==
  ASSUME SyncTypes, MainHolds, AltHolds, NEW d \in Device, Publishes(d), signed < MaxSigned,
         PublishNext(d), hostility' = hostility
  PROVE  AltHolds'
<1> DEFINE r == NextRecord(d)
           One(h) == h \in Seq(Signing) /\ (RollsBack => Len(h) <= 2)
           Two(x, y) == x \in Seq(Signing) /\ y \in Seq(Signing) /\ Len(x) = 1 /\ Len(y) = 2
<1>1. /\ r \in Seq(Signing) /\ Front(r) = SlotHead /\ Below(r) = Below(SlotHead) \cup {r}
      /\ Len(r) = Len(SlotHead) + 1 /\ Len(SlotHead) \in Nat /\ Seqno(r) = Seqno(SlotHead) + 1
  BY RecordIs
<1>2. SlotHead \in Seq(Signing) /\ (RollsBack => Len(SlotHead) <= 1)
  BY HeadIs
<1>3. alt' = IF OnAlt(r) THEN ForkBase(r) \cup {r} ELSE IF Forked THEN ForkBase(r) ELSE alt
  BY DEF PublishNext
<1>4. alt = {} => ForkBase(r) = Below(SlotHead)
  BY ForkBaseIs
<1>5. alt # {} => ForkBase(r) = alt
  BY DEF ForkBase
<1>6. RollsBack' <=> RollsBack
  BY DEF RollsBack
<1> HIDE DEF r
<1>7. ASSUME NEW h, One(h), alt' = Below(h), "fork" \in hostility PROVE AltHolds'
  <2>1. Top(alt') = h
    BY <1>7, BelowTop
  <2> QED
    BY <2>1, <1>6, <1>7 DEF AltHolds
<1>8. One(r) /\ One(SlotHead)
  BY <1>1, <1>2
<1>9. \/ alt = Below(Top(alt)) /\ One(Top(alt))
      \/ RollsBack /\ \E x \in alt, y \in alt : alt = {x, y} /\ Two(x, y)
  BY DEF AltHolds
<1>10. alt # {} => "fork" \in hostility
  BY DEF AltHolds
<1> HIDE DEF One
<1>11. CASE Forked /\ Front(r) = Top(ForkBase(r))
  <2>1. "fork" \in hostility /\ OnAlt(r)
    BY <1>11 DEF Forked, OnAlt
  <2>2. CASE alt = {}
    BY <2>1, <2>2, <1>1, <1>3, <1>4, <1>7, <1>8
  <2>3. CASE alt # {} /\ alt = Below(Top(alt))
    <3>1. alt' = alt \cup {r} /\ Top(alt) = SlotHead
      BY <2>1, <2>3, <1>1, <1>3, <1>5, <1>11
    <3>2. alt' = Below(r)
      BY <3>1, <2>3, <1>1
    <3> QED
      BY <3>2, <2>1, <1>7, <1>8
  <2>4. CASE RollsBack /\ \E x \in alt, y \in alt : alt = {x, y} /\ Two(x, y)
    <3>1. PICK x \in alt, y \in alt : alt = {x, y} /\ Two(x, y)
      BY <2>4
    <3>2. Branch = {x, y}
      BY <3>1, <1>11 DEF Branch
    <3>3. SlotHead = x
      BY <2>4, <3>1, <3>2, HeadOfTwo
    <3>4. Top(alt) = y
      BY <3>1, TopOfTwo
    <3>5. x = y
      BY <3>3, <3>4, <1>1, <1>5, <1>11
    <3> QED
      BY <3>1, <3>5
  <2> QED
    BY <2>2, <2>3, <2>4, <1>9
<1>12. CASE OnAlt(r) /\ ~(Forked /\ Front(r) = Top(ForkBase(r)))
  <2>1. "fork" \in hostility /\ ~Forked /\ main # {} /\ Seqno(r) # Seqno(Top(main)) + 1 /\ At(alt, Seqno(r)) = {}
    BY <1>12 DEF OnAlt
  <2> DEFINE t == Top(main)
  <2>2. t \in Seq(Signing) /\ main = Below(t) /\ (RollsBack => Len(t) <= 2) /\ Len(t) \in Nat
    BY LenProperties DEF MainHolds
  <2>3. Branch = Below(t)
    BY <2>1, <2>2 DEF Branch
  <2>4. SlotHead = IF RollsBack /\ Len(t) > 1 THEN Front(t) ELSE t
    BY <2>2, <2>3, HeadOf
  <2>5. RollsBack /\ Len(t) = 2 /\ SlotHead = Front(t)
    <3> DEFINE n == Len(t)
    <3>1. SlotHead # t
      BY <2>1, <1>1
    <3>2. RollsBack /\ n > 1 /\ SlotHead = Front(t)
      BY <3>1, <2>4
    <3>3. n \in Nat /\ n <= 2
      BY <3>2, <2>2
    <3> HIDE DEF n
    <3>4. n = 2
      BY <3>2, <3>3
    <3> QED
      BY <3>2, <3>4 DEF n
  <2> HIDE DEF t
  <2>6. Len(r) = 2 /\ Seqno(r) = 1
    <3>1. t # <<>>
      BY <2>5, EmptySeq
    <3>2. Len(Front(t)) = Len(t) - 1
      BY <3>1, <2>2, FrontIs
    <3>3. Len(r) = 2
      BY <3>2, <2>5, <1>1
    <3> QED
      BY <3>3 DEF Seqno
  <2>7. alt' = ForkBase(r) \cup {r}
    BY <1>3, <1>12
  <2>8. CASE alt = {}
    BY <2>1, <2>7, <2>8, <1>1, <1>4, <1>7, <1>8
  <2>9. CASE alt # {} /\ alt = Below(Top(alt)) /\ One(Top(alt))
    <3> DEFINE a == Top(alt)
    <3>1. a \in Seq(Signing) /\ Len(a) <= 2 /\ Len(a) \in Nat
      BY <2>5, <2>9, LenProperties DEF One
    <3>2. a # <<>> /\ a \in alt
      BY <2>9, <3>1, BelowIs
    <3>3. Len(a) # 0
      BY <3>1, <3>2, EmptySeq
    <3>4. Len(a) # 2
      BY <2>1, <2>6, <3>2 DEF At, Seqno
    <3>5. Len(a) = 1
      <4> DEFINE n == Len(a)
      <4>1. n \in Nat /\ n <= 2 /\ n # 0 /\ n # 2
        BY <3>1, <3>3, <3>4
      <4> HIDE DEF n
      <4>2. n = 1
        BY <4>1
      <4> QED
        BY <4>2 DEF n
    <3>6. alt = {a}
      BY <2>9, <3>1, <3>5, BelowSingle
    <3> HIDE DEF a
    <3>7. alt' = {a, r} /\ Two(a, r)
      BY <3>1, <3>5, <3>6, <2>6, <2>7, <1>1, <1>5
    <3> QED
      BY <3>7, <2>1, <2>5, <1>6 DEF AltHolds
  <2>10. CASE RollsBack /\ \E x \in alt, y \in alt : alt = {x, y} /\ Two(x, y)
    <3>1. PICK x \in alt, y \in alt : alt = {x, y} /\ Two(x, y)
      BY <2>10
    <3>2. Seqno(y) = 1
      BY <3>1 DEF Seqno
    <3> QED
      BY <3>1, <3>2, <2>1, <2>6 DEF At
  <2> QED
    BY <2>8, <2>9, <2>10, <1>9
<1>13. CASE ~OnAlt(r) /\ Forked /\ alt = {}
  <2>1. "fork" \in hostility
    BY <1>13 DEF Forked
  <2> QED
    BY <2>1, <1>3, <1>4, <1>7, <1>8, <1>13
<1>14. CASE ~OnAlt(r) /\ ~(Forked /\ alt = {})
  <2>1. alt' = alt
    BY <1>3, <1>5, <1>14
  <2> QED
    BY <2>1, <1>6 DEF AltHolds
<1> QED
  BY <1>11, <1>12, <1>13, <1>14

-----------------------------------------------------------------------------
(* The ladder. *)

\* The sequence numbers of a ladder's rungs rise, so its highest is the crown.
LEMMA LadderIs ==
  ASSUME NEW c \in Seq(SignedRecord), Climbing(c)
  PROVE  /\ \A b \in Below(c) : /\ RungSeq(b) \in Nat /\ RungSeq(b) = Seqno(c[Len(b)])
                                /\ Len(b) \in 1 .. Len(c) /\ RungSeq(b) <= RungSeq(c)
         /\ \A b1, b2 \in Below(c) : /\ RungSeq(b1) = RungSeq(b2) => b1 = b2
                                     /\ RungSeq(b1) < RungSeq(b2) <=> Len(b1) < Len(b2)
         /\ c # <<>> => Highest(Below(c)) = c
<1>1. Len(c) \in Nat
  BY LenProperties
<1>2. \A i \in 1 .. Len(c) : c[i] \in SignedRecord /\ Seqno(c[i]) \in Nat
  <2>1. \A r \in SignedRecord : Seqno(r) \in Nat
    <3>1. \A r \in SignedRecord : Len(r) \in Nat \ {0}
      BY EmptySeq DEF SignedRecord
    <3> QED
      BY <3>1 DEF Seqno
  <2> QED
    BY <2>1, ElementOfSeq
<1>3. \A i, j \in 1 .. Len(c) : i < j => Seqno(c[i]) < Seqno(c[j])
  <2>1. DOMAIN c = 1 .. Len(c)
    BY LenProperties
  <2> QED
    BY <2>1 DEF Climbing
<1>4. ASSUME NEW b \in Below(c)
      PROVE  RungSeq(b) = Seqno(c[Len(b)]) /\ Len(b) \in 1 .. Len(c)
  <2>1. b \in Seq(SignedRecord) /\ b # <<>> /\ Len(b) \in 1 .. Len(c) /\ b = SubSeq(c, 1, Len(b))
    BY BelowIs
  <2>2. Last(b) = b[Len(b)]
    BY DEF Last
  <2>3. SubSeq(c, 1, Len(b))[Len(b)] = c[Len(b)]
    <3>1. Len(b) \in 0 .. Len(c) /\ Len(b) \in 1 .. Len(b)
      BY <2>1, <1>1
    <3> QED
      BY <3>1, Upto
  <2>4. b[Len(b)] = c[Len(b)]
    BY <2>1, <2>3
  <2> QED
    BY <2>1, <2>2, <2>4 DEF RungSeq, Nothing
<1>5. ASSUME NEW b1 \in Below(c), NEW b2 \in Below(c)
      PROVE  /\ RungSeq(b1) = RungSeq(b2) => b1 = b2
             /\ RungSeq(b1) < RungSeq(b2) <=> Len(b1) < Len(b2)
  <2> DEFINE i == Len(b1)  j == Len(b2)
  <2>1. i \in 1 .. Len(c) /\ j \in 1 .. Len(c) /\ RungSeq(b1) = Seqno(c[i]) /\ RungSeq(b2) = Seqno(c[j])
    BY <1>4
  <2>2. i = j => b1 = b2
    BY BelowOnce
  <2> HIDE DEF i, j
  <2>3. /\ i < j => Seqno(c[i]) < Seqno(c[j])
        /\ j < i => Seqno(c[j]) < Seqno(c[i])
        /\ Seqno(c[i]) \in Nat /\ Seqno(c[j]) \in Nat
    BY <2>1, <1>2, <1>3
  <2>4. (Seqno(c[i]) = Seqno(c[j]) => i = j) /\ (Seqno(c[i]) < Seqno(c[j]) <=> i < j)
    BY <2>1, <2>3, <1>1
  <2> QED
    BY <2>1, <2>2, <2>4 DEF i, j
<1>6. ASSUME NEW b \in Below(c) PROVE RungSeq(b) \in Nat /\ RungSeq(b) <= RungSeq(c)
  <2>1. RungSeq(b) = Seqno(c[Len(b)]) /\ Len(b) \in 1 .. Len(c) /\ RungSeq(b) \in Nat
    BY <1>2, <1>4
  <2>2. c # <<>>
    BY <2>1, <1>1, EmptySeq
  <2>3. c \in Below(c)
    BY <2>2, BelowIs
  <2>4. RungSeq(c) \in Nat
    BY <1>2, <1>4, <2>3
  <2>5. ~(RungSeq(c) < RungSeq(b))
    BY <1>5, <2>3, <2>1, <1>1
  <2> QED
    BY <2>1, <2>4, <2>5
<1>7. ASSUME c # <<>> PROVE Highest(Below(c)) = c
  <2>1. c \in Below(c)
    BY <1>7, BelowIs
  <2>2. ASSUME NEW b \in Below(c), \A a \in Below(c) : RungSeq(a) <= RungSeq(b) PROVE b = c
    <3>1. RungSeq(c) <= RungSeq(b) /\ RungSeq(b) <= RungSeq(c) /\ RungSeq(b) \in Nat /\ RungSeq(c) \in Nat
      BY <2>1, <2>2, <1>6
    <3>2. RungSeq(b) = RungSeq(c)
      BY <3>1
    <3> QED
      BY <3>2, <2>1, <1>5
  <2> QED
    BY <2>1, <2>2, <1>6 DEF Highest
<1> QED
  BY <1>4, <1>5, <1>6, <1>7

\* What a device is served of it ends with the crown, too.
LEMMA TopRungIs ==
  ASSUME SyncTypes, RungsHold, NEW d \in Device
  PROVE  TopRung(d) = Crown
<1> DEFINE c == Crown
<1>1. c \in Seq(SignedRecord) /\ rungs = Below(c) /\ Climbing(c)
  BY DEF RungsHold
<1>2. /\ \A b \in rungs : RungSeq(b) \in Nat /\ RungSeq(b) <= RungSeq(c)
      /\ \A b1, b2 \in rungs : RungSeq(b1) = RungSeq(b2) => b1 = b2
  BY <1>1, LadderIs
<1>3. CASE rungs = {}
  BY <1>3 DEF TopRung, Ladder, Crown
<1>4. CASE rungs # {}
  <2> HIDE DEF c
  <2>1. c \in rungs
    BY <1>1, <1>4, BelowIs
  <2>2. RungSeq(cpPin[d]) <= RungSeq(c)
    <3>1. cpPin[d] \in rungs \cup {Nothing}
      BY DEF SyncTypes
    <3>2. RungSeq(Nothing) = -1
      BY DEF RungSeq
    <3> QED
      BY <3>1, <3>2, <2>1, <1>2
  <2>3. c \in Ladder(d) /\ Ladder(d) \subseteq rungs
    <3>1. RungSeq(c) >= RungSeq(cpPin[d])
      <4>1. RungSeq(cpPin[d]) \in Int /\ RungSeq(c) \in Int
        <5>1. cpPin[d] \in rungs \cup {Nothing}
          BY DEF SyncTypes
        <5>2. RungSeq(Nothing) = -1
          BY DEF RungSeq
        <5> QED
          BY <5>1, <5>2, <2>1, <1>2
      <4> QED
        BY <4>1, <2>2
    <3> QED
      BY <3>1, <2>1 DEF Ladder
  <2>4. ASSUME NEW b \in Ladder(d), \A a \in Ladder(d) : RungSeq(a) <= RungSeq(b) PROVE b = c
    <3>1. RungSeq(c) <= RungSeq(b) /\ RungSeq(b) <= RungSeq(c) /\ RungSeq(b) \in Nat /\ RungSeq(c) \in Nat
      BY <2>3, <2>4, <1>2
    <3>2. RungSeq(b) = RungSeq(c)
      BY <3>1
    <3> QED
      BY <3>2, <2>3, <1>2
  <2>5. Highest(Ladder(d)) = c
    BY <2>3, <2>4, <1>2 DEF Highest
  <2> QED
    BY <2>3, <2>5 DEF TopRung, c
<1> QED
  BY <1>3, <1>4

\* A rung a sync hangs on it is above all others.
LEMMA RungKept ==
  ASSUME SyncTypes, MainHolds, AltHolds, RungsHold, NEW d \in Device, Publishes(d), signed < MaxSigned,
         RungDue(d), RungTaken(d), rungs' = rungs \cup {NextRung(d)}
  PROVE  RungsHold' /\ Crown' = Append(Crown, NextRecord(d))
<1> DEFINE c == Crown  r == NextRecord(d)  a == Append(c, r)
<1>1. c \in Seq(SignedRecord) /\ rungs = Below(c) /\ Climbing(c) /\ Len(c) \in Nat
  BY LenProperties DEF RungsHold
<1>2. r \in SignedRecord
  BY RecordIs
<1>3. TopRung(d) = c
  BY TopRungIs
<1>4. rungs' = Below(c) \cup {a}
  BY <1>1, <1>3 DEF NextRung
<1>5. RungSeq(c) < Seqno(r) /\ (c # Nothing \/ Seqno(r) = 0)
  BY <1>3 DEF RungDue, RungTaken
<1> HIDE DEF c, r
<1>6. /\ a \in Seq(SignedRecord) /\ Len(a) = Len(c) + 1 /\ a # <<>> /\ Last(a) = r
      /\ \A i \in 1 .. Len(c) : a[i] = c[i]
  BY <1>1, <1>2, AppendIs
<1>7. a[Len(c) + 1] = r
  BY <1>6 DEF Last
<1>8. rungs' = Below(a)
  BY <1>1, <1>2, <1>4, BelowAppend
<1> HIDE DEF a
<1>9. \A i \in 1 .. Len(c) : Seqno(c[i]) < Seqno(r)
  <2>1. SUFFICES ASSUME NEW i \in 1 .. Len(c) PROVE Seqno(c[i]) < Seqno(r)
    OBVIOUS
  <2> DEFINE b == SubSeq(c, 1, i)
  <2>2. b \in Below(c) /\ Len(b) = i
    BY <1>1, BelowIs
  <2> HIDE DEF b
  <2>3. RungSeq(b) \in Nat /\ RungSeq(b) = Seqno(c[i]) /\ RungSeq(b) <= RungSeq(c)
    BY <2>2, <1>1, LadderIs
  <2>4. RungSeq(c) \in Nat /\ Seqno(r) \in Nat
    <3>1. c # <<>>
      BY <2>1, <1>1, EmptySeq
    <3>2. c \in Below(c)
      BY <3>1, <1>1, BelowIs
    <3>3. RungSeq(c) \in Nat
      BY <3>2, <1>1, LadderIs
    <3>4. Seqno(r) \in Nat
      BY RecordIs DEF r
    <3> QED
      BY <3>3, <3>4
  <2> QED
    BY <2>3, <2>4, <1>5
<1>10. Climbing(a)
  <2>1. Seqno(a[1]) = 0
    <3>1. CASE c = <<>>
      <4>1. Len(c) = 0
        BY <3>1, <1>1, EmptySeq
      <4>2. a[1] = r
        BY <4>1, <1>7
      <4> QED
        BY <4>2, <3>1, <1>5 DEF Nothing
    <3>2. CASE c # <<>>
      <4>1. 1 \in 1 .. Len(c)
        BY <3>2, <1>1, EmptySeq
      <4> QED
        BY <4>1, <3>2, <1>1, <1>6 DEF Climbing
    <3> QED
      BY <3>1, <3>2
  <2>2. DOMAIN a = 1 .. Len(c) + 1 /\ DOMAIN c = 1 .. Len(c)
    BY <1>1, <1>6, LenProperties
  <2>3. ASSUME NEW i \in DOMAIN a, NEW j \in DOMAIN a, i < j PROVE Seqno(a[i]) < Seqno(a[j])
    <3>1. i \in 1 .. Len(c)
      BY <2>2, <2>3, <1>1
    <3>2. CASE j = Len(c) + 1
      BY <3>1, <3>2, <1>6, <1>7, <1>9
    <3>3. CASE j # Len(c) + 1
      <4>1. j \in 1 .. Len(c)
        BY <3>3, <2>2, <1>1
      <4>2. Seqno(c[i]) < Seqno(c[j])
        BY <4>1, <3>1, <2>2, <2>3, <1>1 DEF Climbing
      <4>3. a[i] = c[i] /\ a[j] = c[j]
        BY <4>1, <3>1, <1>6
      <4> QED
        BY <4>2, <4>3
    <3> QED
      BY <3>2, <3>3
  <2> QED
    BY <2>1, <2>3 DEF Climbing
<1>11. Highest(Below(a)) = a /\ Below(a) # {}
  BY <1>6, <1>10, LadderIs, BelowIs
<1>12. Crown' = a
  BY <1>8, <1>11 DEF Crown
<1>13. RungsHold'
  BY <1>6, <1>8, <1>10, <1>12 DEF RungsHold
<1> QED
  BY <1>12, <1>13 DEF a, c, r

\* The lowest rung is that of the first record.
LEMMA LowestRung ==
  ASSUME RungsHold, NEW b \in rungs, {a \in rungs : RungSeq(a) < RungSeq(b)} = {}
  PROVE  RungSeq(b) = 0
<1> DEFINE c == Crown
<1>1. c \in Seq(SignedRecord) /\ rungs = Below(c) /\ Climbing(c) /\ Len(c) \in Nat
  BY LenProperties DEF RungsHold
<1> HIDE DEF c
<1>2. Len(b) \in 1 .. Len(c) /\ RungSeq(b) = Seqno(c[Len(b)])
  BY <1>1, LadderIs
<1>3. 1 \in 1 .. Len(c) /\ c # <<>>
  BY <1>2, <1>1, EmptySeq
<1> DEFINE f == SubSeq(c, 1, 1)
<1>4. f \in rungs /\ Len(f) = 1
  BY <1>3, <1>1, BelowIs
<1> HIDE DEF f
<1>5. ~(RungSeq(f) < RungSeq(b))
  BY <1>4
<1>6. ~(1 < Len(b))
  BY <1>4, <1>5, <1>1, LadderIs
<1>7. Len(b) = 1
  <2> DEFINE n == Len(b)
  <2>1. n \in 1 .. Len(c) /\ ~(1 < n)
    BY <1>2, <1>6
  <2> HIDE DEF n
  <2>2. n = 1
    BY <2>1, <1>1
  <2> QED
    BY <2>2 DEF n
<1>8. Seqno(c[1]) = 0
  BY <1>3, <1>1 DEF Climbing
<1> QED
  BY <1>2, <1>7, <1>8

\* Any other is linked to the one below.
LEMMA RungBelow ==
  ASSUME RungsHold, NEW b \in rungs, NEW x \in rungs, RungSeq(x) < RungSeq(b)
  PROVE  /\ Front(b) \in rungs /\ RungSeq(Front(b)) < RungSeq(b)
         /\ \A a \in rungs : RungSeq(a) < RungSeq(b) => RungSeq(a) <= RungSeq(Front(b))
<1> DEFINE c == Crown
<1>1. c \in Seq(SignedRecord) /\ rungs = Below(c) /\ Climbing(c) /\ Len(c) \in Nat
  BY LenProperties DEF RungsHold
<1> HIDE DEF c
<1> DEFINE f == Front(b)  n == Len(b)
<1>2. b \in Seq(SignedRecord) /\ b # <<>> /\ n \in 1 .. Len(c) /\ b = SubSeq(c, 1, n)
  BY <1>1, BelowIs
<1>3. Len(x) < n /\ Len(x) \in 1 .. Len(c)
  BY <1>1, LadderIs
<1>4. f = SubSeq(b, 1, n - 1)
  BY <1>2, FrontIs
<1>5. f = SubSeq(c, 1, n - 1)
  <2>1. n \in 0 .. Len(c) /\ n - 1 \in 0 .. n
    BY <1>2, <1>1
  <2>2. SubSeq(SubSeq(c, 1, n), 1, n - 1) = SubSeq(c, 1, n - 1)
    BY <2>1, <1>1, UptoUpto
  <2> QED
    BY <2>2, <1>2, <1>4
<1>6. n - 1 \in 1 .. Len(c)
  BY <1>2, <1>3, <1>1
<1>7. f \in rungs /\ Len(f) = n - 1
  BY <1>5, <1>6, <1>1, BelowIs
<1> HIDE DEF f, n
<1>8. RungSeq(f) < RungSeq(b)
  <2>1. Len(f) < Len(b)
    BY <1>2, <1>7, <1>1 DEF n
  <2> QED
    BY <2>1, <1>7, <1>1, LadderIs
<1>9. ASSUME NEW a \in rungs, RungSeq(a) < RungSeq(b) PROVE RungSeq(a) <= RungSeq(f)
  <2>1. Len(a) < n /\ Len(a) \in 1 .. Len(c)
    BY <1>9, <1>1, LadderIs DEF n
  <2>2. ~(Len(f) < Len(a))
    BY <2>1, <1>2, <1>7, <1>1
  <2>3. ~(RungSeq(f) < RungSeq(a)) /\ RungSeq(f) \in Nat /\ RungSeq(a) \in Nat
    BY <2>2, <1>7, <1>1, LadderIs
  <2> QED
    BY <2>3
<1> QED
  BY <1>7, <1>8, <1>9 DEF f

\* So what the devices signed is one ladder.
LEMMA LadderIsOne ==
  ASSUME RungsHold
  PROVE  LadderIsNeverForked
<1>1. \A b1, b2 \in rungs : RungSeq(b1) = RungSeq(b2) => b1 = b2
  BY LadderIs DEF RungsHold
<1> QED
  BY <1>1, LowestRung, RungBelow DEF LadderIsNeverForked, VerifyLadder

-----------------------------------------------------------------------------
(* What a sync settles on. *)

\* The head served or the record that hangs on it.
LEMMA SettledIs ==
  ASSUME SyncTypes, MainHolds, AltHolds, NEW d \in Device, NEW w \in BOOLEAN, GotThrough(d, w)
  PROVE  /\ Settled(d) \in Seq(Signing) /\ Settled(d) \in SignedRecord \cup {Nothing}
         /\ Below(SlotHead) \subseteq Below(Settled(d))
         /\ Publishes(d) => Seqno(Settled(d)) = Seqno(SlotHead) + 1
         /\ ~Publishes(d) => Settled(d) = SlotHead
<1>1. CASE Publishes(d)
  BY <1>1, RecordIs DEF GotThrough, Settled
<1>2. CASE ~Publishes(d)
  BY <1>2, HeadIs DEF Settled, SignedRecord, Nothing
<1> QED
  BY <1>1, <1>2

\* What is below a record is a prefix of it.
LEMMA BelowPrefix ==
  ASSUME NEW S, NEW h \in Seq(S), NEW q \in Below(h)
  PROVE  IsPrefix(q, h)
<1>1. q \in Seq(S) /\ Len(q) \in 1 .. Len(h) /\ q = SubSeq(h, 1, Len(q))
  BY BelowIs
<1>2. SubSeq(q, 1, Len(q)) = q
  BY <1>1, UptoEnd
<1>3. Len(q) <= Len(h)
  BY <1>1
<1> QED
  BY <1>1, <1>2, <1>3 DEF IsPrefix

\* An honest peer serves its one branch to the end.
LEMMA HonestIs ==
  ASSUME SyncTypes, MainHolds, AltHolds, hostility = {}
  PROVE  /\ alt = {} /\ ~Forked /\ Branch = main /\ SlotHead = Top(main)
         /\ main = Below(SlotHead)
<1>1. alt = {} /\ ~Forked /\ Branch = main
  BY DEF AltHolds, Forked, Branch
<1>2. Top(main) \in Seq(Signing) /\ main = Below(Top(main)) /\ ~RollsBack
  BY DEF MainHolds, RollsBack
<1>3. SlotHead = Top(main)
  BY <1>1, <1>2, HeadOf
<1> QED
  BY <1>1, <1>2, <1>3

\* It takes the record a sync settles on.
LEMMA HonestTakes ==
  ASSUME SyncTypes, MainHolds, AltHolds, NEW d \in Device, NEW w \in BOOLEAN, GotThrough(d, w), hostility = {}
  PROVE  Settled(d) \in main' \cup {Nothing}
<1>1. alt = {} /\ ~Forked /\ SlotHead = Top(main) /\ main = Below(SlotHead)
  BY HonestIs
<1>2. CASE Publishes(d)
  <2> DEFINE r == NextRecord(d)
  <2>1. Front(r) = SlotHead
    BY <1>2, RecordIs DEF GotThrough
  <2>2. OnMain(r)
    BY <2>1, <1>1 DEF OnMain
  <2>3. main' = main \cup {r}
    BY <2>2, <1>2 DEF GotThrough, PublishNext
  <2> QED
    BY <2>3, <1>2 DEF Settled
<1>3. CASE ~Publishes(d)
  <2>1. main' = main /\ Settled(d) = SlotHead
    BY <1>3 DEF GotThrough, Settled
  <2>2. SlotHead \in Seq(Signing)
    BY HeadIs
  <2> QED
    BY <2>1, <2>2, <1>1, BelowIs DEF Nothing
<1> QED
  BY <1>2, <1>3

\* The witness node keeps what was vouched for: a sync that brings it a record
\* was shown one at least as high, and the same one at the same height.
LEMMA WitnessKept ==
  ASSUME SyncTypes, MainHolds, AltHolds, NEW d \in Device, GotThrough(d, TRUE),
         Settled(d) # Nothing, NEW a \in witnesses
  PROVE  a \in Witnessed(Settled(d))
<1>1. a \in Memories(d, TRUE) /\ a \in SignedRecord
  BY DEF Memories, Relayed, SyncTypes
<1>2. Len(a) \in Nat \ {0}
  BY <1>1, EmptySeq DEF SignedRecord
<1>3. HeadAccepted(d, TRUE) /\ Seqno(a) <= Seqno(SlotHead)
  BY <1>1 DEF GotThrough, HeadAccepted, LadderAccepted, NotRolledBack
<1>4. SlotHead \in Seq(Signing) /\ Len(SlotHead) \in Nat
  BY HeadIs, LenProperties
<1>5. SlotHead # Nothing
  <2>1. Len(SlotHead) # 0
    BY <1>2, <1>3, <1>4 DEF Seqno
  <2> QED
    BY <2>1, <1>4, EmptySeq DEF Nothing
<1>6. CASE Publishes(d)
  <2>1. Seqno(Settled(d)) = Seqno(SlotHead) + 1
    BY <1>6, SettledIs
  <2>2. Seqno(a) # Seqno(Settled(d))
    BY <2>1, <1>2, <1>3, <1>4 DEF Seqno
  <2> QED
    BY <2>2 DEF Witnessed
<1>7. CASE ~Publishes(d)
  <2>1. Settled(d) = SlotHead
    BY <1>7, SettledIs
  <2>2. Seqno(a) = Seqno(SlotHead) => a = SlotHead
    BY <1>1, <1>3, <1>5, MemoryAtHead
  <2> QED
    BY <2>1, <2>2 DEF Witnessed
<1> QED
  BY <1>6, <1>7

\* A sync that walked, with the witness node, settles above all it relays.
LEMMA WitnessBelow ==
  ASSUME SyncTypes, MainHolds, AltHolds, NEW d \in Device, NEW w \in BOOLEAN, GotThrough(d, w),
         SlotHead = Nothing \/ Arrived(d, w), NEW a \in Memories(d, w)
  PROVE  IsPrefix(a, Settled(d))
<1>1. a \in SignedRecord
  BY DEF Memories, Relayed, SyncTypes
<1>2. Len(a) \in Nat \ {0}
  BY <1>1, EmptySeq DEF SignedRecord
<1>3. HeadAccepted(d, w) /\ NotRolledBack(d, w) /\ Seqno(a) <= Seqno(SlotHead)
  BY DEF GotThrough, HeadAccepted, LadderAccepted, NotRolledBack
<1>4. SlotHead \in Seq(Signing) /\ Len(SlotHead) \in Nat
  BY HeadIs, LenProperties
<1>5. SlotHead # Nothing
  <2>1. Len(SlotHead) # 0
    BY <1>2, <1>3, <1>4 DEF Seqno
  <2> QED
    BY <2>1, <1>4, EmptySeq DEF Nothing
<1>6. MemoriesHold(d, w)
  BY <1>3, <1>5 DEF HeadAccepted
<1>7. a \in Below(SlotHead)
  BY <1>3, <1>5, <1>6, WalkHolds
<1>8. a \in Below(Settled(d)) /\ Settled(d) \in Seq(Signing)
  BY <1>7, SettledIs
<1> QED
  BY <1>8, BelowPrefix

-----------------------------------------------------------------------------
(* The invariant is kept. *)

\* By a sync, wherever it stops.
LEMMA SyncKeeps ==
  ASSUME SyncInv, NEW d \in Device, NEW w \in BOOLEAN, Sync(d, w)
  PROVE  SyncInv'
<1>1. SyncTypes /\ MainHolds /\ AltHolds /\ RungsHold /\ VouchedHolds /\ HonestHolds
  BY DEF SyncInv
<1> DEFINE S == Settled(d)
<1>2. UNCHANGED <<hostility, puts>> /\ view' = 1 - view /\ stops' \in {stops, stops + 1}
  BY SyncIs
<1>3. \/ UNCHANGED <<signed, main, alt>>
      \/ HeadAccepted(d, w) /\ Publishes(d) /\ signed < MaxSigned /\ PublishNext(d)
  BY SyncIs
<1>4. PICK p : /\ pin' = [pin EXCEPT ![d] = p]
               /\ p \in {pin[d], Nothing} \/ (p = S /\ GotThrough(d, w))
  BY SyncIs
<1>5. \/ rungs' = rungs
      \/ rungs' = rungs \cup {NextRung(d)} /\ GotThrough(d, w) /\ RungDue(d) /\ RungTaken(d)
  BY SyncIs
<1>6. PICK c : /\ cpPin' = [cpPin EXCEPT ![d] = c]
               /\ c \in {cpPin[d], Nothing, TopRung(d)} \/ (c = NextRung(d) /\ c \in rungs')
  BY SyncIs
<1>7. \/ UNCHANGED <<witnesses, vouched>>
      \/ /\ GotThrough(d, w) /\ w /\ S # Nothing
         /\ witnesses' = Witnessed(S)
         /\ \/ vouched' = vouched
            \/ /\ vouched' = vouched \cup {S}
               /\ SlotHead = Nothing \/ Arrived(d, w)
  BY SyncIs
<1>8. GotThrough(d, w) => S \in SignedRecord \cup {Nothing}
  BY <1>1, SettledIs
<1> HIDE DEF S
<1>9. MainHolds' /\ AltHolds'
  <2>1. CASE UNCHANGED <<signed, main, alt>>
    BY <2>1, <1>1, <1>2 DEF MainHolds, AltHolds, RollsBack
  <2>2. CASE HeadAccepted(d, w) /\ Publishes(d) /\ signed < MaxSigned /\ PublishNext(d)
    BY <2>2, <1>1, <1>2, MainKept, AltKept
  <2> QED
    BY <2>1, <2>2, <1>3
<1>10. RungsHold' /\ rungs \subseteq rungs' /\
       (Crown' = Crown \/ (GotThrough(d, w) /\ Publishes(d) /\ Crown' = Append(Crown, NextRecord(d))))
  <2>1. CASE rungs' = rungs
    BY <2>1, <1>1 DEF RungsHold, Crown
  <2>2. CASE rungs' = rungs \cup {NextRung(d)} /\ GotThrough(d, w) /\ RungDue(d) /\ RungTaken(d)
    <3>1. Publishes(d) /\ signed < MaxSigned
      BY <2>2 DEF RungDue, GotThrough
    <3> QED
      BY <2>2, <3>1, <1>1, RungKept
  <2> QED
    BY <2>1, <2>2, <1>5
<1>11. SyncTypes'
  <2>1. hostility' \in Hostilities /\ puts' \in [Device -> 0 .. MaxPuts] /\ view' \in {0, 1} /\ stops' \in Nat
    BY <1>1, <1>2 DEF SyncTypes
  <2>2. signed' \in 0 .. MaxSigned
    <3>1. signed \in 0 .. MaxSigned /\ MaxSigned \in Nat
      BY <1>1, SyncAssumption DEF SyncTypes
    <3>2. signed' = signed \/ (signed' = signed + 1 /\ signed < MaxSigned)
      BY <1>3 DEF PublishNext
    <3> QED
      BY <3>1, <3>2
  <2>3. witnesses' \subseteq SignedRecord
    BY <1>1, <1>7, <1>8 DEF SyncTypes, Witnessed
  <2>4. pin' \in [Device -> SignedRecord \cup {Nothing}]
    BY <1>1, <1>4, <1>8 DEF SyncTypes
  <2>5. TopRung(d) \in rungs \cup {Nothing}
    <3>1. TopRung(d) = Crown
      BY <1>1, TopRungIs
    <3> QED
      BY <3>1, <1>1, BelowIs DEF RungsHold, Nothing
  <2>6. c \in rungs' \cup {Nothing}
    BY <2>5, <1>1, <1>6, <1>10 DEF SyncTypes
  <2>7. cpPin' \in [Device -> rungs' \cup {Nothing}]
    BY <2>6, <1>1, <1>6, <1>10 DEF SyncTypes
  <2> QED
    BY <2>1, <2>2, <2>3, <2>4, <2>7 DEF SyncTypes
<1>12. VouchedHolds'
  <2>1. CASE UNCHANGED <<witnesses, vouched>>
    BY <2>1, <1>1 DEF VouchedHolds
  <2>2. CASE GotThrough(d, w) /\ w /\ S # Nothing /\ witnesses' = Witnessed(S) /\ vouched' \subseteq vouched \cup {S}
             /\ (vouched' = vouched \/ (SlotHead = Nothing \/ Arrived(d, w)))
    <3>1. w = TRUE
      BY <2>2
    <3>2. \A a \in witnesses : a \in witnesses'
      BY <2>2, <3>1, <1>1, WitnessKept DEF S
    <3>3. S \in witnesses'
      BY <2>2 DEF Witnessed
    <3>4. vouched' \subseteq witnesses'
      BY <2>2, <3>2, <3>3, <1>1 DEF VouchedHolds
    <3>5. CASE vouched' = vouched
      BY <3>4, <3>5, <1>1 DEF VouchedHolds
    <3>6. CASE SlotHead = Nothing \/ Arrived(d, w)
      <4>1. witnesses \subseteq Memories(d, w)
        BY <3>1 DEF Memories, Relayed
      <4>2. \A a \in vouched : IsPrefix(a, S)
        BY <4>1, <2>2, <3>6, <1>1, WitnessBelow DEF VouchedHolds, S
      <4>3. IsPrefix(S, S)
        <5>1. S \in Seq(Signing)
          BY <2>2, <1>1, SettledIs DEF S
        <5>2. S \in Below(S)
          BY <5>1, <2>2, BelowIs DEF Nothing
        <5> QED
          BY <5>1, <5>2, BelowPrefix
      <4> QED
        BY <4>2, <4>3, <3>4, <2>2, <1>1 DEF VouchedHolds
    <3> QED
      BY <3>5, <3>6, <2>2
  <2> QED
    BY <2>1, <2>2, <1>7
<1>13. HonestHolds'
  <2>1. SUFFICES ASSUME hostility' = {}
        PROVE  /\ witnesses' \subseteq main'
               /\ \A x \in Device : pin'[x] \in main' \cup {Nothing}
               /\ \A i \in DOMAIN Crown' : Crown'[i] \in main'
    BY DEF HonestHolds
  <2>2. hostility = {} /\ main \subseteq main'
    BY <2>1, <1>2, <1>3 DEF PublishNext
  <2>3. /\ witnesses \subseteq main
        /\ \A x \in Device : pin[x] \in main \cup {Nothing}
        /\ \A i \in DOMAIN Crown : Crown[i] \in main
    BY <2>2, <1>1 DEF HonestHolds
  <2>4. GotThrough(d, w) => S \in main' \cup {Nothing}
    BY <2>2, <1>1, HonestTakes DEF S
  <2>5. witnesses' \subseteq main'
    BY <2>2, <2>3, <2>4, <1>7 DEF Witnessed
  <2>6. \A x \in Device : pin'[x] \in main' \cup {Nothing}
    <3>1. p \in main' \cup {Nothing}
      BY <2>2, <2>3, <2>4, <1>4
    <3>2. pin \in [Device -> SignedRecord \cup {Nothing}]
      BY <1>1 DEF SyncTypes
    <3> QED
      BY <3>1, <3>2, <2>2, <2>3, <1>4
  <2>7. \A i \in DOMAIN Crown' : Crown'[i] \in main'
    <3>1. CASE Crown' = Crown
      BY <3>1, <2>2, <2>3
    <3>2. CASE GotThrough(d, w) /\ Publishes(d) /\ Crown' = Append(Crown, NextRecord(d))
      <4> DEFINE r == NextRecord(d)  a == Append(Crown, r)
      <4>1. S = r /\ r # Nothing /\ r \in SignedRecord
        BY <3>2, <1>1, RecordIs DEF S, Settled, GotThrough, SignedRecord, Nothing
      <4>2. r \in main'
        BY <4>1, <3>2, <2>4
      <4>3. Crown \in Seq(SignedRecord) /\ Len(Crown) \in Nat
        BY <1>1, LenProperties DEF RungsHold
      <4> HIDE DEF r
      <4>4. a \in Seq(SignedRecord) /\ Len(a) = Len(Crown) + 1 /\ Last(a) = r /\ \A i \in 1 .. Len(Crown) : a[i] = Crown[i]
        BY <4>1, <4>3, AppendIs
      <4>5. DOMAIN a = 1 .. Len(Crown) + 1 /\ DOMAIN Crown = 1 .. Len(Crown)
        BY <4>3, <4>4, LenProperties
      <4>6. a[Len(Crown) + 1] = r
        BY <4>4 DEF Last
      <4> HIDE DEF a
      <4>7. \A i \in DOMAIN a : a[i] \in main'
        <5>1. SUFFICES ASSUME NEW i \in DOMAIN a PROVE a[i] \in main'
          OBVIOUS
        <5>2. CASE i = Len(Crown) + 1
          BY <5>2, <4>2, <4>6
        <5>3. CASE i # Len(Crown) + 1
          <6>1. i \in 1 .. Len(Crown)
            BY <5>1, <5>3, <4>3, <4>5
          <6> QED
            BY <6>1, <4>4, <4>5, <2>2, <2>3
        <5> QED
          BY <5>2, <5>3
      <4>8. Crown' = a
        BY <3>2 DEF a, r
      <4> QED
        BY <4>7, <4>8
    <3> QED
      BY <3>1, <3>2, <1>10
  <2> QED
    BY <2>5, <2>6, <2>7
<1> QED
  BY <1>9, <1>10, <1>11, <1>12, <1>13 DEF SyncInv

\* By a local write.
LEMMA PutKeeps ==
  ASSUME SyncInv, NEW d \in Device, Put(d)
  PROVE  SyncInv'
<1>1. puts' \in [Device -> 0 .. MaxPuts]
  <2>1. puts[d] \in 0 .. MaxPuts /\ puts[d] < MaxPuts /\ MaxPuts \in Nat
    BY SyncAssumption DEF SyncInv, SyncTypes, Put
  <2>2. puts[d] + 1 \in 0 .. MaxPuts
    BY <2>1
  <2> QED
    BY <2>2 DEF Put, SyncInv, SyncTypes
<1>2. UNCHANGED <<hostility, main, alt, view, rungs, witnesses, pin, cpPin, signed, stops, vouched>>
  BY DEF Put
<1>3. SyncTypes'
  BY <1>1, <1>2 DEF SyncInv, SyncTypes
<1>4. MainHolds' /\ AltHolds'
  BY <1>2 DEF SyncInv, MainHolds, AltHolds, RollsBack
<1>5. RungsHold' /\ HonestHolds'
  BY <1>2 DEF SyncInv, RungsHold, Crown, HonestHolds
<1>6. VouchedHolds'
  BY <1>2 DEF SyncInv, VouchedHolds
<1> QED
  BY <1>3, <1>4, <1>5, <1>6 DEF SyncInv

\* By a restart of the peer.
LEMMA RestartKeeps ==
  ASSUME SyncInv, PeerRestart
  PROVE  SyncInv'
<1>1. UNCHANGED <<hostility, main, rungs, witnesses, puts, pin, cpPin, signed, stops, vouched>> /\ alt' = {} /\ view' = 0
  BY DEF PeerRestart
<1>2. SyncTypes'
  BY <1>1 DEF SyncInv, SyncTypes
<1>3. MainHolds'
  BY <1>1 DEF SyncInv, MainHolds, RollsBack
<1>4. AltHolds'
  <2> DEFINE e == Nothing
  <2>1. e \in Seq(Signing) /\ Len(e) = 0 /\ e = <<>>
    BY DEF Nothing
  <2>2. Below(e) = {}
    BY <2>1, BelowIs
  <2>3. Top(alt') = e
    BY <1>1 DEF Top
  <2> HIDE DEF e
  <2>4. Top(alt') \in Seq(Signing) /\ alt' = Below(Top(alt')) /\ Len(Top(alt')) = 0
    BY <1>1, <2>1, <2>2, <2>3
  <2>5. Len(Top(alt')) <= 2
    BY <2>4
  <2> QED
    BY <1>1, <2>4, <2>5 DEF AltHolds
<1>5. RungsHold' /\ HonestHolds'
  BY <1>1 DEF SyncInv, RungsHold, Crown, HonestHolds
<1>6. VouchedHolds'
  BY <1>1 DEF SyncInv, VouchedHolds
<1> QED
  BY <1>2, <1>3, <1>4, <1>5, <1>6 DEF SyncInv

\* By a step that changes nothing of this.
LEMMA StutterKeeps ==
  ASSUME SyncInv, UNCHANGED syncVars
  PROVE  SyncInv'
<1>1. UNCHANGED <<hostility, main, alt, view, rungs, witnesses, puts, pin, cpPin, signed, stops, vouched>>
  BY DEF syncVars
<1>2. SyncTypes'
  BY <1>1 DEF SyncInv, SyncTypes
<1>3. MainHolds' /\ AltHolds'
  BY <1>1 DEF SyncInv, MainHolds, AltHolds, RollsBack
<1>4. RungsHold' /\ HonestHolds'
  BY <1>1 DEF SyncInv, RungsHold, Crown, HonestHolds
<1>5. VouchedHolds'
  BY <1>1 DEF SyncInv, VouchedHolds
<1> QED
  BY <1>2, <1>3, <1>4, <1>5 DEF SyncInv

\* However the peer forks, rolls back or withholds, and wherever the devices'
\* syncs stop, the peer's branches, the ladder, the witness node and the pins
\* stay as SyncInv says.
THEOREM SyncInductive == SyncSpec => []SyncInv
<1>1. SyncInit => SyncInv
  BY InitHolds
<1>2. SyncInv /\ [SyncNext]_syncVars => SyncInv'
  <2> SUFFICES ASSUME SyncInv, [SyncNext]_syncVars PROVE SyncInv'
    OBVIOUS
  <2>1. ASSUME NEW d \in Device, Put(d) PROVE SyncInv'
    BY <2>1, PutKeeps
  <2>2. ASSUME NEW d \in Device, NEW w \in BOOLEAN, Sync(d, w) PROVE SyncInv'
    BY <2>2, SyncKeeps
  <2>3. CASE PeerRestart
    BY <2>3, RestartKeeps
  <2>4. CASE UNCHANGED syncVars
    BY <2>4, StutterKeeps
  <2> QED
    BY <2>1, <2>2, <2>3, <2>4 DEF SyncNext
<1> QED
  BY <1>1, <1>2, PTL DEF SyncSpec

\* Two syncs that consulted the witness node and walked never settle on
\* histories neither of which continues the other (sync's memory checks and
\* witness write), and the checkpoints the devices sign are one ladder.
THEOREM VouchedAgree == SyncSpec => []VouchedHeadsAgree
<1>1. SyncInv => VouchedHeadsAgree
  BY LadderIsOne DEF SyncInv, VouchedHolds, VouchedHeadsAgree
<1> QED
  BY <1>1, SyncInductive, PTL

\* A device's pin moves to a record that descends from it, unless the sync
\* climbed the ladder or the file was torn (sync's pin write).
THEOREM PinsExtend == SyncSpec => PinsOnlyExtend
<1> DEFINE Kept(d) == \/ pin'[d] = Nothing
                      \/ IsPrefix(pin[d], pin'[d])
                      \/ SlotHead # Nothing /\ \E w \in BOOLEAN : ~Arrived(d, w)
<1>1. SyncInv /\ [SyncNext]_syncVars => [\A d \in Device : Kept(d)]_syncVars
  <2> SUFFICES ASSUME SyncInv, [SyncNext]_syncVars, NEW x \in Device PROVE Kept(x)
    OBVIOUS
  <2>1. pin \in [Device -> SignedRecord \cup {Nothing}] /\ SyncTypes /\ MainHolds /\ AltHolds
    BY DEF SyncInv, SyncTypes
  <2>2. ASSUME NEW s \in SignedRecord \cup {Nothing} PROVE IsPrefix(s, s)
    <3>1. s \in Seq(Signing)
      <4>1. <<>> \in Seq(Signing)
        BY EmptySeq
      <4> QED
        BY <4>1 DEF SignedRecord, Nothing
    <3>2. Len(s) \in Nat
      BY <3>1, LenProperties
    <3> QED
      BY <3>2 DEF IsPrefix
  <2>3. CASE pin'[x] = pin[x]
    BY <2>1, <2>2, <2>3
  <2>4. ASSUME NEW d \in Device, NEW w \in BOOLEAN, Sync(d, w), pin'[x] # pin[x], pin'[x] # Nothing
        PROVE  Kept(x)
    <3>1. PICK p : /\ pin' = [pin EXCEPT ![d] = p]
                   /\ p \in {pin[d], Nothing} \/ (p = Settled(d) /\ GotThrough(d, w))
      BY <2>4, SyncIs
    <3>2. x = d /\ pin'[x] = Settled(d) /\ GotThrough(d, w)
      BY <2>1, <2>4, <3>1
    <3>3. SlotHead = Nothing \/ Arrived(d, w) \/ Kept(x)
      BY <3>2
    <3>4. CASE SlotHead = Nothing \/ Arrived(d, w)
      <4>1. CASE pin[d] = Nothing
        <5>1. Settled(d) \in Seq(Signing)
          BY <3>2, <2>1, SettledIs
        <5>2. SubSeq(Settled(d), 1, 0) = <<>> /\ SubSeq(Nothing, 1, 0) = <<>> /\ Len(Settled(d)) \in Nat /\ Len(Nothing) = 0
          BY <5>1, LenProperties, SubSeqEmpty DEF Nothing
        <5> QED
          BY <5>2, <4>1, <3>2 DEF IsPrefix
      <4>2. CASE pin[d] # Nothing
        <5>1. pin[d] \in Memories(d, w)
          BY <4>2 DEF Memories
        <5>2. IsPrefix(pin[d], Settled(d))
          BY <5>1, <3>2, <3>4, <2>1, WitnessBelow
        <5> QED
          BY <5>2, <3>2
      <4> QED
        BY <4>1, <4>2
    <3> QED
      BY <3>3, <3>4
  <2>5. pin'[x] = pin[x] \/ \E d \in Device, w \in BOOLEAN : Sync(d, w)
    BY DEF SyncNext, Put, PeerRestart, syncVars
  <2> QED
    BY <2>3, <2>4, <2>5
<1> QED
  BY <1>1, SyncInductive, PTL DEF SyncSpec, PinsOnlyExtend

-----------------------------------------------------------------------------
(* An honest peer. *)

\* Every part of the ladder from a device's pinned rung up verifies.
LEMMA PartVerifies ==
  ASSUME SyncTypes, RungsHold, NEW d \in Device, NEW hi \in Int
  PROVE  VerifyLadder({c \in Ladder(d) : RungSeq(c) <= hi}, cpPin[d])
<1> DEFINE P == {c \in Ladder(d) : RungSeq(c) <= hi}  pinned == cpPin[d]  lo == RungSeq(cpPin[d])
<1>1. /\ \A b \in rungs : RungSeq(b) \in Nat
      /\ \A b1, b2 \in rungs : RungSeq(b1) = RungSeq(b2) => b1 = b2
  BY LadderIs DEF RungsHold
<1>2. pinned \in rungs \cup {Nothing} /\ RungSeq(Nothing) = -1
  BY DEF SyncTypes, RungSeq
<1>3. lo \in Int /\ (pinned = Nothing => lo = -1)
  BY <1>1, <1>2
<1>4. \A b : b \in P <=> b \in rungs /\ lo <= RungSeq(b) /\ RungSeq(b) <= hi
  BY <1>1, <1>3 DEF Ladder
<1> HIDE DEF P, lo
<1>5. ASSUME NEW c \in P, {b \in P : RungSeq(b) < RungSeq(c)} = {}
      PROVE  IF pinned = Nothing THEN RungSeq(c) = 0 ELSE c = pinned
  <2>1. c \in rungs /\ lo <= RungSeq(c) /\ RungSeq(c) <= hi /\ RungSeq(c) \in Nat
    BY <1>1, <1>4
  <2>2. CASE pinned = Nothing
    <3>1. \A b \in rungs : RungSeq(b) < RungSeq(c) => b \in P
      BY <2>1, <2>2, <1>1, <1>3, <1>4
    <3>2. {b \in rungs : RungSeq(b) < RungSeq(c)} = {}
      BY <3>1, <1>5
    <3> QED
      BY <3>2, <2>1, <2>2, LowestRung
  <2>3. CASE pinned # Nothing
    <3>1. pinned \in rungs /\ lo = RungSeq(pinned)
      BY <2>3, <1>2 DEF lo
    <3>2. ~(RungSeq(pinned) < RungSeq(c))
      BY <3>1, <2>1, <1>1, <1>3, <1>4, <1>5
    <3>3. RungSeq(pinned) = RungSeq(c)
      BY <3>1, <3>2, <2>1, <1>1
    <3> QED
      BY <3>1, <3>3, <2>1, <2>3, <1>1
  <2> QED
    BY <2>2, <2>3
<1>6. ASSUME NEW c \in P, NEW x \in P, RungSeq(x) < RungSeq(c)
      PROVE  /\ Front(c) \in P /\ RungSeq(Front(c)) < RungSeq(c)
             /\ \A b \in P : RungSeq(b) < RungSeq(c) => RungSeq(b) <= RungSeq(Front(c))
  <2> DEFINE f == Front(c)
  <2>1. c \in rungs /\ x \in rungs /\ lo <= RungSeq(x) /\ RungSeq(c) <= hi
    BY <1>4
  <2>2. /\ f \in rungs /\ RungSeq(f) < RungSeq(c)
        /\ \A a \in rungs : RungSeq(a) < RungSeq(c) => RungSeq(a) <= RungSeq(f)
    BY <2>1, <1>6, RungBelow
  <2> HIDE DEF f
  <2>3. RungSeq(x) <= RungSeq(f) /\ RungSeq(x) \in Nat /\ RungSeq(f) \in Nat /\ RungSeq(c) \in Nat
    BY <2>1, <2>2, <1>1, <1>6
  <2>4. lo <= RungSeq(f) /\ RungSeq(f) <= hi
    BY <2>1, <2>2, <2>3, <1>3
  <2>5. f \in P
    BY <2>2, <2>4, <1>4
  <2> QED
    BY <2>2, <2>5, <1>4 DEF f
<1>7. \A b, c \in P : RungSeq(b) = RungSeq(c) => b = c
  BY <1>1, <1>4
<1>8. VerifyLadder(P, pinned)
  BY <1>5, <1>6, <1>7 DEF VerifyLadder
<1> QED
  BY <1>8 DEF P

\* So does the whole.
LEMMA LadderAlwaysVerifies ==
  ASSUME SyncTypes, RungsHold, NEW d \in Device
  PROVE  LadderVerifies(d)
<1>1. /\ \A b \in rungs : RungSeq(b) \in Nat /\ RungSeq(b) <= RungSeq(Crown)
      /\ cpPin[d] \in rungs \cup {Nothing}
  BY LadderIs DEF RungsHold, SyncTypes
<1>2. Ladder(d) = {} => cpPin[d] = Nothing
  <2>1. cpPin[d] \in rungs => RungSeq(cpPin[d]) >= RungSeq(cpPin[d])
    BY <1>1
  <2> QED
    BY <2>1, <1>1 DEF Ladder
<1>3. CASE rungs = {}
  BY <1>2, <1>3 DEF LadderVerifies, VerifyLadder, Ladder
<1>4. CASE rungs # {}
  <2>1. Crown \in rungs
    BY <1>4, BelowIs DEF RungsHold
  <2>2. RungSeq(Crown) \in Int
    BY <2>1, <1>1
  <2>3. {c \in Ladder(d) : RungSeq(c) <= RungSeq(Crown)} = Ladder(d)
    BY <1>1 DEF Ladder
  <2> QED
    BY <2>2, <2>3, <1>2, PartVerifies DEF LadderVerifies
<1> QED
  BY <1>3, <1>4

\* What is fetched hangs together, wherever it starts and ends.
LEMMA FetchLinked ==
  ASSUME MainHolds, AltHolds, NEW from \in Int
  PROVE  Linked(Fetch(from))
<1> DEFINE h == SlotHead
           H == {r \in Below(h) : from <= Seqno(r)}
           Under(r) == {q \in H : Seqno(q) < Seqno(r)}
<1>1. Fetch(from) = {r \in H : Cardinality(Under(r)) < Budget}
  BY HistoryIs DEF Fetch
<1>2. h \in Seq(Signing) /\ Len(h) \in Nat
  BY HeadIs, LenProperties
<1>3. IsFiniteSet(Below(h)) /\ \A q \in Below(h) : Len(q) \in 1 .. Len(h) /\ q \in Seq(Signing) /\ q # <<>> /\ q = SubSeq(h, 1, Len(q))
  BY <1>2, BelowSize, BelowIs
<1>4. Budget \in Int
  BY SyncAssumption DEF Budget
<1> HIDE DEF h
<1>5. ASSUME NEW r \in Fetch(from), NEW q \in Fetch(from), ~(Seqno(r) <= Seqno(q))
      PROVE  Front(r) \in Fetch(from)
  <2> DEFINE f == Front(r)  n == Len(r)
  <2>1. r \in H /\ q \in H /\ Cardinality(Under(r)) < Budget
    BY <1>1
  <2>2. n \in 1 .. Len(h) /\ Len(q) \in 1 .. Len(h) /\ r = SubSeq(h, 1, n) /\ r \in Seq(Signing) /\ r # <<>>
    BY <2>1, <1>3
  <2>3. Len(q) < n /\ from <= Len(q) - 1
    BY <2>1, <2>2, <1>5 DEF Seqno
  <2>4. f = SubSeq(r, 1, n - 1)
    BY <2>2, FrontIs
  <2>5. f = SubSeq(h, 1, n - 1)
    <3>1. n \in 0 .. Len(h) /\ n - 1 \in 0 .. n
      BY <2>2, <1>2
    <3>2. SubSeq(SubSeq(h, 1, n), 1, n - 1) = SubSeq(h, 1, n - 1)
      BY <3>1, <1>2, UptoUpto
    <3> QED
      BY <3>2, <2>2, <2>4
  <2>6. n - 1 \in 1 .. Len(h)
    BY <2>2, <2>3, <1>2
  <2>7. f \in Below(h) /\ Len(f) = n - 1
    BY <2>5, <2>6, <1>2, BelowIs
  <2> HIDE DEF f, n
  <2>8. f \in H /\ Seqno(f) < Seqno(r)
    <3>1. Seqno(f) = n - 2 /\ Seqno(r) = n - 1
      BY <2>7, <2>6 DEF Seqno, n
    <3>2. from <= Seqno(f) /\ Seqno(f) < Seqno(r)
      BY <3>1, <2>2, <2>3
    <3> QED
      BY <3>2, <2>7
  <2>9. Under(f) \subseteq Under(r)
    <3>1. \A p \in H : Seqno(p) \in Int
      BY <1>3 DEF Seqno
    <3> QED
      BY <3>1, <2>1, <2>8
  <2>10. IsFiniteSet(Under(r))
    <3>1. Under(r) \subseteq Below(h)
      OBVIOUS
    <3> QED
      BY <3>1, <1>3, FS_Subset
  <2> HIDE DEF Under, H
  <2>11. Cardinality(Under(f)) <= Cardinality(Under(r)) /\ Cardinality(Under(f)) \in Nat /\ Cardinality(Under(r)) \in Nat
    <3>1. IsFiniteSet(Under(f)) /\ Cardinality(Under(f)) <= Cardinality(Under(r))
      BY <2>9, <2>10, FS_Subset
    <3> QED
      BY <3>1, <2>10, FS_CardinalityType
  <2>12. Cardinality(Under(f)) < Budget
    BY <2>1, <2>11, <1>4
  <2> QED
    BY <2>8, <2>12, <1>1 DEF f
<1> QED
  BY <1>5 DEF Linked

\* No memory of an honest history is contradicted by it.
LEMMA HonestMemories ==
  ASSUME SyncInv, hostility = {}, NEW d \in Device, NEW w \in BOOLEAN
  PROVE  NotRolledBack(d, w) /\ MemoriesHold(d, w)
<1> DEFINE h == SlotHead
<1>1. SyncTypes /\ MainHolds /\ AltHolds /\ RungsHold /\ HonestHolds
  BY DEF SyncInv
<1>2. main = Below(h) /\ h \in Seq(Signing) /\ Len(h) \in Nat
  BY <1>1, HonestIs, HeadIs, LenProperties
<1>3. \A q \in Below(h) : Len(q) \in 1 .. Len(h) /\ q \in Seq(Signing) /\ q # <<>> /\ q = SubSeq(h, 1, Len(q))
  BY <1>2, BelowIs
<1>4. \A m \in Memories(d, w) : m \in Below(h)
  BY <1>1, <1>2 DEF HonestHolds, Memories, Relayed
<1>5. Chain(d, w) \subseteq Below(h)
  BY <1>1, FetchBelow DEF Chain
<1>6. \A c \in Ladder(d) : Last(c) \in Below(h) /\ RungSeq(c) = Seqno(Last(c))
  <2>1. SUFFICES ASSUME NEW c \in rungs PROVE Last(c) \in Below(h) /\ RungSeq(c) = Seqno(Last(c))
    BY DEF Ladder
  <2> DEFINE k == Crown
  <2>2. k \in Seq(SignedRecord) /\ rungs = Below(k) /\ Len(k) \in Nat /\ DOMAIN k = 1 .. Len(k)
    BY <1>1, LenProperties DEF RungsHold
  <2>3. c # <<>> /\ Len(c) \in 1 .. Len(k) /\ c = SubSeq(k, 1, Len(c))
    BY <2>2, BelowIs
  <2>4. SubSeq(k, 1, Len(c))[Len(c)] = k[Len(c)]
    <3>1. Len(c) \in 0 .. Len(k) /\ Len(c) \in 1 .. Len(c)
      BY <2>2, <2>3
    <3> QED
      BY <3>1, <2>2, Upto
  <2>5. Last(c) = k[Len(c)]
    BY <2>3, <2>4 DEF Last
  <2>6. k[Len(c)] \in main
    BY <2>2, <2>3, <1>1 DEF HonestHolds
  <2> QED
    BY <2>3, <2>5, <2>6, <1>2 DEF RungSeq, Nothing
<1> HIDE DEF h
<1>7. \A p, q \in Below(h) : Seqno(p) = Seqno(q) => p = q
  <2>1. SUFFICES ASSUME NEW p \in Below(h), NEW q \in Below(h), Seqno(p) = Seqno(q) PROVE p = q
    OBVIOUS
  <2>2. Len(p) = Len(q)
    BY <2>1, <1>2, <1>3 DEF Seqno
  <2> QED
    BY <2>2, <1>2, BelowOnce
<1>8. ASSUME NEW m \in Below(h), NEW r \in Below(h), Seqno(r) = Seqno(m) + 1 PROVE Front(r) = m
  <2>1. Len(r) = Len(m) + 1 /\ Len(r) \in 1 .. Len(h) /\ Len(m) \in 1 .. Len(h)
    BY <1>2, <1>3, <1>8 DEF Seqno
  <2>2. r = SubSeq(h, 1, Len(r)) /\ m = SubSeq(h, 1, Len(m)) /\ r \in Seq(Signing) /\ r # <<>>
    BY <1>3
  <2>3. Front(r) = SubSeq(r, 1, Len(r) - 1)
    BY <2>2, FrontIs
  <2>4. SubSeq(SubSeq(h, 1, Len(r)), 1, Len(m)) = SubSeq(h, 1, Len(m))
    <3>1. Len(r) \in 0 .. Len(h) /\ Len(m) \in 0 .. Len(r)
      BY <2>1, <1>2
    <3> QED
      BY <3>1, <1>2, UptoUpto
  <2>5. Len(r) - 1 = Len(m)
    BY <2>1
  <2> QED
    BY <2>2, <2>3, <2>4, <2>5
<1>9. NotRolledBack(d, w)
  <2>1. \A m \in Memories(d, w) : Len(m) - 1 <= Len(h) - 1
    BY <1>2, <1>3, <1>4
  <2> QED
    BY <2>1 DEF NotRolledBack, Seqno, h
<1>10. ASSUME NEW m \in Memories(d, w) PROVE ~Contradicted(d, w, Chain(d, w), m)
  <2>1. m \in Below(h)
    BY <1>4
  <2>2. At(Chain(d, w), Seqno(m)) # {} => m \in At(Chain(d, w), Seqno(m))
    BY <2>1, <1>5, <1>7 DEF At
  <2>3. \A c \in RungAt(d, Seqno(m)) : Last(c) = m
    BY <2>1, <1>6, <1>7 DEF RungAt
  <2>4. \A r \in At(Chain(d, w), Seqno(m) + 1) : Front(r) = m
    BY <2>1, <1>5, <1>8 DEF At
  <2> QED
    BY <2>2, <2>3, <2>4 DEF Contradicted
<1> QED
  BY <1>9, <1>10 DEF MemoriesHold

\* The multiple of k at or below t.
LEMMA DivBounds ==
  ASSUME NEW t \in Nat, NEW k \in Nat \ {0}
  PROVE  (t \div k) * k <= t /\ t < (t \div k) * k + k /\ t \div k \in Nat
OBVIOUS

\* A multiple leaves nothing over.
LEMMA TimesMod ==
  ASSUME NEW n \in Nat, NEW k \in Nat \ {0}
  PROVE  (n * k) % k = 0 /\ n * k \in Nat
OBVIOUS

\* Multiples keep the order.
LEMMA TimesMono ==
  ASSUME NEW m \in Int, NEW n \in Int, NEW k \in Nat \ {0}, m <= n
  PROVE  m * k <= n * k
OBVIOUS

\* And are different.
LEMMA TimesOnce ==
  ASSUME NEW m \in Int, NEW n \in Int, NEW k \in Nat \ {0}, m * k = n * k
  PROVE  m = n
OBVIOUS

\* A sum is multiplied term by term.
LEMMA TimesPlus ==
  ASSUME NEW m \in Int, NEW n \in Int, NEW k \in Nat \ {0}
  PROVE  (m + n) * k = m * k + n * k
OBVIOUS

\* Whole pages that hold at least n.
LEMMA PagesCover ==
  ASSUME NEW n \in Nat, NEW k \in Nat \ {0}
  PROVE  ((n + k - 1) \div k) * k >= n
OBVIOUS

\* A walk that does not arrive is of a gap of RetainN records or more.
LEMMA FarBehind ==
  ASSUME MainHolds, AltHolds, SlotHead # Nothing, NEW from \in Nat, from <= Seqno(SlotHead),
         SlotHead \notin Fetch(from)
  PROVE  Seqno(SlotHead) - from >= RetainN
<1> DEFINE h == SlotHead
           H == {r \in Below(h) : from <= Seqno(r)}
           Under == {q \in H : Seqno(q) < Seqno(h)}
           D == from + 1 .. Len(h) - 1
           g == [i \in D |-> SubSeq(h, 1, i)]
<1>1. h \in Seq(Signing) /\ Len(h) \in Nat \ {0} /\ h \in Below(h)
  BY HeadIs, BelowIs, EmptySeq DEF Nothing
<1>2. Fetch(from) = {r \in H : Cardinality({q \in H : Seqno(q) < Seqno(r)}) < Budget}
  BY HistoryIs DEF Fetch
<1> HIDE DEF h
<1>3. ~(Cardinality(Under) < Budget)
  <2>1. h \in H
    BY <1>1 DEF h
  <2> QED
    BY <2>1, <1>2 DEF h
<1>4. D \subseteq 1 .. Len(h)
  BY <1>1
<1>5. \A i \in D : SubSeq(h, 1, i) \in Below(h) /\ Len(SubSeq(h, 1, i)) = i
  BY <1>1, <1>4, BelowIs
<1>6. g \in Bijection(D, Under)
  <2>1. g \in [D -> Under]
    <3>1. SUFFICES ASSUME NEW i \in D PROVE SubSeq(h, 1, i) \in Under
      OBVIOUS
    <3>2. Seqno(SubSeq(h, 1, i)) = i - 1 /\ Seqno(h) = Len(h) - 1
      BY <1>5 DEF Seqno
    <3>3. from <= i - 1 /\ i - 1 < Len(h) - 1
      BY <1>1
    <3> QED
      BY <3>2, <3>3, <1>5
  <2>2. \A i, j \in D : g[i] = g[j] => i = j
    <3>1. \A i \in D : Len(g[i]) = i
      BY <1>5
    <3> QED
      BY <3>1
  <2>3. ASSUME NEW q \in Under PROVE \E i \in D : g[i] = q
    <3>1. Len(q) \in 1 .. Len(h) /\ q = SubSeq(h, 1, Len(q))
      BY <1>1, BelowIs
    <3>2. Len(q) \in D
      <4>1. from <= Len(q) - 1 /\ Len(q) - 1 < Len(h) - 1
        BY DEF Seqno
      <4> QED
        BY <4>1, <3>1, <1>1
    <3> QED
      BY <3>1, <3>2
  <2> QED
    BY <2>1, <2>2, <2>3 DEF Bijection, Injection, Surjection, IsInjective
<1>7. IsFiniteSet(D) /\ Cardinality(D) = Len(h) - 1 - from
  <2>1. from + 1 \in Int /\ Len(h) - 1 \in Int /\ from <= Len(h) - 1
    BY <1>1 DEF h, Seqno
  <2>2. IsFiniteSet(D) /\ Cardinality(D) = IF from + 1 > Len(h) - 1 THEN 0 ELSE Len(h) - 1 - (from + 1) + 1
    BY <2>1, FS_Interval
  <2> QED
    BY <2>1, <2>2
<1> HIDE DEF D, Under
<1>8. Cardinality(Under) = Len(h) - 1 - from
  BY <1>6, <1>7, FS_Bijection DEF ExistsBijection
<1>9. Budget >= RetainN /\ Budget \in Int /\ RetainN \in Nat
  <2>1. RetainN \in Nat /\ Page \in Nat \ {0}
    BY SyncAssumption
  <2>2. ((RetainN + Page - 1) \div Page) * Page >= RetainN
    BY <2>1, PagesCover
  <2> QED
    BY <2>1, <2>2 DEF Budget
<1> QED
  BY <1>1, <1>3, <1>8, <1>9 DEF h, Seqno

\* The crown is close to the head: between them there are at least as many
\* records that lost their rung as intervals.
LEMMA CrownIsNear ==
  ASSUME SyncInv, hostility = {}, SlotHead # Nothing, rungs # {}, (RungsLost + 1) * Interval <= RetainN
  PROVE  /\ Seqno(SlotHead) - RungSeq(Crown) < RetainN
         /\ RungSeq(Crown) <= Seqno(SlotHead) /\ RungSeq(Crown) \in Nat /\ Crown \in rungs
<1> DEFINE h == SlotHead  t == RungSeq(Crown)  k == Interval
           lost == {r \in main : Seqno(r) % Interval = 0 /\ \A c \in rungs : Last(c) # r}
           n == Cardinality(lost)
<1>1. SyncTypes /\ MainHolds /\ AltHolds /\ RungsHold /\ HonestHolds
  BY DEF SyncInv
<1>2. main = Below(h) /\ h \in Seq(Signing) /\ Len(h) \in Nat \ {0}
  BY <1>1, HonestIs, HeadIs, EmptySeq DEF Nothing
<1>3. k \in Nat \ {0} /\ RetainN \in Nat
  BY SyncAssumption
<1>4. /\ Crown \in rungs /\ t \in Nat
      /\ \A c \in rungs : RungSeq(c) \in Nat /\ RungSeq(c) <= t /\ RungSeq(c) = Seqno(Last(c))
  <2>1. Crown \in Seq(SignedRecord) /\ rungs = Below(Crown) /\ Climbing(Crown)
    BY <1>1 DEF RungsHold
  <2>2. Crown \in rungs /\ \A c \in rungs : c # <<>>
    BY <2>1, BelowIs
  <2>3. \A c \in rungs : RungSeq(c) = Seqno(Last(c))
    BY <2>2 DEF RungSeq, Nothing
  <2> QED
    BY <2>1, <2>2, <2>3, LadderIs
<1>5. t <= Seqno(h)
  <2> DEFINE c == Crown
  <2>1. c \in Seq(SignedRecord) /\ rungs = Below(c)
    BY <1>1 DEF RungsHold
  <2>2. c # <<>>
    BY <2>1, BelowIs
  <2>3. Len(c) \in Nat \ {0} /\ DOMAIN c = 1 .. Len(c)
    BY <2>1, <2>2, EmptySeq, LenProperties
  <2>4. Last(c) \in main
    <3>1. Len(c) \in DOMAIN c
      BY <2>3
    <3> QED
      BY <3>1, <1>1 DEF HonestHolds, Last
  <2>5. Len(Last(c)) \in 1 .. Len(h)
    BY <2>4, <1>2, BelowIs
  <2>6. t = Len(Last(c)) - 1
    BY <2>2 DEF RungSeq, Nothing, Seqno
  <2> QED
    BY <2>5, <2>6, <1>2 DEF Seqno
<1>6. IsFiniteSet(lost) /\ n \in Nat /\ n = RungsLost
  <2>1. IsFiniteSet(main)
    BY <1>2, BelowSize
  <2>2. lost \subseteq main
    OBVIOUS
  <2>3. IsFiniteSet(lost)
    BY <2>1, <2>2, FS_Subset
  <2> QED
    BY <2>3, FS_CardinalityType DEF RungsLost
<1>7. ASSUME Seqno(h) - t >= RetainN PROVE FALSE
  <2> DEFINE b == t \div k
             at == [j \in 1 .. n + 1 |-> (b + j) * k]
             f == [j \in 1 .. n + 1 |-> SubSeq(h, 1, at[j] + 1)]
  <2>1. b \in Nat /\ b * k <= t /\ t < b * k + k
    BY <1>3, <1>4, DivBounds
  <2> HIDE DEF b, n, t, k, lost, h
  <2>2. ASSUME NEW j \in 1 .. n + 1
        PROVE  at[j] \in Nat /\ t < at[j] /\ at[j] <= Seqno(h) /\ at[j] % k = 0
    <3> DEFINE x == (b + j) * k
    <3>1. at[j] = x
      OBVIOUS
    <3>2. x % k = 0 /\ x \in Nat
      <4>1. b + j \in Nat
        BY <2>1, <1>6
      <4> QED
        BY <4>1, <1>3, TimesMod
    <3>3. x >= b * k + k
      <4>1. (b + 1) * k <= (b + j) * k
        <5>1. b + 1 \in Int /\ b + j \in Int /\ b + 1 <= b + j
          BY <2>1, <1>6
        <5> QED
          BY <5>1, <1>3, TimesMono
      <4>2. (b + 1) * k = b * k + 1 * k
        BY <2>1, <1>3, TimesPlus
      <4> QED
        BY <4>1, <4>2, <2>1, <1>3
    <3>4. x <= b * k + (n + 1) * k
      <4>1. b + j \in Int /\ n + 1 \in Int /\ b + (n + 1) \in Int /\ b + j <= b + (n + 1)
        BY <2>1, <1>6
      <4>2. (b + j) * k <= (b + (n + 1)) * k
        BY <4>1, <1>3, TimesMono
      <4>3. (b + (n + 1)) * k = b * k + (n + 1) * k
        BY <4>1, <2>1, <1>3, TimesPlus
      <4> QED
        BY <4>2, <4>3
    <3>5. (n + 1) * k <= RetainN
      BY <1>6 DEF k
    <3>6. b * k \in Nat /\ (n + 1) * k \in Nat
      BY <2>1, <1>3, <1>6, TimesMod
    <3> HIDE DEF x
    <3>7. Seqno(h) \in Int
      BY <1>2 DEF Seqno
    <3>8. t < x
      BY <3>2, <3>3, <3>6, <2>1, <1>3, <1>4
    <3>9. x <= Seqno(h)
      <4> DEFINE u == b * k  v == (n + 1) * k  s == Seqno(h)
      <4>1. u \in Nat /\ v \in Nat /\ s \in Int /\ x \in Nat /\ x <= u + v /\ u <= t /\ v <= RetainN /\ s - t >= RetainN
        BY <3>2, <3>4, <3>5, <3>6, <3>7, <2>1, <1>7
      <4> HIDE DEF u, v, s
      <4>2. x <= s
        BY <4>1, <1>3, <1>4
      <4> QED
        BY <4>2 DEF s
    <3> QED
      BY <3>1, <3>2, <3>8, <3>9
  <2>3. \A j \in 1 .. n + 1 : at[j] + 1 \in 1 .. Len(h)
    <3>1. Seqno(h) = Len(h) - 1
      BY DEF Seqno
    <3> QED
      BY <2>2, <3>1, <1>2
  <2> HIDE DEF at
  <2>4. \A j \in 1 .. n + 1 : f[j] \in main /\ Len(f[j]) = at[j] + 1
    BY <2>3, <1>2, BelowIs
  <2>5. f \in [1 .. n + 1 -> lost]
    <3>1. SUFFICES ASSUME NEW j \in 1 .. n + 1 PROVE f[j] \in lost
      OBVIOUS
    <3>2. Seqno(f[j]) = at[j]
      BY <2>2, <2>4 DEF Seqno
    <3>3. f[j] \in main /\ Seqno(f[j]) % k = 0
      BY <3>2, <2>2, <2>4
    <3>4. \A c \in rungs : Last(c) # f[j]
      <4>1. SUFFICES ASSUME NEW c \in rungs, Last(c) = f[j] PROVE FALSE
        OBVIOUS
      <4>2. at[j] <= t /\ at[j] \in Nat /\ t < at[j]
        BY <4>1, <3>2, <2>2, <1>4
      <4> QED
        BY <4>2, <1>4
    <3> QED
      BY <3>3, <3>4 DEF lost, k
  <2>6. \A i, j \in 1 .. n + 1 : f[i] = f[j] => i = j
    <3>1. SUFFICES ASSUME NEW i \in 1 .. n + 1, NEW j \in 1 .. n + 1, f[i] = f[j] PROVE i = j
      OBVIOUS
    <3>2. at[i] = at[j]
      BY <3>1, <2>2, <2>4
    <3>3. (b + i) * k = (b + j) * k /\ b + i \in Int /\ b + j \in Int
      BY <3>2, <2>1, <1>6 DEF at
    <3>4. b + i = b + j
      BY <3>3, <1>3, TimesOnce
    <3> QED
      BY <3>4, <2>1, <1>6
  <2> DEFINE I == 1 .. n + 1
  <2>7. f \in Injection(I, lost)
    BY <2>5, <2>6 DEF Injection, IsInjective
  <2>8. IsFiniteSet(I) /\ Cardinality(I) = n + 1
    BY <1>6, FS_Interval
  <2> HIDE DEF I, f
  <2>9. Cardinality(I) <= n
    <3>1. Cardinality(I) <= Cardinality(lost)
      BY <2>7, <1>6, FS_Injection
    <3> QED
      BY <3>1 DEF n
  <2> QED
    BY <2>8, <2>9, <1>6
<1> QED
  <2>1. t \in Nat /\ Seqno(h) \in Int
    BY <1>2, <1>4 DEF Seqno
  <2>2. Seqno(h) - t < RetainN
    BY <2>1, <1>3, <1>7
  <2> QED
    BY <2>2, <1>4, <1>5

\* An honest peer is accepted by every device, with or without the witness
\* node, whichever writes the syncs before lost, while the ladder is dense
\* enough (sync's checks and plan_walk).
THEOREM HonestAccepted == SyncSpec => []HonestPeerIsAccepted
<1>1. SyncInv => HonestPeerIsAccepted
  <2>1. SUFFICES ASSUME SyncInv, hostility = {}, main # {} => rungs # {},
                        (RungsLost + 1) * Interval <= RetainN,
                        NEW d \in Device, NEW w \in BOOLEAN
                 PROVE  HeadAccepted(d, w)
    BY DEF HonestPeerIsAccepted
  <2>2. SyncTypes /\ MainHolds /\ AltHolds /\ RungsHold
    BY <2>1 DEF SyncInv
  <2>3. NotRolledBack(d, w) /\ MemoriesHold(d, w)
    BY <2>1, HonestMemories
  <2>4. LadderVerifies(d)
    BY <2>2, LadderAlwaysVerifies
  <2>5. ASSUME SlotHead # Nothing PROVE WalkVerifies(d, w)
    <3> DEFINE from == WalkStart(d, w)  h == SlotHead
    <3>1. from \in Nat /\ from <= Seqno(h)
      BY <2>2, <2>5, StartIs
    <3>2. h \in Seq(Signing) /\ Len(h) \in Nat \ {0} /\ h \in Below(h)
      BY <2>2, <2>5, HeadIs, BelowIs, EmptySeq DEF Nothing
    <3>3. CASE Arrived(d, w)
      <4>1. Chain(d, w) = Fetch(from) /\ h \in Fetch(from)
        BY <3>3 DEF Chain, Arrived
      <4>2. Linked(Fetch(from))
        BY <3>1, <2>2, FetchLinked
      <4> QED
        BY <4>1, <4>2, <3>3 DEF WalkVerifies
    <3>4. CASE ~Arrived(d, w)
      <4>1. Seqno(h) - from >= RetainN
        BY <3>1, <3>4, <2>2, <2>5, FarBehind DEF Arrived
      <4>2. rungs # {}
        <5>1. main = Below(h)
          BY <2>1, <2>2, HonestIs
        <5> QED
          BY <5>1, <3>2, <2>1
      <4>3. /\ Seqno(h) - RungSeq(Crown) < RetainN
            /\ RungSeq(Crown) <= Seqno(h) /\ RungSeq(Crown) \in Nat /\ Crown \in rungs
        BY <4>2, <2>1, <2>5, CrownIsNear
      <4>4. Crown \in Ladder(d) /\ Highest(Ladder(d)) = Crown
        <5>1. TopRung(d) = Crown
          BY <2>2, TopRungIs
        <5>2. Crown # Nothing
          <6>1. Crown # <<>>
            BY <4>3, <2>2, BelowIs DEF RungsHold
          <6> QED
            BY <6>1 DEF Nothing
        <5>3. Ladder(d) # {} /\ Highest(Ladder(d)) = Crown
          BY <5>1, <5>2 DEF TopRung
        <5>4. RungSeq(Crown) >= RungSeq(cpPin[d])
          <6>1. cpPin[d] \in rungs \cup {Nothing} /\ RungSeq(Nothing) = -1
            BY <2>2 DEF SyncTypes, RungSeq
          <6>2. \A c \in rungs : RungSeq(c) \in Nat /\ RungSeq(c) <= RungSeq(Crown)
            BY <2>2, LadderIs DEF RungsHold
          <6> QED
            BY <6>1, <6>2, <4>3
        <5> QED
          BY <5>3, <5>4, <4>3 DEF Ladder
      <4>5. from <= RungSeq(Crown)
        <5>1. Seqno(h) \in Int /\ RetainN \in Nat
          BY <3>2, SyncAssumption DEF Seqno
        <5> QED
          BY <5>1, <4>1, <4>3, <3>1
      <4>6. Crown \in Usable(d, w)
        BY <4>3, <4>4, <4>5 DEF Usable
      <4> DEFINE top == Climbed(d, w)
      <4>7. top = Crown
        <5>1. Usable(d, w) \subseteq rungs
          BY DEF Usable, Ladder
        <5>2. /\ \A c \in rungs : RungSeq(c) \in Nat /\ RungSeq(c) <= RungSeq(Crown)
              /\ \A c1, c2 \in rungs : RungSeq(c1) = RungSeq(c2) => c1 = c2
          BY <2>2, LadderIs DEF RungsHold
        <5>3. ASSUME NEW b \in Usable(d, w), \A a \in Usable(d, w) : RungSeq(a) <= RungSeq(b) PROVE b = Crown
          <6>1. RungSeq(Crown) <= RungSeq(b) /\ RungSeq(b) <= RungSeq(Crown) /\ RungSeq(b) \in Nat
            BY <5>1, <5>2, <5>3, <4>6
          <6>2. RungSeq(b) = RungSeq(Crown)
            BY <6>1, <4>3
          <6> QED
            BY <6>2, <5>1, <5>2, <4>3
        <5> QED
          BY <5>1, <5>2, <5>3, <4>6 DEF Climbed, Highest
      <4>8. VerifyLadder({c \in Ladder(d) : RungSeq(c) <= RungSeq(top)}, cpPin[d])
        <5>1. RungSeq(top) \in Int
          BY <4>7, <4>3
        <5> HIDE DEF top
        <5> QED
          BY <5>1, <2>2, PartVerifies
      <4>9. Chain(d, w) = Fetch(RungSeq(Crown))
        BY <4>7, <3>4 DEF Chain
      <4>10. Linked(Chain(d, w))
        BY <4>9, <4>3, <2>2, FetchLinked
      <4>11. h \in Fetch(RungSeq(Crown))
        <5>1. SUFFICES ASSUME h \notin Fetch(RungSeq(Crown)) PROVE FALSE
          OBVIOUS
        <5>2. Seqno(h) - RungSeq(Crown) >= RetainN
          BY <5>1, <4>3, <2>2, <2>5, FarBehind
        <5>3. Seqno(h) \in Int /\ RetainN \in Nat
          BY <3>2, SyncAssumption DEF Seqno
        <5> QED
          BY <5>2, <5>3, <4>3
      <4>12. Last(Crown) \in Chain(d, w)
        <5>1. Chain(d, w) = {r \in Below(h) : RungSeq(Crown) <= Seqno(r)}
          <6>1. RungSeq(Crown) \in Int
            BY <4>3
          <6> QED
            BY <6>1, <4>9, <4>11, <2>2, FetchAll
        <5>2. Crown # <<>> /\ Crown \in Seq(SignedRecord)
          BY <4>3, <2>2, BelowIs DEF RungsHold
        <5>3. Len(Crown) \in DOMAIN Crown
          BY <5>2, EmptySeq, LenProperties
        <5>4. Last(Crown) \in main
          BY <5>3, <2>1 DEF SyncInv, HonestHolds, Last
        <5>5. main = Below(h)
          BY <2>1, <2>2, HonestIs
        <5>6. RungSeq(Crown) = Seqno(Last(Crown))
          BY <5>2 DEF RungSeq, Nothing
        <5> QED
          BY <5>1, <5>4, <5>5, <5>6, <4>3
      <4> QED
        BY <4>1, <4>6, <4>7, <4>8, <4>9, <4>10, <4>11, <4>12 DEF WalkVerifies
    <3> QED
      BY <3>3, <3>4
  <2> QED
    BY <2>1, <2>3, <2>4, <2>5 DEF HeadAccepted, LadderAccepted
<1> QED
  BY <1>1, SyncInductive, PTL

-----------------------------------------------------------------------------
(* The histories an honest peer keeps: SlotPeer. *)

USE RecordAssumption, HandoffAssumption

\* More handoffs admit no fewer records.
LEMMA ExtendsMonotone ==
  ASSUME NEW h, NEW G, NEW H, G \subseteq H, NEW r, Extends(h, G, r)
  PROVE  Extends(h, H, r)
BY DEF Extends, Succeeds, Authorises

\* An admitted record has its own sequence number as its place.
LEMMA ExtendsPlace ==
  ASSUME NEW h \in History, NEW G, NEW r \in Record, Extends(h, G, r)
  PROVE  /\ r.seq \in Seqs
         /\ r # None
         /\ h[r.seq] = None
         /\ \A s \in Seqs : s # r.seq /\ h[s] = None => s > r.seq
         /\ [h EXCEPT ![r.seq] = r] \in History
BY DEF Extends, History, Seqs

\* Initially nothing is served and nothing is on disk.
LEMMA InitIndInv == Init => IndInv
BY DEF Init, IndInv, TypeOK, FilesAreServed, TmpIsHarmless, ServedIsDurable,
       HistoryIsOneChain, History

\* Adding an admissible record keeps the history a chain.
LEMMA ChainGrows ==
  ASSUME TypeOK, HistoryIsOneChain, NEW r \in Record,
         Extends(slots, handoffs', r),
         handoffs \subseteq handoffs',
         slots' = [slots EXCEPT ![r.seq] = r]
  PROVE  HistoryIsOneChain'
<1> USE DEF TypeOK, HistoryIsOneChain
<1>1. /\ r.seq \in Seqs /\ r # None /\ slots[r.seq] = None
      /\ \A s \in Seqs : slots'[s] = IF s = r.seq THEN r ELSE slots[s]
  BY ExtendsPlace DEF History
<1>2. ASSUME NEW s \in Seqs, slots'[s] # None
      PROVE  /\ slots'[s].seq = s
             /\ slots'[s].writer \in Roster
             /\ GenesisRule(slots'[s])
             /\ s > 0 => slots'[s - 1] # None
                         /\ Succeeds(handoffs', slots'[s - 1], slots'[s])
  <2>1. CASE s = r.seq
    BY <1>1, <2>1 DEF Extends, Seqs
  <2>2. CASE s # r.seq
    <3>1. slots[s] # None /\ slots'[s] = slots[s] /\ s < r.seq
      BY <1>1, <1>2, <2>2 DEF Extends
    <3>2. s > 0 => s - 1 \in Seqs /\ slots'[s - 1] = slots[s - 1]
      BY <1>1, <3>1 DEF Seqs
    <3> QED
      BY <3>1, <3>2 DEF Succeeds, Authorises
  <2> QED
    BY <2>1, <2>2
<1> QED
  BY <1>2

\* A history that is left alone stays a chain under more handoffs.
LEMMA ChainStays ==
  ASSUME HistoryIsOneChain, UNCHANGED slots, handoffs \subseteq handoffs'
  PROVE  HistoryIsOneChain'
BY DEF HistoryIsOneChain, Succeeds, Authorises

-----------------------------------------------------------------------------
\* The history is left alone, or one admissible record is added to it.
Grows ==
  \/ slots' = slots
  \/ \E r \in Record : /\ Extends(slots, handoffs', r)
                       /\ slots' = [slots EXCEPT ![r.seq] = r]

\* What a step guarantees besides the invariant.
StepOK == Grows /\ handoffs \subseteq handoffs' /\ handoffs' \subseteq Handoff

\* Reading back a disk that holds all that is served, and besides it at most
\* records that may come next, adds at most one of those.
LEMMA LoadStep ==
  ASSUME IndInv, Load,
         file' \in History, tmp' \in History,
         handoffsDisk' \in SUBSET Handoff, handoffsDisk \subseteq handoffsDisk',
         \A s \in Seqs : file'[s] # None => tmp'[s] = None,
         \A s \in Seqs : slots[s] # None => slots[s] \in {file'[s], tmp'[s]},
         \A s \in Seqs : \A x \in {file'[s], tmp'[s]} :
            slots[s] = None /\ x # None => x.seq = s /\ Extends(slots, handoffs, x)
  PROVE  IndInv' /\ StepOK
<1> USE DEF IndInv
<1>1. /\ slots \in History
      /\ handoffs \subseteq handoffs' /\ handoffs' = handoffsDisk'
      /\ handoffs' \subseteq Handoff
  BY DEF TypeOK, Load, ServedIsDurable
<1>2. slots' = [s \in Seqs |-> IF file'[s] = None THEN tmp'[s] ELSE file'[s]]
  BY DEF Load
<1>3. slots' \in History
  BY <1>2 DEF History
<1>4. \A s \in Seqs : slots[s] # None => slots'[s] = slots[s]
  BY <1>2
<1>5. ASSUME NEW s \in Seqs, slots[s] = None, slots'[s] # None
      PROVE  /\ slots'[s] \in Record
             /\ slots'[s].seq = s
             /\ Extends(slots, handoffs', slots'[s])
             /\ slots' = [slots EXCEPT ![s] = slots'[s]]
  <2> DEFINE x == slots'[s]
  <2>1. x \in Record /\ x \in {file'[s], tmp'[s]}
    BY <1>2, <1>3, <1>5 DEF History
  <2>2. x.seq = s /\ Extends(slots, handoffs, x)
    BY <1>5, <2>1
  <2>3. Extends(slots, handoffs', x)
    BY <1>1, <2>2, ExtendsMonotone
  <2>4. ASSUME NEW t \in Seqs, t # s
        PROVE  slots'[t] = slots[t]
    <3>1. CASE slots[t] # None
      BY <1>4, <3>1
    <3>2. CASE slots[t] = None
      <4>1. SUFFICES ASSUME slots'[t] # None PROVE FALSE
        BY <3>2
      <4>2. slots'[t].seq = t /\ Extends(slots, handoffs, slots'[t])
        BY <1>2, <3>2, <4>1
      <4>3. ~(t < s) /\ ~(s < t)
        BY <1>5, <2>2, <3>2, <4>2 DEF Extends
      <4> QED
        BY <2>4, <4>3 DEF Seqs
    <3> QED
      BY <3>1, <3>2
  <2>5. slots' = [slots EXCEPT ![s] = x]
    BY <1>1, <1>3, <2>4 DEF History
  <2> QED
    BY <2>1, <2>2, <2>3, <2>5
<1>6. Grows
  <2>1. CASE \A s \in Seqs : slots[s] = None => slots'[s] = None
    <3>1. \A s \in Seqs : slots'[s] = slots[s]
      BY <1>4, <2>1
    <3> QED
      BY <1>1, <1>3, <3>1 DEF Grows, History
  <2>2. CASE \E s \in Seqs : slots[s] = None /\ slots'[s] # None
    <3>1. PICK s \in Seqs : slots[s] = None /\ slots'[s] # None
      BY <2>2
    <3> QED
      BY <1>5, <3>1 DEF Grows
  <2> QED
    BY <2>1, <2>2
<1>7. TypeOK'
  BY <1>1, <1>3 DEF TypeOK
<1>8. FilesAreServed' /\ TmpIsHarmless' /\ ServedIsDurable'
  BY <1>1, <1>2, <1>3 DEF FilesAreServed, TmpIsHarmless, ServedIsDurable, History
<1>9. HistoryIsOneChain'
  BY <1>1, <1>6, ChainGrows, ChainStays DEF Grows
<1> QED
  BY <1>1, <1>6, <1>7, <1>8, <1>9 DEF StepOK

\* A publication, complete or not, leaves a disk with everything served and
\* besides it at most records that may come next.
LEMMA DiskAfterPersist ==
  ASSUME IndInv, NEW r \in Record, Extends(slots, handoffs, r),
         PersistSlot(r) \/ PersistSlotFails(r)
  PROVE  /\ file' \in History /\ tmp' \in History
         /\ \A s \in Seqs : file'[s] # None => tmp'[s] = None
         /\ \A s \in Seqs : slots[s] # None => slots[s] \in {file'[s], tmp'[s]}
         /\ \A s \in Seqs : \A x \in {file'[s], tmp'[s]} :
              slots[s] = None /\ x # None =>
                x.seq = s /\ Extends(slots, handoffs, x)
         /\ \A s \in Seqs : slots[s] # None =>
              file'[s] = file[s] /\ tmp'[s] = tmp[s]
<1> USE DEF IndInv
<1>1. /\ slots \in History /\ file \in History /\ tmp \in History
      /\ r.seq \in Seqs /\ r # None /\ slots[r.seq] = None
  BY ExtendsPlace DEF TypeOK
<1>2. /\ \A s \in Seqs : file[s] # None => slots[s] = file[s] /\ tmp[s] = None
      /\ \A s \in Seqs : slots[s] # None => slots[s] \in {file[s], tmp[s]}
      /\ \A s \in Seqs : slots[s] = None /\ tmp[s] # None =>
           tmp[s].seq = s /\ Extends(slots, handoffs, tmp[s])
  BY DEF FilesAreServed, ServedIsDurable, TmpIsHarmless
<1>3. /\ file' \in History /\ tmp' \in History
      /\ file'[r.seq] \in {file[r.seq], r}
      /\ tmp'[r.seq] \in {tmp[r.seq], None, r}
      /\ file'[r.seq] # None => tmp'[r.seq] = None
      /\ \A s \in Seqs : s # r.seq => file'[s] = file[s] /\ tmp'[s] = tmp[s]
  BY <1>1, <1>2 DEF PersistSlot, PersistSlotFails, History
<1> QED
  BY <1>1, <1>2, <1>3

\* A record served from memory and file at once.
LEMMA PublishStep ==
  ASSUME IndInv, NEW r \in Record, PublishSlot(r)
  PROVE  IndInv' /\ StepOK
<1> USE DEF IndInv
<1>1. /\ Extends(slots, handoffs, r) /\ PersistSlot(r)
      /\ slots' = [slots EXCEPT ![r.seq] = r]
      /\ handoffs' = handoffs /\ handoffsDisk' = handoffsDisk
  BY DEF PublishSlot
<1>2. /\ slots \in History /\ file \in History /\ tmp \in History
      /\ r.seq \in Seqs /\ r # None /\ slots[r.seq] = None /\ slots' \in History
  BY <1>1, ExtendsPlace DEF TypeOK
<1>3. /\ file' \in History /\ tmp' \in History
      /\ \A s \in Seqs : file'[s] = IF s = r.seq THEN r ELSE file[s]
      /\ \A s \in Seqs : tmp'[s] = IF s = r.seq THEN None ELSE tmp[s]
      /\ \A s \in Seqs : slots'[s] = IF s = r.seq THEN r ELSE slots[s]
  BY <1>1, <1>2 DEF PersistSlot, History
<1>4. TypeOK'
  BY <1>1, <1>2, <1>3 DEF TypeOK
<1>5. FilesAreServed' /\ ServedIsDurable'
  BY <1>1, <1>3 DEF FilesAreServed, ServedIsDurable
<1>6. TmpIsHarmless'
  <2>1. SUFFICES ASSUME NEW s \in Seqs, s # r.seq, tmp[s] # None
                 PROVE  slots[s] = tmp[s]
    BY <1>3 DEF TmpIsHarmless
  <2>2. CASE slots[s] # tmp[s]
    <3>1. tmp[s].seq = s /\ Extends(slots, handoffs, tmp[s])
      BY <2>1, <2>2 DEF TmpIsHarmless
    <3>2. slots[s] = None
      BY <3>1 DEF Extends, Seqs
    <3>3. ~(r.seq < s) /\ ~(s < r.seq)
      BY <1>1, <1>2, <3>1, <3>2 DEF Extends
    <3> QED
      BY <1>2, <2>1, <3>3 DEF Seqs
  <2> QED
    BY <2>2
<1>7. HistoryIsOneChain'
  BY <1>1, ChainGrows
<1> QED
  BY <1>1, <1>4, <1>5, <1>6, <1>7 DEF StepOK, Grows, TypeOK

\* A write that failed changes only what is next to the head.
LEMMA PublishFailsStep ==
  ASSUME IndInv, NEW r \in Record, PublishSlotFails(r)
  PROVE  IndInv' /\ StepOK
<1> USE DEF IndInv
<1>1. /\ Extends(slots, handoffs, r) /\ PersistSlotFails(r)
      /\ slots' = slots /\ handoffs' = handoffs /\ handoffsDisk' = handoffsDisk
      /\ file' = file
  BY DEF PublishSlotFails, PersistSlotFails
<1>2. /\ file' \in History /\ tmp' \in History
      /\ \A s \in Seqs : file'[s] # None => tmp'[s] = None
      /\ \A s \in Seqs : slots[s] # None => slots[s] \in {file'[s], tmp'[s]}
      /\ \A s \in Seqs : \A x \in {file'[s], tmp'[s]} :
           slots[s] = None /\ x # None => x.seq = s /\ Extends(slots, handoffs, x)
      /\ \A s \in Seqs : slots[s] # None => tmp'[s] = tmp[s]
  BY <1>1, DiskAfterPersist
<1>3. TypeOK' /\ FilesAreServed' /\ ServedIsDurable'
  BY <1>1, <1>2 DEF TypeOK, FilesAreServed, ServedIsDurable
<1>4. TmpIsHarmless'
  BY <1>1, <1>2 DEF TmpIsHarmless
<1>5. HistoryIsOneChain'
  BY <1>1 DEF HistoryIsOneChain
<1> QED
  BY <1>1, <1>3, <1>4, <1>5 DEF StepOK, Grows, TypeOK

\* Handoffs only widen what is admissible.
LEMMA HandoffStep ==
  ASSUME IndInv, NEW h \in Handoff, PublishHandoff(h) \/ PublishHandoffFails(h)
  PROVE  IndInv' /\ StepOK
<1> USE DEF IndInv
<1>1. /\ slots' = slots /\ file' = file /\ tmp' = tmp
      /\ handoffs \subseteq handoffs' /\ handoffs' \subseteq Handoff
      /\ handoffs' \subseteq handoffsDisk' /\ handoffsDisk' \subseteq Handoff
  BY DEF PublishHandoff, PublishHandoffFails, PersistHandoff,
         PersistHandoffFails, TypeOK, ServedIsDurable
<1>2. TypeOK' /\ FilesAreServed' /\ ServedIsDurable'
  BY <1>1 DEF TypeOK, FilesAreServed, ServedIsDurable
<1>3. TmpIsHarmless'
  BY <1>1, ExtendsMonotone DEF TmpIsHarmless
<1>4. HistoryIsOneChain'
  BY <1>1, ChainStays
<1> QED
  BY <1>1, <1>2, <1>3, <1>4 DEF StepOK, Grows

\* A restart, wherever the process died.
LEMMA RestartStep ==
  ASSUME IndInv,
         \/ Restart
         \/ \E r \in Record : CrashInPublishSlot(r)
         \/ \E h \in Handoff : CrashInPublishHandoff(h)
  PROVE  IndInv' /\ StepOK
<1>1. CASE \E r \in Record : CrashInPublishSlot(r)
  <2>1. PICK r \in Record : CrashInPublishSlot(r)
    BY <1>1
  <2>2. /\ Extends(slots, handoffs, r)
        /\ PersistSlot(r) \/ PersistSlotFails(r)
        /\ handoffsDisk' = handoffsDisk /\ Load
    BY <2>1 DEF CrashInPublishSlot
  <2>3. handoffsDisk \in SUBSET Handoff
    BY DEF IndInv, TypeOK
  <2> QED
    BY <2>2, <2>3, DiskAfterPersist, LoadStep
<1>2. CASE Restart \/ \E h \in Handoff : CrashInPublishHandoff(h)
  <2>1. /\ file' = file /\ tmp' = tmp /\ Load
        /\ handoffsDisk' \in SUBSET Handoff /\ handoffsDisk \subseteq handoffsDisk'
    BY <1>2 DEF Restart, CrashInPublishHandoff, PersistHandoffFails, IndInv, TypeOK
  <2>2. /\ file' \in History /\ tmp' \in History
        /\ \A s \in Seqs : file'[s] # None => tmp'[s] = None
        /\ \A s \in Seqs : slots[s] # None => slots[s] \in {file'[s], tmp'[s]}
    BY <2>1 DEF IndInv, TypeOK, FilesAreServed, ServedIsDurable
  <2>3. \A s \in Seqs : \A x \in {file'[s], tmp'[s]} :
           slots[s] = None /\ x # None => x.seq = s /\ Extends(slots, handoffs, x)
    BY <2>1 DEF IndInv, FilesAreServed, TmpIsHarmless
  <2> QED
    BY <2>1, <2>2, <2>3, LoadStep
<1> QED
  BY <1>1, <1>2

\* Every step keeps the invariant and grows the history by at most one record.
LEMMA NextStep ==
  ASSUME IndInv, [Next]_vars
  PROVE  IndInv' /\ StepOK
<1>1. CASE \E r \in Record : PublishSlot(r)
  BY <1>1, PublishStep
<1>2. CASE \E r \in Record : PublishSlotFails(r)
  BY <1>2, PublishFailsStep
<1>3. CASE \E h \in Handoff : PublishHandoff(h) \/ PublishHandoffFails(h)
  BY <1>3, HandoffStep
<1>4. CASE \/ Restart
           \/ \E r \in Record : CrashInPublishSlot(r)
           \/ \E h \in Handoff : CrashInPublishHandoff(h)
  BY <1>4, RestartStep
<1>5. CASE UNCHANGED vars
  BY <1>5 DEF vars, IndInv, TypeOK, FilesAreServed, TmpIsHarmless,
              ServedIsDurable, HistoryIsOneChain, StepOK, Grows, Extends, Succeeds, Authorises
<1> QED
  BY <1>1, <1>2, <1>3, <1>4, <1>5 DEF Next

-----------------------------------------------------------------------------
\* In every behaviour of the peer, disk and memory agree as IndInv says: what
\* is served is on disk, and a .tmp can only become the next head.
THEOREM Invariance == Spec => []IndInv
<1>1. Init => IndInv
  BY InitIndInv
<1>2. IndInv /\ [Next]_vars => IndInv'
  BY NextStep
<1> QED
  BY <1>1, <1>2, PTL DEF Spec

\* What the peer serves passes the client's walk, for every history in which
\* the regime did not change.
THEOREM ServedHistoryAlwaysVerifies == Spec => []ServedHistoryVerifies
<1>1. IndInv => ServedHistoryVerifies
  <2> SUFFICES ASSUME IndInv,
                      \A s \in Seqs : slots[s] # None => slots[s].regime = slots[0].regime,
                      NEW s \in Seqs, slots[s] # None
               PROVE  /\ slots[s].seq = s
                      /\ s > 0 => slots[s - 1] # None
                      /\ slots[s].regime = slots[0].regime
                      /\ slots[s].prev = IF s = 0 THEN Zero ELSE slots[s - 1]
                      /\ slots[s].writer \in Roster
                      /\ GenesisRule(slots[s])
                      /\ slots[0].regime = "single" /\ s > 0
                           /\ slots[s].writer # slots[s - 1].writer =>
                             Authorises(handoffs, slots[s - 1], slots[s])
    BY DEF ServedHistoryVerifies, RegimeIsImmutable, VerifyChain
  <2>1. /\ slots[s].seq = s /\ slots[s].writer \in Roster /\ GenesisRule(slots[s])
        /\ s > 0 => slots[s - 1] # None /\ Succeeds(handoffs, slots[s - 1], slots[s])
    BY DEF IndInv, HistoryIsOneChain
  <2>2. s > 0 => slots[s - 1].regime = slots[0].regime
    BY <2>1 DEF Seqs
  <2> QED
    BY <2>1, <2>2 DEF Succeeds, GenesisRule, Seqs
<1> QED
  BY <1>1, Invariance, PTL

\* A record once served is served unchanged for ever, restarts included.
THEOREM AppendOnly == Spec => HistoryIsAppendOnly
<1>1. IndInv /\ [Next]_vars => [\A s \in Seqs : slots[s] # None => slots'[s] = slots[s]]_vars
  <2> SUFFICES ASSUME IndInv, [Next]_vars, NEW s \in Seqs, slots[s] # None
               PROVE  slots'[s] = slots[s]
    OBVIOUS
  <2>1. Grows /\ slots \in History
    BY NextStep DEF StepOK, IndInv, TypeOK
  <2> QED
    BY <2>1, ExtendsPlace DEF Grows, History
<1> QED
  BY <1>1, Invariance, PTL DEF Spec, HistoryIsAppendOnly

\* The peer implements the abstract log.
THEOREM Implementation == Spec => ImplementsSlotLog
<1>1. Init => Log!AInit
  BY DEF Init, Log!AInit, Log!Seqs, Seqs
<1>2. IndInv /\ [Next]_vars => [Log!Advance]_<<slots, handoffs>>
  <2> SUFFICES ASSUME IndInv, [Next]_vars PROVE Log!Advance
    OBVIOUS
  <2>1. StepOK
    BY NextStep
  <2>2. \A r \in Record : Extends(slots, handoffs', r) => Log!Extends(slots, handoffs', r)
    BY DEF Extends, Succeeds, Authorises, GenesisRule, Seqs,
           Log!Extends, Log!Succeeds, Log!Authorises, Log!GenesisRule, Log!Seqs
  <2> QED
    BY <2>1, <2>2 DEF StepOK, Grows, Log!Advance, Log!Append, Log!Handoff, Log!Seqs,
                      Handoff, Seqs
<1> QED
  BY <1>1, <1>2, Invariance, PTL DEF Spec, ImplementsSlotLog, Log!ASpec
=============================================================================
