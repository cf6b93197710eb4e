--------------------------- MODULE GitMirror_proofs ---------------------------
(***************************************************************************)
(* GitRemote and GitMirror for every commit graph, set of agents and refs, *)
(* rule set and bound.  With one helper at a time on the namespace, what a *)
(* helper acknowledged is stored and an unforced push extends the ref; and *)
(* the public repository is whole, is clean once approved, and grows when  *)
(* it is published again under the same rules.                             *)
(***************************************************************************)
EXTENDS GitMirror, FiniteSetTheorems, SequenceTheorems, TLAPS

Pushing == {"load", "save", "ref"}
Op == [at : {"idle", "append"} \cup Pushing, dst : Refs \cup {""}, new : Nat,
       force : BOOLEAN, loaded : SUBSET Commits, read : Seq(Nat)]
Parsed == RuleSets \ {Malformed}
Steps == {"idle", "refs", "derive", "scan", "map", "sign"}
MirrorOp == [at : Steps, persist : BOOLEAN, rules : Parsed \cup {Malformed},
             objs : SUBSET Commits, head : Commits \cup {None}]

GitTypes ==
  /\ made \in SUBSET Commits
  /\ local \in [Agents -> SUBSET Commits]
  /\ map \in SUBSET Commits
  /\ torn \in BOOLEAN
  /\ refs \in [Refs -> Commits \cup {None}]
  /\ op \in [Agents -> Op]
  /\ queue \in Seq(Nat)
  /\ IsFiniteSet(stored)
  /\ told \in SUBSET Nat
  /\ cmds \in Nat
  /\ \A a \in Agents : op[a].at \in Pushing => op[a].dst \in Refs /\ op[a].new \in Commits

\* Helpers do not overlap.
OneHelper ==
  /\ \A a \in Agents : op[a].at = "idle" => op[a] = Idle
  /\ \A a, b \in Agents : op[a] # Idle /\ op[b] # Idle => a = b

\* The map saved last has all that the refs reach, whether or not its pointer
\* was left empty since.
RefsHeld ==
  \A r \in Refs : refs[r] # None => Anc[refs[r]] \subseteq map

\* Between reading the map and moving the ref nobody else replaced either.
PushHolds ==
  \A a \in Agents :
    /\ op[a].at = "save" => op[a].loaded = map
    /\ op[a].at = "ref" => Anc[op[a].new] \subseteq map
    /\ op[a].at \in Pushing /\ ~op[a].force =>
         refs[op[a].dst] = None \/ refs[op[a].dst] \in Anc[op[a].new]

\* Patches are numbered as they are stored, a number enters the queue once, and
\* a helper about to append has read the queue as it still is.
QueueHolds ==
  /\ \A s \in stored : s[1] \in 1..Cardinality(stored) /\ s = <<s[1], "ours">>
  /\ \A i \in DOMAIN queue : queue[i] \in 1..Cardinality(stored)
  /\ \A i, j \in DOMAIN queue : queue[i] = queue[j] => i = j
  /\ \A n \in told : <<n, "ours">> \in stored
  /\ \A n \in told \ dropped : \E i \in DOMAIN queue : queue[i] = n
  /\ \A a \in Agents : op[a].at = "append" =>
       /\ op[a].read = queue
       /\ <<op[a].new, "ours">> \in stored
       /\ op[a].new \in 1..Cardinality(stored)
       /\ \A i \in DOMAIN queue : queue[i] # op[a].new

GitInv == GitTypes /\ OneHelper /\ RefsHeld /\ PushHolds /\ QueueHolds

\* The mirror command under way works on rules that parse and on a tip it has.
MirrorTypes ==
  /\ rules \in RuleSets
  /\ mop \in MirrorOp
  /\ mop.at # "idle" => mop.rules \in Parsed

\* A public repository is all of one derivation; past the scan it has no secret.
PublicIsDerived ==
  /\ public # None => \E r \in Parsed, h \in Commits \cup {None} : public = Derive(r, h)
  /\ mop.at \in {"scan", "map", "sign"} => public = Derive(mop.rules, mop.head)
  /\ mop.at \in {"map", "sign"} => ~ScanSecrets(public)

\* What was approved is a public commit under the approved rules, and scanned.
ApprovalHolds ==
  approval # None =>
    /\ approval.rules \in Parsed
    /\ approval.head # None
    /\ \E h \in Commits : approval.head = PublicOf(approval.rules)[h]
    /\ ~Leaks(approval.head)

MirrorInv == MirrorTypes /\ PublicIsDerived /\ ApprovalHolds

GitMirrorInv == GitInv /\ MirrorInv
-------------------------------------------------------------------------------
(* The recursive functions of the model are what their equations say: of the *)
(* prefixes without a solution the shortest would have one.                  *)

\* The natural order is well-founded.
LEMMA LeastNat ==
  ASSUME NEW T \in SUBSET Nat, T # {}
  PROVE  \E x \in T : \A y \in T : x <= y
<1> DEFINE Less == {p \in Nat \X Nat : p[1] < p[2]}
<1>1. IsWellFoundedOn(OpToRel(<, Nat), Nat)
  BY NatLessThanWellFounded
<1>2. OpToRel(<, Nat) = Less
  BY DEF OpToRel
<1>3. IsWellFoundedOn(Less, Nat)
  BY <1>1, <1>2
<1> HIDE DEF Less
<1>4. PICK x \in T : \A y \in T : ~ (<<y, x>> \in Less)
  BY <1>3, WFMin
<1>5. ASSUME NEW y \in T PROVE x <= y
  <2>1. ~ (<<y, x>> \in Less) /\ x \in Nat /\ y \in Nat
    BY <1>4
  <2>2. <<y, x>> \in Nat \X Nat /\ <<y, x>>[1] = y /\ <<y, x>>[2] = x
    BY <2>1
  <2>3. ~(y < x)
    BY <2>1, <2>2 DEF Less
  <2> QED
    BY <2>3, <2>1
<1> QED
  BY <1>5

\* A commit's parents are earlier commits.
LEMMA ParentsAreEarlier ==
  /\ N \in Nat \ {0}
  /\ \A c \in Commits : /\ c \in Nat
                        /\ Parents[c] \in Seq(Commits)
                        /\ \A i \in DOMAIN Parents[c] : Parents[c][i] \in 1..(c - 1)
<1>1. \A c \in Commits : Parents[c] \in Seq(Commits)
  BY DagAssumption
<1>2. ASSUME NEW c \in Commits, NEW i \in DOMAIN Parents[c] PROVE Parents[c][i] \in 1..(c - 1)
  <2>1. Parents[c][i] \in Commits
    BY <1>1
  <2>2. Parents[c][i] < c
    BY DagAssumption
  <2> QED
    BY <2>1, <2>2, DagAssumption DEF Commits
<1> QED
  BY <1>1, <1>2, DagAssumption DEF Commits

\* rev-list gives a commit and what its parents reach.
LEMMA AncUnfolds ==
  ASSUME NEW c \in Commits
  PROVE  Anc[c] = {c} \cup UNION {Anc[Parents[c][i]] : i \in DOMAIN Parents[c]}
<1> DEFINE At(f, d) == {d} \cup UNION {f[Parents[d][i]] : i \in DOMAIN Parents[d]}
           Solves(n, f) == f = [d \in 1..n |-> At(f, d)]
           Bad == {n \in 0..N : \A f : ~Solves(n, f)}
<1>1. Bad = {}
  <2>1. SUFFICES ASSUME Bad # {} PROVE FALSE
    OBVIOUS
  <2>2. PICK n \in Bad : \A m \in Bad : n <= m
    <3>1. Bad \in SUBSET Nat
      BY ParentsAreEarlier
    <3> QED
      BY <2>1, <3>1, LeastNat
  <2>3. n # 0
    <3>1. Solves(0, [d \in 1..0 |-> {}])
      OBVIOUS
    <3> QED
      BY <3>1
  <2>4. n \in Nat /\ n - 1 \in 0..N /\ 1..n \subseteq Commits /\ n \in 1..n
    BY <2>3, ParentsAreEarlier DEF Commits
  <2>5. PICK f : Solves(n - 1, f)
    <3>1. ~(n <= n - 1)
      BY <2>4
    <3> HIDE DEF Bad
    <3>2. n - 1 \notin Bad
      BY <2>2, <3>1
    <3> USE DEF Bad
    <3> HIDE DEF Solves
    <3> QED
      BY <2>4, <3>2
  <2> DEFINE g == [d \in 1..n |-> IF d = n THEN At(f, n) ELSE f[d]]
  <2>6. ASSUME NEW d \in 1..n PROVE At(g, d) = At(f, d)
    <3>1. ASSUME NEW i \in DOMAIN Parents[d] PROVE g[Parents[d][i]] = f[Parents[d][i]]
      <4>1. Parents[d][i] \in 1..(d - 1) /\ d \in Nat
        BY <2>4, ParentsAreEarlier
      <4>2. Parents[d][i] \in 1..n /\ Parents[d][i] # n
        BY <4>1, <2>4
      <4> QED
        BY <4>2
    <3> HIDE DEF g
    <3> QED
      BY <3>1
  <2>7. ASSUME NEW d \in 1..n PROVE g[d] = At(f, d)
    <3>1. CASE d = n
      BY <3>1
    <3>2. CASE d # n
      <4>1. d \in 1..(n - 1)
        BY <3>2, <2>4
      <4>2. f[d] = At(f, d)
        BY <4>1, <2>5
      <4> QED
        BY <4>2, <3>2
    <3> QED
      BY <3>1, <3>2
  <2>8. Solves(n, g)
    BY <2>6, <2>7
  <2> QED
    BY <2>8
<1>2. \E f : Solves(N, f)
  <2>1. N \in 0..N
    BY ParentsAreEarlier
  <2>2. N \notin Bad
    BY <1>1
  <2> HIDE DEF Solves
  <2> QED
    BY <2>1, <2>2
<1>3. Anc = CHOOSE f : f = [d \in Commits |-> At(f, d)]
  BY DEF Anc
<1>4. Anc = [d \in Commits |-> At(Anc, d)]
  <2>1. \E f : f = [d \in Commits |-> At(f, d)]
    BY <1>2 DEF Commits
  <2> HIDE DEF At
  <2> QED
    BY <2>1, <1>3
<1> QED
  BY <1>4

\* The rewrite gives each commit what Rewrite makes of its parents.
LEMMA PublicOfUnfolds ==
  ASSUME NEW r, NEW c \in Commits
  PROVE  PublicOf(r)[c] = Rewrite(c, [i \in DOMAIN Parents[c] |-> PublicOf(r)[Parents[c][i]]], r)
<1> DEFINE At(f, d) == Rewrite(d, [i \in DOMAIN Parents[d] |-> f[Parents[d][i]]], r)
           Solves(n, f) == f = [d \in 1..n |-> At(f, d)]
           Bad == {n \in 0..N : \A f : ~Solves(n, f)}
<1>1. Bad = {}
  <2>1. SUFFICES ASSUME Bad # {} PROVE FALSE
    OBVIOUS
  <2>2. PICK n \in Bad : \A m \in Bad : n <= m
    <3>1. Bad \in SUBSET Nat
      BY ParentsAreEarlier
    <3> QED
      BY <2>1, <3>1, LeastNat
  <2>3. n # 0
    <3>1. Solves(0, [d \in 1..0 |-> {}])
      OBVIOUS
    <3> QED
      BY <3>1
  <2>4. n \in Nat /\ n - 1 \in 0..N /\ 1..n \subseteq Commits /\ n \in 1..n
    BY <2>3, ParentsAreEarlier DEF Commits
  <2>5. PICK f : Solves(n - 1, f)
    <3>1. ~(n <= n - 1)
      BY <2>4
    <3> HIDE DEF Bad
    <3>2. n - 1 \notin Bad
      BY <2>2, <3>1
    <3> USE DEF Bad
    <3> HIDE DEF Solves
    <3> QED
      BY <2>4, <3>2
  <2> DEFINE g == [d \in 1..n |-> IF d = n THEN At(f, n) ELSE f[d]]
  <2>6. ASSUME NEW d \in 1..n PROVE At(g, d) = At(f, d)
    <3>1. ASSUME NEW i \in DOMAIN Parents[d] PROVE g[Parents[d][i]] = f[Parents[d][i]]
      <4>1. Parents[d][i] \in 1..(d - 1) /\ d \in Nat
        BY <2>4, ParentsAreEarlier
      <4>2. Parents[d][i] \in 1..n /\ Parents[d][i] # n
        BY <4>1, <2>4
      <4> QED
        BY <4>2
    <3> HIDE DEF g
    <3> QED
      BY <3>1
  <2>7. ASSUME NEW d \in 1..n PROVE g[d] = At(f, d)
    <3>1. CASE d = n
      BY <3>1
    <3>2. CASE d # n
      <4>1. d \in 1..(n - 1)
        BY <3>2, <2>4
      <4>2. f[d] = At(f, d)
        BY <4>1, <2>5
      <4> QED
        BY <4>2, <3>2
    <3> QED
      BY <3>1, <3>2
  <2>8. Solves(n, g)
    BY <2>6, <2>7
  <2> QED
    BY <2>8
<1>2. \E f : Solves(N, f)
  <2>1. N \in 0..N
    BY ParentsAreEarlier
  <2>2. N \notin Bad
    BY <1>1
  <2> HIDE DEF Solves
  <2> QED
    BY <2>1, <2>2
<1>3. PublicOf(r) = CHOOSE f : f = [d \in Commits |-> At(f, d)]
  BY DEF PublicOf
<1>4. PublicOf(r) = [d \in Commits |-> At(PublicOf(r), d)]
  <2>1. \E f : f = [d \in Commits |-> At(f, d)]
    BY <1>2 DEF Commits
  <2> HIDE DEF At
  <2> QED
    BY <2>1, <1>3
<1> QED
  BY <1>4

\* The first line of a commit is the commit and that of its first parent.
LEMMA FirstLineUnfolds ==
  ASSUME NEW c \in Commits
  PROVE  FirstLine[c] = IF Parents[c] = <<>> THEN {c} ELSE {c} \cup FirstLine[Parents[c][1]]
<1> DEFINE At(f, d) == IF Parents[d] = <<>> THEN {d} ELSE {d} \cup f[Parents[d][1]]
           Solves(n, f) == f = [d \in 1..n |-> At(f, d)]
           Bad == {n \in 0..N : \A f : ~Solves(n, f)}
<1>1. Bad = {}
  <2>1. SUFFICES ASSUME Bad # {} PROVE FALSE
    OBVIOUS
  <2>2. PICK n \in Bad : \A m \in Bad : n <= m
    <3>1. Bad \in SUBSET Nat
      BY ParentsAreEarlier
    <3> QED
      BY <2>1, <3>1, LeastNat
  <2>3. n # 0
    <3>1. Solves(0, [d \in 1..0 |-> {}])
      OBVIOUS
    <3> QED
      BY <3>1
  <2>4. n \in Nat /\ n - 1 \in 0..N /\ 1..n \subseteq Commits /\ n \in 1..n
    BY <2>3, ParentsAreEarlier DEF Commits
  <2>5. PICK f : Solves(n - 1, f)
    <3>1. ~(n <= n - 1)
      BY <2>4
    <3> HIDE DEF Bad
    <3>2. n - 1 \notin Bad
      BY <2>2, <3>1
    <3> USE DEF Bad
    <3> HIDE DEF Solves
    <3> QED
      BY <2>4, <3>2
  <2> DEFINE g == [d \in 1..n |-> IF d = n THEN At(f, n) ELSE f[d]]
  <2>6. ASSUME NEW d \in 1..n PROVE At(g, d) = At(f, d)
    <3>1. ASSUME NEW i \in DOMAIN Parents[d] PROVE g[Parents[d][i]] = f[Parents[d][i]]
      <4>1. Parents[d][i] \in 1..(d - 1) /\ d \in Nat
        BY <2>4, ParentsAreEarlier
      <4>2. Parents[d][i] \in 1..n /\ Parents[d][i] # n
        BY <4>1, <2>4
      <4> QED
        BY <4>2
    <3> HIDE DEF g
    <3>2. Parents[d] # <<>> => 1 \in DOMAIN Parents[d]
      BY <2>4, ParentsAreEarlier
    <3> QED
      BY <3>1, <3>2
  <2>7. ASSUME NEW d \in 1..n PROVE g[d] = At(f, d)
    <3>1. CASE d = n
      BY <3>1
    <3>2. CASE d # n
      <4>1. d \in 1..(n - 1)
        BY <3>2, <2>4
      <4>2. f[d] = At(f, d)
        BY <4>1, <2>5
      <4> QED
        BY <4>2, <3>2
    <3> QED
      BY <3>1, <3>2
  <2>8. Solves(n, g)
    BY <2>6, <2>7
  <2> QED
    BY <2>8
<1>2. \E f : Solves(N, f)
  <2>1. N \in 0..N
    BY ParentsAreEarlier
  <2>2. N \notin Bad
    BY <1>1
  <2> HIDE DEF Solves
  <2> QED
    BY <2>1, <2>2
<1>3. FirstLine = CHOOSE f : f = [d \in Commits |-> At(f, d)]
  BY DEF FirstLine
<1>4. FirstLine = [d \in Commits |-> At(FirstLine, d)]
  <2>1. \E f : f = [d \in Commits |-> At(f, d)]
    BY <1>2 DEF Commits
  <2> HIDE DEF At
  <2> QED
    BY <2>1, <1>3
<1> QED
  BY <1>4

\* The loop over the parents, after each of them.
LEMMA PublicParentsUnfolds ==
  ASSUME NEW S, NEW ps \in Seq(S)
  PROVE  \E F : /\ PublicParents(ps) = F[Len(ps)]
                /\ F[0] = <<>>
                /\ \A i \in 1..Len(ps) :
                     F[i] = IF ps[i] = None THEN F[i - 1] ELSE Append(F[i - 1], ps[i])
<1> DEFINE At(f, i) == IF i = 0 THEN <<>>
                       ELSE IF ps[i] = None THEN f[i - 1] ELSE Append(f[i - 1], ps[i])
           Solves(n, f) == f = [i \in 0..n |-> At(f, i)]
           Bad == {n \in 0..Len(ps) : \A f : ~Solves(n, f)}
<1>0. Len(ps) \in Nat
  OBVIOUS
<1>1. Bad = {}
  <2>1. SUFFICES ASSUME Bad # {} PROVE FALSE
    OBVIOUS
  <2>2. PICK n \in Bad : \A m \in Bad : n <= m
    <3>1. Bad \in SUBSET Nat
      BY <1>0
    <3> QED
      BY <2>1, <3>1, LeastNat
  <2>3. n # 0
    <3>1. Solves(0, [i \in 0..0 |-> At([j \in {} |-> {}], 0)])
      OBVIOUS
    <3> QED
      BY <3>1, <1>0
  <2>4. n \in Nat /\ n - 1 \in 0..Len(ps) /\ n \in 0..n
    BY <2>3, <1>0
  <2>5. PICK f : Solves(n - 1, f)
    <3>1. ~(n <= n - 1)
      BY <2>4
    <3> HIDE DEF Bad
    <3>2. n - 1 \notin Bad
      BY <2>2, <3>1
    <3> USE DEF Bad
    <3> HIDE DEF Solves
    <3> QED
      BY <2>4, <3>2
  <2> DEFINE g == [i \in 0..n |-> IF i = n THEN At(f, n) ELSE f[i]]
  <2>6. ASSUME NEW i \in 0..n PROVE At(g, i) = At(f, i)
    <3>1. i # 0 => g[i - 1] = f[i - 1]
      <4>1. i # 0 => i - 1 \in 0..n /\ i - 1 # n
        BY <2>4
      <4> QED
        BY <4>1
    <3> HIDE DEF g
    <3> QED
      BY <3>1
  <2>7. ASSUME NEW i \in 0..n PROVE g[i] = At(f, i)
    <3>1. CASE i = n
      BY <3>1
    <3>2. CASE i # n
      <4>1. i \in 0..(n - 1)
        BY <3>2, <2>4
      <4>2. f[i] = At(f, i)
        BY <4>1, <2>5
      <4> QED
        BY <4>2, <3>2
    <3> QED
      BY <3>1, <3>2
  <2>8. Solves(n, g)
    BY <2>6, <2>7
  <2> QED
    BY <2>8
<1>2. \E f : Solves(Len(ps), f)
  <2>1. Len(ps) \in 0..Len(ps)
    BY <1>0
  <2>2. Len(ps) \notin Bad
    BY <1>1
  <2> HIDE DEF Solves
  <2> QED
    BY <2>1, <2>2
<1> DEFINE F == CHOOSE f : Solves(Len(ps), f)
<1>3. F = [i \in 0..Len(ps) |-> At(F, i)]
  <2> HIDE DEF Solves
  <2>1. Solves(Len(ps), F)
    BY <1>2
  <2> USE DEF Solves
  <2> QED
    BY <2>1
<1>4. PublicParents(ps) = F[Len(ps)]
  BY DEF PublicParents
<1> HIDE DEF F
<1>5. F[0] = <<>>
  BY <1>3, <1>0
<1>6. ASSUME NEW i \in 1..Len(ps)
      PROVE  F[i] = IF ps[i] = None THEN F[i - 1] ELSE Append(F[i - 1], ps[i])
  <2>1. i \in 0..Len(ps) /\ i # 0
    BY <1>0
  <2> QED
    BY <2>1, <1>3
<1> QED
  BY <1>4, <1>5, <1>6

\* The rounds of the search over parents.
LEMMA ReachUnfolds ==
  ASSUME NEW p
  PROVE  \E R : /\ Reach(p) = R[N]
                /\ R[0] = {p}
                /\ \A n \in 1..N : R[n] = R[n - 1] \cup UNION {ToSet(q.parents) : q \in R[n - 1]}
<1> DEFINE At(f, i) == IF i = 0 THEN {p}
                       ELSE f[i - 1] \cup UNION {ToSet(q.parents) : q \in f[i - 1]}
           Solves(n, f) == f = [i \in 0..n |-> At(f, i)]
           Bad == {n \in 0..N : \A f : ~Solves(n, f)}
<1>0. N \in Nat
  BY ParentsAreEarlier
<1>1. Bad = {}
  <2>1. SUFFICES ASSUME Bad # {} PROVE FALSE
    OBVIOUS
  <2>2. PICK n \in Bad : \A m \in Bad : n <= m
    <3>1. Bad \in SUBSET Nat
      BY <1>0
    <3> QED
      BY <2>1, <3>1, LeastNat
  <2>3. n # 0
    <3>1. Solves(0, [i \in 0..0 |-> At([j \in {} |-> {}], 0)])
      OBVIOUS
    <3> QED
      BY <3>1, <1>0
  <2>4. n \in Nat /\ n - 1 \in 0..N /\ n \in 0..n
    BY <2>3, <1>0
  <2>5. PICK f : Solves(n - 1, f)
    <3>1. ~(n <= n - 1)
      BY <2>4
    <3> HIDE DEF Bad
    <3>2. n - 1 \notin Bad
      BY <2>2, <3>1
    <3> USE DEF Bad
    <3> HIDE DEF Solves
    <3> QED
      BY <2>4, <3>2
  <2> DEFINE g == [i \in 0..n |-> IF i = n THEN At(f, n) ELSE f[i]]
  <2>6. ASSUME NEW i \in 0..n PROVE At(g, i) = At(f, i)
    <3>1. i # 0 => g[i - 1] = f[i - 1]
      <4>1. i # 0 => i - 1 \in 0..n /\ i - 1 # n
        BY <2>4
      <4> QED
        BY <4>1
    <3> HIDE DEF g
    <3> QED
      BY <3>1
  <2>7. ASSUME NEW i \in 0..n PROVE g[i] = At(f, i)
    <3>1. CASE i = n
      BY <3>1
    <3>2. CASE i # n
      <4>1. i \in 0..(n - 1)
        BY <3>2, <2>4
      <4>2. f[i] = At(f, i)
        BY <4>1, <2>5
      <4> QED
        BY <4>2, <3>2
    <3> QED
      BY <3>1, <3>2
  <2>8. Solves(n, g)
    BY <2>6, <2>7
  <2> QED
    BY <2>8
<1>2. \E f : Solves(N, f)
  <2>1. N \in 0..N
    BY <1>0
  <2>2. N \notin Bad
    BY <1>1
  <2> HIDE DEF Solves
  <2> QED
    BY <2>1, <2>2
<1> DEFINE F == CHOOSE f : Solves(N, f)
<1>3. F = [i \in 0..N |-> At(F, i)]
  <2> HIDE DEF Solves
  <2>1. Solves(N, F)
    BY <1>2
  <2> USE DEF Solves
  <2> QED
    BY <2>1
<1>4. Reach(p) = F[N]
  BY DEF Reach
<1> HIDE DEF F
<1>5. F[0] = {p}
  BY <1>3, <1>0
<1>6. ASSUME NEW n \in 1..N
      PROVE  F[n] = F[n - 1] \cup UNION {ToSet(q.parents) : q \in F[n - 1]}
  <2>1. n \in 0..N /\ n # 0
    BY <1>0
  <2> QED
    BY <2>1, <1>3
<1> QED
  BY <1>4, <1>5, <1>6
-------------------------------------------------------------------------------
(* Histories. *)

\* The loop keeps every public parent, in order, and nothing else.
LEMMA PublicParentsKeep ==
  ASSUME NEW S, NEW ps \in Seq(S)
  PROVE  /\ PublicParents(ps) \in Seq(S \ {None})
         /\ \A i \in DOMAIN ps : ps[i] # None => ps[i] \in ToSet(PublicParents(ps))
         /\ ps # <<>> /\ ps[1] # None => PublicParents(ps) # <<>> /\ PublicParents(ps)[1] = ps[1]
<1>1. PICK F : /\ PublicParents(ps) = F[Len(ps)]
               /\ F[0] = <<>>
               /\ \A i \in 1..Len(ps) :
                    F[i] = IF ps[i] = None THEN F[i - 1] ELSE Append(F[i - 1], ps[i])
  BY PublicParentsUnfolds
<1>0. Len(ps) \in Nat /\ DOMAIN ps = 1..Len(ps)
  OBVIOUS
<1> DEFINE Whole(n) ==
             /\ F[n] \in Seq(S \ {None})
             /\ \A j \in 1..n : ps[j] # None => \E k \in DOMAIN F[n] : F[n][k] = ps[j]
             /\ n # 0 /\ ps[1] # None => Len(F[n]) >= 1 /\ F[n][1] = ps[1]
           Bad == {n \in 0..Len(ps) : ~Whole(n)}
<1>2. Bad = {}
  <2>1. SUFFICES ASSUME Bad # {} PROVE FALSE
    OBVIOUS
  <2>2. PICK n \in Bad : \A m \in Bad : n <= m
    <3>1. Bad \in SUBSET Nat
      BY <1>0
    <3> QED
      BY <2>1, <3>1, LeastNat
  <2>3. n # 0
    <3>1. Whole(0)
      BY <1>1
    <3> QED
      BY <3>1
  <2>4. n \in Nat /\ n - 1 \in 0..Len(ps) /\ n \in 1..Len(ps) /\ n - 1 \in Nat
    BY <2>3, <1>0
  <2>5. Whole(n - 1)
    <3>1. ~(n <= n - 1)
      BY <2>4
    <3> HIDE DEF Bad
    <3>2. n - 1 \notin Bad
      BY <2>2, <3>1
    <3> USE DEF Bad
    <3> HIDE DEF Whole
    <3> QED
      BY <2>4, <3>2
  <2>6. CASE ps[n] = None
    <3>1. F[n] = F[n - 1]
      BY <1>1, <2>4, <2>6
    <3>2. ASSUME NEW j \in 1..n, ps[j] # None PROVE \E k \in DOMAIN F[n] : F[n][k] = ps[j]
      <4>1. j \in 1..(n - 1)
        BY <3>2, <2>6, <2>4
      <4> QED
        BY <4>1, <3>2, <2>5, <3>1
    <3>3. ps[1] # None => Len(F[n]) >= 1 /\ F[n][1] = ps[1]
      <4>1. ps[1] # None => n - 1 # 0
        BY <2>6, <2>4
      <4> QED
        BY <4>1, <2>5, <3>1
    <3>4. Whole(n)
      BY <3>1, <3>2, <3>3, <2>5
    <3> QED
      BY <3>4
  <2>7. CASE ps[n] # None
    <3>1. F[n] = Append(F[n - 1], ps[n]) /\ ps[n] \in S \ {None}
      <4>1. F[n] = Append(F[n - 1], ps[n])
        BY <1>1, <2>4, <2>7
      <4>2. ps[n] \in S
        BY <2>4, ElementOfSeq
      <4> QED
        BY <4>1, <4>2, <2>7
    <3> DEFINE s == F[n - 1]
    <3>2. s \in Seq(S \ {None})
      BY <2>5
    <3>3. F[n] \in Seq(S \ {None}) /\ DOMAIN F[n] = 1..(Len(s) + 1) /\ Len(F[n]) = Len(s) + 1
      BY <3>1, <3>2
    <3>4. F[n][Len(s) + 1] = ps[n] /\ \A k \in DOMAIN s : F[n][k] = s[k] /\ k \in DOMAIN F[n]
      BY <3>1, <3>2
    <3>5. Len(s) \in Nat /\ DOMAIN s = 1..Len(s)
      BY <3>2
    <3>6. ASSUME NEW j \in 1..n, ps[j] # None PROVE \E k \in DOMAIN F[n] : F[n][k] = ps[j]
      <4>1. CASE j = n
        BY <4>1, <3>3, <3>4, <3>5
      <4>2. CASE j # n
        <5>1. j \in 1..(n - 1)
          BY <4>2, <2>4
        <5>2. PICK k \in DOMAIN s : s[k] = ps[j]
          BY <5>1, <3>6, <2>5
        <5> QED
          BY <5>2, <3>4
      <4> QED
        BY <4>1, <4>2
    <3>7. ps[1] # None => Len(F[n]) >= 1 /\ F[n][1] = ps[1]
      <4>1. CASE n - 1 = 0
        <5>1. s = <<>> /\ n = 1
          BY <4>1, <1>1, <2>4
        <5> QED
          BY <5>1, <3>1
      <4>2. CASE n - 1 # 0
        <5>1. ps[1] # None => Len(s) >= 1 /\ s[1] = ps[1]
          BY <4>2, <2>5
        <5>2. Len(s) >= 1 => 1 \in DOMAIN s
          BY <3>5
        <5> QED
          BY <5>1, <5>2, <3>3, <3>4, <3>5
      <4> QED
        BY <4>1, <4>2
    <3>8. Whole(n)
      BY <3>3, <3>6, <3>7
    <3> QED
      BY <3>8
  <2> QED
    BY <2>6, <2>7
<1>3. Whole(Len(ps))
  <2>1. Len(ps) \in 0..Len(ps)
    BY <1>0
  <2> HIDE DEF Whole
  <2> QED
    BY <2>1, <1>2
<1>4. \A i \in DOMAIN ps : ps[i] # None => ps[i] \in ToSet(PublicParents(ps))
  BY <1>0, <1>1, <1>3 DEF ToSet
<1>5. ps # <<>> /\ ps[1] # None => PublicParents(ps) # <<>> /\ PublicParents(ps)[1] = ps[1]
  <2>1. ps # <<>> => Len(ps) # 0
    BY <1>0
  <2>2. PublicParents(ps) \in Seq(S \ {None})
    BY <1>1, <1>3
  <2>3. Len(PublicParents(ps)) >= 1 => PublicParents(ps) # <<>>
    BY <2>2
  <2> QED
    BY <1>1, <1>3, <2>1, <2>3
<1> QED
  BY <1>1, <1>3, <1>4, <1>5

\* A history holds its tip, commits only, and the history of each of them.
LEMMA Histories ==
  ASSUME NEW h \in Commits
  PROVE  /\ h \in Anc[h]
         /\ \A c \in Anc[h] : c \in Commits /\ Anc[c] \subseteq Anc[h]
<1> DEFINE Fine(c) == \A d \in Anc[c] : d \in Commits /\ Anc[d] \subseteq Anc[c]
           Bad == {c \in Commits : ~Fine(c)}
<1>1. Bad = {}
  <2>1. SUFFICES ASSUME Bad # {} PROVE FALSE
    OBVIOUS
  <2>2. PICK c \in Bad : \A m \in Bad : c <= m
    <3>1. Bad \in SUBSET Nat
      BY ParentsAreEarlier
    <3> QED
      BY <2>1, <3>1, LeastNat
  <2>3. ASSUME NEW i \in DOMAIN Parents[c]
        PROVE  Fine(Parents[c][i]) /\ Anc[Parents[c][i]] \subseteq Anc[c]
    <3>1. c \in Nat /\ Parents[c][i] \in 1..(c - 1) /\ Parents[c][i] \in Commits
      BY ParentsAreEarlier
    <3>2. Parents[c][i] \notin Bad
      <4>1. ~(c <= Parents[c][i])
        BY <3>1
      <4> HIDE DEF Bad
      <4> QED
        BY <2>2, <4>1
    <3>3. Anc[Parents[c][i]] \subseteq Anc[c]
      BY AncUnfolds
    <3> HIDE DEF Fine
    <3> QED
      BY <3>1, <3>2, <3>3
  <2>4. ASSUME NEW d \in Anc[c] PROVE d \in Commits /\ Anc[d] \subseteq Anc[c]
    <3>1. d = c \/ \E i \in DOMAIN Parents[c] : d \in Anc[Parents[c][i]]
      BY AncUnfolds
    <3> QED
      BY <3>1, <2>3
  <2> QED
    BY <2>4
<1> QED
  BY <1>1, AncUnfolds

\* What the parents of a commit became, and the commit's own public commit.
Became(r, c) == [i \in DOMAIN Parents[c] |-> PublicOf(r)[Parents[c][i]]]
Own(r, c) == CommitTree(c, Kept(c, r), PublicParents(Became(r, c)))

\* What the parents of a commit became is a sequence, one for each parent.
LEMMA BecameIsSeq ==
  ASSUME NEW r, NEW c \in Commits
  PROVE  /\ Became(r, c) \in Seq({PublicOf(r)[Parents[c][i]] : i \in DOMAIN Parents[c]})
         /\ DOMAIN Became(r, c) = DOMAIN Parents[c]
         /\ Len(Became(r, c)) = Len(Parents[c])
<1> DEFINE S == {PublicOf(r)[Parents[c][i]] : i \in DOMAIN Parents[c]}
           s == Became(r, c)
<1>1. Parents[c] \in Seq(Commits)
  BY ParentsAreEarlier
<1>2. Len(Parents[c]) \in Nat /\ DOMAIN Parents[c] = 1..Len(Parents[c])
  BY <1>1
<1>3. s \in [1..Len(Parents[c]) -> S]
  BY <1>2 DEF Became
<1> HIDE DEF s, S
<1>4. s \in Seq(S) /\ Len(s) = Len(Parents[c]) /\ DOMAIN s = 1..Len(Parents[c])
  BY <1>2, <1>3
<1> USE DEF s, S
<1> QED
  BY <1>2, <1>4

\* The public parents of a commit are what some of its parents became.
LEMMA PublicParentsOf ==
  ASSUME NEW r, NEW c \in Commits
  PROVE  /\ PublicParents(Became(r, c)) \in Seq(ToSet(PublicParents(Became(r, c))))
         /\ \A x \in ToSet(PublicParents(Became(r, c))) :
              x # None /\ \E i \in DOMAIN Parents[c] : x = PublicOf(r)[Parents[c][i]]
<1> DEFINE S == {PublicOf(r)[Parents[c][i]] : i \in DOMAIN Parents[c]}
           s == PublicParents(Became(r, c))
<1>1. s \in Seq(S \ {None})
  <2>1. Became(r, c) \in Seq(S)
    BY BecameIsSeq
  <2> HIDE DEF S
  <2> QED
    BY <2>1, PublicParentsKeep
<1> HIDE DEF s
<1>2. Len(s) \in Nat /\ DOMAIN s = 1..Len(s)
  BY <1>1
<1>3. \A x \in ToSet(s) : x \in S \ {None}
  <2> HIDE DEF S
  <2>1. \A k \in DOMAIN s : s[k] \in S \ {None}
    BY <1>1, <1>2, ElementOfSeq
  <2> QED
    BY <2>1 DEF ToSet
<1>4. s \in Seq(ToSet(s))
  <2>1. s \in [1..Len(s) -> ToSet(s)]
    <3>1. s = [k \in DOMAIN s |-> s[k]]
      BY <1>1
    <3> QED
      BY <3>1, <1>2 DEF ToSet
  <2> QED
    BY <2>1, <1>2
<1> USE DEF s
<1> QED
  BY <1>3, <1>4

\* A commit is public as itself, or as one in its history.
LEMMA PublicIsOwn ==
  ASSUME NEW r, NEW h \in Commits, PublicOf(r)[h] # None
  PROVE  \E d \in Anc[h] : d \in 1..h /\ PublicOf(r)[h] = Own(r, d) /\ PublicOf(r)[d] = Own(r, d)
<1> DEFINE P == PublicOf(r)
           Is(c) == \E d \in Anc[c] : d \in 1..c /\ P[c] = Own(r, d) /\ P[d] = Own(r, d)
           Bad == {c \in Commits : P[c] # None /\ ~Is(c)}
<1>1. Bad = {}
  <2>1. SUFFICES ASSUME Bad # {} PROVE FALSE
    OBVIOUS
  <2>2. PICK c \in Bad : \A m \in Bad : c <= m
    <3>1. Bad \in SUBSET Nat
      BY ParentsAreEarlier
    <3> QED
      BY <2>1, <3>1, LeastNat
  <2>3. ASSUME NEW i \in DOMAIN Parents[c], P[Parents[c][i]] # None
        PROVE  \E d \in Anc[c] : d \in 1..c /\ P[Parents[c][i]] = Own(r, d) /\ P[d] = Own(r, d)
    <3>1. c \in Nat /\ Parents[c][i] \in 1..(c - 1) /\ Parents[c][i] \in Commits
      BY ParentsAreEarlier
    <3>2. Parents[c][i] \notin Bad
      <4>1. ~(c <= Parents[c][i])
        BY <3>1
      <4> HIDE DEF Bad
      <4> QED
        BY <2>2, <4>1
    <3>3. Is(Parents[c][i])
      <4> HIDE DEF Is, P
      <4> QED
        BY <3>1, <3>2, <2>3
    <3> HIDE DEF P
    <3>4. PICK d \in Anc[Parents[c][i]] : /\ d \in 1..Parents[c][i]
                                          /\ P[Parents[c][i]] = Own(r, d)
                                          /\ P[d] = Own(r, d)
      BY <3>3
    <3>5. d \in Anc[c] /\ d \in 1..c
      BY <3>1, <3>4, AncUnfolds
    <3> QED
      BY <3>4, <3>5
  <2> DEFINE s == PublicParents(Became(r, c))
  <2>4. P[c] = IF LeftEmpty(Kept(c, r), s, r) THEN MapDropped(s) ELSE Own(r, c)
    BY PublicOfUnfolds DEF Rewrite, Own, Became
  <2>5. s \in Seq(ToSet(s)) /\ \A x \in ToSet(s) :
          x # None /\ \E i \in DOMAIN Parents[c] : x = P[Parents[c][i]]
    BY PublicParentsOf
  <2> HIDE DEF s, P
  <2>6. CASE LeftEmpty(Kept(c, r), s, r)
    <3>1. P[c] = MapDropped(s) /\ P[c] # None
      BY <2>4, <2>6, <2>2
    <3>2. s # <<>> /\ P[c] = s[1]
      BY <3>1 DEF MapDropped
    <3>3. s[1] \in ToSet(s)
      BY <3>2, <2>5, ElementOfSeq
    <3>4. PICK i \in DOMAIN Parents[c] : s[1] = P[Parents[c][i]] /\ s[1] # None
      BY <2>5, <3>3
    <3>5. Is(c)
      BY <3>2, <3>4, <2>3
    <3> QED
      BY <3>5, <2>2
  <2>7. CASE ~LeftEmpty(Kept(c, r), s, r)
    <3>1. P[c] = Own(r, c)
      BY <2>4, <2>7
    <3>2. c \in Anc[c] /\ c \in 1..c
      BY Histories, ParentsAreEarlier DEF Commits
    <3>3. Is(c)
      BY <3>1, <3>2
    <3> QED
      BY <3>3, <2>2
  <2> QED
    BY <2>6, <2>7
<1> HIDE DEF Is, P
<1>2. Is(h)
  <2>1. P[h] # None
    BY DEF P
  <2> QED
    BY <1>1, <2>1
<1> USE DEF Is, P
<1> QED
  BY <1>2

\* The rounds of the search, named.
Rounds(p, R) ==
  /\ Reach(p) = R[N]
  /\ R[0] = {p}
  /\ \A n \in 1..N : R[n] = R[n - 1] \cup UNION {ToSet(q.parents) : q \in R[n - 1]}
RoundsOf(p) == CHOOSE R : Rounds(p, R)

\* The rounds of the recursion are as its equations say.
LEMMA RoundsAre ==
  ASSUME NEW p
  PROVE  Rounds(p, RoundsOf(p))
<1>1. \E R : Rounds(p, R)
  BY ReachUnfolds DEF Rounds
<1> QED
  BY <1>1 DEF RoundsOf

\* The search stays in any set that holds the parents of its members.
LEMMA ReachStays ==
  ASSUME NEW W, NEW p \in W, \A q \in W : ToSet(q.parents) \subseteq W
  PROVE  Reach(p) \subseteq W
<1> DEFINE R == RoundsOf(p)
           Bad == {n \in 0..N : ~(R[n] \subseteq W)}
<1>1. /\ Reach(p) = R[N]
      /\ R[0] = {p}
      /\ \A n \in 1..N : R[n] = R[n - 1] \cup UNION {ToSet(q.parents) : q \in R[n - 1]}
  BY RoundsAre DEF Rounds
<1> HIDE DEF R
<1>2. Bad = {}
  <2>1. SUFFICES ASSUME Bad # {} PROVE FALSE
    OBVIOUS
  <2>2. PICK n \in Bad : \A m \in Bad : n <= m
    <3>1. Bad \in SUBSET Nat
      BY ParentsAreEarlier
    <3> QED
      BY <2>1, <3>1, LeastNat
  <2>3. n # 0
    BY <1>1
  <2>4. n \in 1..N /\ n - 1 \in 0..N /\ ~(n <= n - 1)
    BY <2>3, ParentsAreEarlier
  <2>5. R[n - 1] \subseteq W
    <3>1. n - 1 \notin Bad
      <4> HIDE DEF Bad
      <4> QED
        BY <2>2, <2>4
    <3> QED
      BY <3>1, <2>4
  <2>6. R[n] \subseteq W
    BY <1>1, <2>4, <2>5
  <2> QED
    BY <2>6
<1> QED
  BY <1>1, <1>2, ParentsAreEarlier

\* A later round has all of an earlier one.
LEMMA RoundsGrow ==
  ASSUME NEW p, NEW m \in 0..N
  PROVE  \A n \in m..N : RoundsOf(p)[m] \subseteq RoundsOf(p)[n]
<1> DEFINE R == RoundsOf(p)
           Bad == {n \in m..N : ~(R[m] \subseteq R[n])}
<1>1. \A n \in 1..N : R[n] = R[n - 1] \cup UNION {ToSet(q.parents) : q \in R[n - 1]}
  BY RoundsAre DEF Rounds
<1> HIDE DEF R
<1>2. Bad = {}
  <2>1. SUFFICES ASSUME Bad # {} PROVE FALSE
    OBVIOUS
  <2>2. PICK n \in Bad : \A k \in Bad : n <= k
    <3>1. Bad \in SUBSET Nat
      BY ParentsAreEarlier
    <3> QED
      BY <2>1, <3>1, LeastNat
  <2>3. n # m
    OBVIOUS
  <2>4. n \in 1..N /\ n - 1 \in m..N /\ ~(n <= n - 1)
    BY <2>3, ParentsAreEarlier
  <2>5. R[m] \subseteq R[n - 1]
    <3>1. n - 1 \notin Bad
      <4> HIDE DEF Bad
      <4> QED
        BY <2>2, <2>4
    <3> QED
      BY <3>1, <2>4
  <2>6. R[n - 1] \subseteq R[n]
    BY <1>1, <2>4
  <2> QED
    BY <2>5, <2>6
<1> USE DEF R
<1> QED
  BY <1>2

\* From a commit every round finds what the round before finds from a parent.
LEMMA RoundsShift ==
  ASSUME NEW p, NEW q \in ToSet(p.parents), NEW k \in 1..N
  PROVE  RoundsOf(q)[k - 1] \subseteq RoundsOf(p)[k]
<1> DEFINE R == RoundsOf(p)
           Q == RoundsOf(q)
           Bad == {n \in 1..N : ~(Q[n - 1] \subseteq R[n])}
<1>1. R[0] = {p} /\ \A n \in 1..N : R[n] = R[n - 1] \cup UNION {ToSet(x.parents) : x \in R[n - 1]}
  BY RoundsAre DEF Rounds
<1>2. Q[0] = {q} /\ \A n \in 1..N : Q[n] = Q[n - 1] \cup UNION {ToSet(x.parents) : x \in Q[n - 1]}
  BY RoundsAre DEF Rounds
<1> HIDE DEF R, Q
<1>3. Bad = {}
  <2>1. SUFFICES ASSUME Bad # {} PROVE FALSE
    OBVIOUS
  <2>2. PICK n \in Bad : \A m \in Bad : n <= m
    <3>1. Bad \in SUBSET Nat
      BY ParentsAreEarlier
    <3> QED
      BY <2>1, <3>1, LeastNat
  <2>3. n # 1
    <3>1. 1 \in 1..N /\ 1 - 1 = 0
      BY ParentsAreEarlier
    <3>2. R[1] = R[0] \cup UNION {ToSet(x.parents) : x \in R[0]}
      BY <3>1, <1>1
    <3>3. q \in R[1]
      BY <3>2, <1>1
    <3> QED
      BY <3>1, <3>3, <1>2
  <2>4. n - 1 \in 1..N /\ n \in 1..N /\ ~(n <= n - 1)
    BY <2>3, ParentsAreEarlier
  <2>5. Q[(n - 1) - 1] \subseteq R[n - 1]
    <3>1. n - 1 \notin Bad
      <4> HIDE DEF Bad
      <4> QED
        BY <2>2, <2>4
    <3> QED
      BY <3>1, <2>4
  <2>6. Q[n - 1] = Q[(n - 1) - 1] \cup UNION {ToSet(x.parents) : x \in Q[(n - 1) - 1]}
    BY <1>2, <2>4
  <2>7. R[n] = R[n - 1] \cup UNION {ToSet(x.parents) : x \in R[n - 1]}
    BY <1>1, <2>4
  <2>8. Q[n - 1] \subseteq R[n]
    BY <2>5, <2>6, <2>7
  <2> QED
    BY <2>8
<1> USE DEF R, Q
<1> QED
  BY <1>3
-------------------------------------------------------------------------------
(* What a derivation leaves. *)

LEMMA OwnIsCommit ==
  ASSUME NEW r, NEW d
  PROVE  /\ Own(r, d).of = d
         /\ Own(r, d).tree = Kept(d, r)
         /\ Own(r, d).parents = PublicParents(Became(r, d))
BY DEF Own, CommitTree

\* The commits a derivation wrote hold the parents of each of them.
LEMMA WrittenIsClosed ==
  ASSUME NEW r, NEW h \in Commits
  PROVE  /\ \A q \in Written(r, h) : ToSet(q.parents) \subseteq Written(r, h)
         /\ \A q \in Written(r, h) : \E d \in Anc[h] : q = Own(r, d)
         /\ PublicOf(r)[h] # None => PublicOf(r)[h] \in Written(r, h)
<1> DEFINE P == PublicOf(r)
<1>1. Written(r, h) = {P[c] : c \in Anc[h]} \ {None}
  BY DEF Written, Mapped
<1>2. h \in Anc[h] /\ \A c \in Anc[h] : c \in Commits /\ Anc[c] \subseteq Anc[h]
  BY Histories
<1>3. ASSUME NEW q \in Written(r, h) PROVE \E d \in Anc[h] : q = Own(r, d)
  <2>1. PICK c \in Anc[h] : q = P[c] /\ q # None
    BY <1>1, <1>3
  <2>2. \E d \in Anc[c] : P[c] = Own(r, d)
    BY <1>2, <2>1, PublicIsOwn
  <2> QED
    BY <2>1, <2>2, <1>2
<1>4. ASSUME NEW q \in Written(r, h), NEW x \in ToSet(q.parents) PROVE x \in Written(r, h)
  <2>1. PICK d \in Anc[h] : q = Own(r, d)
    BY <1>3
  <2>2. x \in ToSet(PublicParents(Became(r, d))) /\ d \in Commits
    BY <2>1, <1>4, <1>2, OwnIsCommit
  <2>3. PICK i \in DOMAIN Parents[d] : x = P[Parents[d][i]] /\ x # None
    BY <2>2, PublicParentsOf
  <2> HIDE DEF P
  <2>4. Parents[d][i] \in Anc[d]
    <3>1. Parents[d][i] \in Commits
      BY <2>2, ParentsAreEarlier
    <3>2. Parents[d][i] \in Anc[Parents[d][i]]
      BY <3>1, Histories
    <3> QED
      BY <3>2, <2>2, AncUnfolds
  <2> QED
    BY <2>3, <2>4, <1>1, <1>2
<1>5. PublicOf(r)[h] # None => PublicOf(r)[h] \in Written(r, h)
  BY <1>1, <1>2
<1> QED
  BY <1>3, <1>4, <1>5

\* Nothing a public tip reaches was left unwritten or has an excluded path.
LEMMA ReachIsWritten ==
  ASSUME NEW r, NEW h \in Commits, PublicOf(r)[h] # None
  PROVE  /\ Reach(PublicOf(r)[h]) \subseteq Written(r, h)
         /\ \A q \in Reach(PublicOf(r)[h]) : \A f \in q.tree : f.path \notin r.exclude
<1>1. Reach(PublicOf(r)[h]) \subseteq Written(r, h)
  BY WrittenIsClosed, ReachStays
<1>2. ASSUME NEW q \in Reach(PublicOf(r)[h]), NEW f \in q.tree PROVE f.path \notin r.exclude
  <2>1. PICK d \in Anc[h] : q = Own(r, d)
    BY <1>1, WrittenIsClosed
  <2>2. f \in Kept(d, r)
    BY <2>1, <1>2, OwnIsCommit
  <2> QED
    BY <2>2 DEF Kept
<1> QED
  BY <1>1, <1>2

\* Along first parents the public history extends too: what an earlier commit
\* became as itself is reached from what a later one became.
LEMMA FirstLineExtends ==
  ASSUME NEW r \in Parsed, NEW b \in Commits, PublicOf(r)[b] = Own(r, b),
         NEW h \in Commits, b \in FirstLine[h]
  PROVE  PublicOf(r)[b] \in Reach(PublicOf(r)[h])
<1> DEFINE P == PublicOf(r)
           Leads(c) == /\ P[c] # None
                       /\ P[c].of \in b..N
                       /\ P[b] \in RoundsOf(P[c])[P[c].of - b]
           Bad == {c \in Commits : b \in FirstLine[c] /\ ~Leads(c)}
<1>0. N \in Nat /\ b \in 1..N
  BY ParentsAreEarlier DEF Commits
<1>1. \A c \in Commits : Own(r, c) # None
  BY NoneAssumption DEF Own, Became, Parsed
<1>2. Bad = {}
  <2>1. SUFFICES ASSUME Bad # {} PROVE FALSE
    OBVIOUS
  <2>2. PICK c \in Bad : \A m \in Bad : c <= m
    <3>1. Bad \in SUBSET Nat
      BY ParentsAreEarlier
    <3> QED
      BY <2>1, <3>1, LeastNat
  <2>3. c # b
    <3>1. Own(r, b).of = b /\ b - b = 0 /\ b \in b..N
      BY <1>0, OwnIsCommit
    <3>2. P[b] \in RoundsOf(P[b])[0]
      BY RoundsAre DEF Rounds
    <3>3. Leads(b)
      <4>1. P[b].of = b
        BY <3>1
      <4>2. P[b] \in RoundsOf(P[b])[P[b].of - b]
        BY <4>1, <3>1, <3>2
      <4> QED
        BY <4>1, <4>2, <3>1, <1>1
    <3> QED
      BY <3>3
  <2> DEFINE p == Parents[c][1]
  <2>4. Parents[c] # <<>> /\ b \in FirstLine[p] /\ 1 \in DOMAIN Parents[c]
    <3>1. b \in FirstLine[c]
      OBVIOUS
    <3>2. Parents[c] # <<>> /\ b \in FirstLine[p]
      <4>1. c \in Commits
        OBVIOUS
      <4> HIDE DEF Bad
      <4>2. FirstLine[c] = IF Parents[c] = <<>> THEN {c} ELSE {c} \cup FirstLine[Parents[c][1]]
        BY <4>1, FirstLineUnfolds
      <4> QED
        BY <3>1, <2>3, <4>2
    <3> QED
      BY <3>2, ParentsAreEarlier
  <2>5. c \in Nat /\ p \in 1..(c - 1) /\ p \in Commits
    BY <2>4, ParentsAreEarlier
  <2>6. Leads(p)
    <3>1. ~(c <= p)
      BY <2>5
    <3>2. p \notin Bad
      <4> HIDE DEF Bad
      <4> QED
        BY <2>2, <3>1
    <3> HIDE DEF Leads
    <3> QED
      BY <2>4, <2>5, <3>2
  <2> DEFINE s == PublicParents(Became(r, c))
  <2>7. s # <<>> /\ s[1] = P[p] /\ P[p] \in ToSet(s)
    <3>1. Became(r, c)[1] = P[p] /\ 1 \in DOMAIN Became(r, c)
      BY <2>4 DEF Became
    <3>2. Became(r, c) # <<>>
      BY <3>1
    <3>3. PICK S : Became(r, c) \in Seq(S)
      BY BecameIsSeq
    <3>4. Became(r, c)[1] # None
      BY <3>1, <2>6
    <3>5. s # <<>> /\ s[1] = Became(r, c)[1] /\ Became(r, c)[1] \in ToSet(s)
      <4> HIDE DEF P, p
      <4> QED
        BY <3>1, <3>2, <3>3, <3>4, PublicParentsKeep
    <3> QED
      BY <3>1, <3>5
  <2>8. P[c] = IF LeftEmpty(Kept(c, r), s, r) THEN MapDropped(s) ELSE Own(r, c)
    BY PublicOfUnfolds DEF Rewrite, Own, Became
  <2> HIDE DEF P, p
  <2>9. CASE LeftEmpty(Kept(c, r), s, r)
    <3>1. P[c] = P[p]
      BY <2>7, <2>8, <2>9 DEF MapDropped
    <3>2. Leads(c)
      BY <3>1, <2>6
    <3> QED
      BY <3>2, <2>2
  <2>10. CASE ~LeftEmpty(Kept(c, r), s, r)
    <3>1. P[c] = Own(r, c) /\ P[c] # None
      BY <2>8, <2>10, <1>1
    <3>2. P[c].of = c /\ P[p] \in ToSet(P[c].parents)
      BY <3>1, <2>7, OwnIsCommit
    <3>3. P[p].of \in 1..p
      <4>1. PICK d \in Anc[p] : d \in 1..p /\ P[p] = Own(r, d)
        BY <2>5, <2>6, PublicIsOwn DEF P
      <4> QED
        BY <4>1, OwnIsCommit
    <3> DEFINE k == P[p].of - b
    <3>4. k + 1 \in 1..N /\ (k + 1) - 1 = k /\ c - b \in (k + 1)..N /\ k + 1 \in 0..N /\ c \in b..N
      BY <3>3, <2>5, <2>6, <1>0 DEF Commits
    <3>5. P[b] \in RoundsOf(P[p])[k]
      BY <2>6
    <3> HIDE DEF k
    <3>6. RoundsOf(P[p])[(k + 1) - 1] \subseteq RoundsOf(P[c])[k + 1]
      BY <3>2, <3>4, RoundsShift
    <3>7. RoundsOf(P[c])[k + 1] \subseteq RoundsOf(P[c])[c - b]
      BY <3>4, RoundsGrow
    <3>8. P[b] \in RoundsOf(P[c])[c - b]
      BY <3>4, <3>5, <3>6, <3>7
    <3>9. Leads(c)
      BY <3>1, <3>2, <3>4, <3>8
    <3> QED
      BY <3>9, <2>2
  <2> QED
    BY <2>9, <2>10
<1>3. Leads(h)
  <2> HIDE DEF Leads
  <2> QED
    BY <1>2
<1> HIDE DEF P
<1>4. P[h].of - b \in 0..N /\ N \in (P[h].of - b)..N
  BY <1>0, <1>3
<1>5. RoundsOf(P[h])[P[h].of - b] \subseteq RoundsOf(P[h])[N]
  BY <1>4, RoundsGrow
<1>6. P[b] \in Reach(P[h])
  BY <1>3, <1>5, RoundsAre DEF Rounds
<1> USE DEF P
<1> QED
  BY <1>6
-------------------------------------------------------------------------------
(* The remote helper. *)

\* The map a push saves has the loaded commits and all that the tip reaches.
LEMMA ImportIs ==
  ASSUME NEW m \in SUBSET Commits, NEW c \in Commits
  PROVE  Import(m, c) = m \cup Anc[c] /\ Import(m, c) \in SUBSET Commits
<1>1. c \in Anc[c] /\ \A d \in Anc[c] : d \in Commits
  BY Histories
<1>2. \A d \in Anc[c] : Persist(m, d) = m \cup {d}
  BY DEF Persist
<1>3. Import(m, c) = UNION {m \cup {d} : d \in Anc[c]}
  BY <1>2 DEF Import
<1> QED
  BY <1>1, <1>3

\* A helper that does nothing is typed.
LEMMA IdleIsOp ==
  Idle \in Op /\ Idle.at = "idle"
<1>1. <<>> \in Seq(Nat)
  OBVIOUS
<1> QED
  BY <1>1 DEF Idle, Op

\* What each step makes of its helper.
Turn(a, x) == /\ x \in Op
              /\ op' \in [Agents -> Op]
              /\ op'[a] = x
              /\ \A b \in Agents : b # a => op'[b] = op[b]

\* One helper goes on, the others are where they were.
LEMMA Turns ==
  ASSUME op \in [Agents -> Op], NEW a \in Agents, NEW x \in Op, op' = [op EXCEPT ![a] = x]
  PROVE  Turn(a, x)
BY DEF Turn

\* A push that passed the check of its ref.
LEMMA PushTurn ==
  ASSUME GitTypes, NEW a \in Agents, PushCheck(a)
  PROVE  \E dst \in Refs, new \in local[a], force \in BOOLEAN :
           /\ force \/ IsFastForward(a, refs[dst], new)
           /\ new \in Commits
           /\ Turn(a, [Idle EXCEPT !.at = "load", !.dst = dst, !.new = new, !.force = force])
<1>1. PICK dst \in Refs, new \in local[a], force \in BOOLEAN :
        /\ force \/ IsFastForward(a, refs[dst], new)
        /\ op' = [op EXCEPT ![a] = [op[a] EXCEPT !.at = "load", !.dst = dst, !.new = new,
                                                 !.force = force]]
  BY DEF PushCheck, Published
<1> DEFINE x == [Idle EXCEPT !.at = "load", !.dst = dst, !.new = new, !.force = force]
<1>2. op[a] = Idle /\ new \in Commits /\ new \in Nat
  BY ParentsAreEarlier DEF PushCheck, MayStart, GitTypes
<1>3. op' = [op EXCEPT ![a] = x]
  BY <1>1, <1>2
<1>4. Idle \in Op
  BY IdleIsOp
<1>5. x \in Op
  BY <1>2, <1>4 DEF Op, Pushing
<1> HIDE DEF x
<1>6. Turn(a, x)
  BY <1>3, <1>5, Turns DEF GitTypes
<1> USE DEF x
<1> QED
  BY <1>1, <1>2, <1>6

\* It reads the oid map.
LEMMA LoadTurn ==
  ASSUME GitTypes, NEW a \in Agents, ImportLoad(a)
  PROVE  Turn(a, IF torn THEN Idle ELSE [op[a] EXCEPT !.at = "save", !.loaded = map])
<1> DEFINE x == IF torn THEN Idle ELSE [op[a] EXCEPT !.at = "save", !.loaded = map]
<1>1. op' = [op EXCEPT ![a] = x]
  BY DEF ImportLoad, GitTypes, Op
<1>2. x \in Op
  <2>1. [op[a] EXCEPT !.at = "save", !.loaded = map] \in Op
    BY DEF GitTypes, Op, Pushing
  <2> QED
    BY <2>1, IdleIsOp
<1> HIDE DEF x
<1>3. Turn(a, x)
  BY <1>1, <1>2, Turns DEF GitTypes
<1> QED
  BY <1>3 DEF x

\* It saves the map.
LEMMA SaveTurn ==
  ASSUME GitTypes, NEW a \in Agents, ImportSave(a)
  PROVE  Turn(a, [op[a] EXCEPT !.at = "ref"])
<1> DEFINE x == [op[a] EXCEPT !.at = "ref"]
<1>1. op' = [op EXCEPT ![a] = x]
  BY DEF ImportSave, GitTypes, Op
<1>2. x \in Op
  BY DEF GitTypes, Op, Pushing
<1> HIDE DEF x
<1>3. Turn(a, x)
  BY <1>1, <1>2, Turns DEF GitTypes
<1> QED
  BY <1>3 DEF x

\* A patch is stored under the next number.
LEMMA StoreTurn ==
  ASSUME GitTypes, NEW a \in Agents, PatchStore(a)
  PROVE  /\ Cardinality(stored) \in Nat
         /\ Turn(a, [Idle EXCEPT !.at = "append", !.new = Cardinality(stored) + 1,
                              !.read = queue])
<1> DEFINE x == [Idle EXCEPT !.at = "append", !.new = Cardinality(stored) + 1, !.read = queue]
<1>1. Cardinality(stored) \in Nat
  BY FS_CardinalityType DEF GitTypes
<1>2. op' = [op EXCEPT ![a] = [op[a] EXCEPT !.at = "append", !.new = Cardinality(stored) + 1,
                                            !.read = queue]] /\ op[a] = Idle
  BY DEF PatchStore, MayStart
<1>3. op' = [op EXCEPT ![a] = x]
  BY <1>2
<1>4. x \in Op
  <2>1. Cardinality(stored) + 1 \in Nat /\ queue \in Seq(Nat)
    BY <1>1 DEF GitTypes
  <2> QED
    BY <2>1, IdleIsOp DEF Op
<1> HIDE DEF x
<1>5. Turn(a, x)
  BY <1>3, <1>4, Turns DEF GitTypes
<1> QED
  BY <1>1, <1>5 DEF x

\* A helper ends, or is killed.
LEMMA IdleTurn ==
  ASSUME GitTypes, NEW a \in Agents, UpdateRef(a) \/ PatchAppend(a) \/ Kill(a)
         \/ ImportSaveTorn(a) \/ UpdateRefTorn(a) \/ PatchAppendTorn(a)
  PROVE  Turn(a, Idle)
<1>1. op' = [op EXCEPT ![a] = Idle]
  BY DEF UpdateRef, PatchAppend, Kill, ImportSaveTorn, UpdateRefTorn, PatchAppendTorn
<1> QED
  BY <1>1, IdleIsOp, Turns DEF GitTypes

\* A step of a helper keeps the types when what it writes is typed.
LEMMA TurnKeepsTypes ==
  ASSUME GitTypes, NEW a \in Agents, NEW x, Turn(a, x),
         x.at \in Pushing => x.dst \in Refs /\ x.new \in Commits
  PROVE  /\ op' \in [Agents -> Op]
         /\ \A b \in Agents : op'[b].at \in Pushing => op'[b].dst \in Refs /\ op'[b].new \in Commits
BY DEF Turn, GitTypes

\* Every step keeps the types.
LEMMA GitTypesStep ==
  ASSUME GitTypes, [Next]_vars
  PROVE  GitTypes'
<1>1. CASE UNCHANGED vars
  BY <1>1 DEF GitTypes, vars, gitVars
<1>2. CASE MirrorNext
  <2>1. UNCHANGED git /\ (cmds' = cmds \/ cmds' = cmds + 1)
    BY <1>2 DEF MirrorNext, WriteRules, Start, MaterializeRefs, DryRunDerive, PublishDerive,
       PublishScan, PublishMap, SignPublish, MirrorKill, Counted, git, gitVars
  <2> QED
    BY <2>1 DEF GitTypes, git
<1>3. ASSUME NEW a \in Agents, Commit(a) PROVE GitTypes'
  BY <1>3 DEF Commit, GitTypes
<1>4. ASSUME NEW a \in Agents, Fetch(a) PROVE GitTypes'
  BY <1>4 DEF Fetch, Counted, GitTypes
<1>5. ASSUME NEW a \in Agents, PushCheck(a) PROVE GitTypes'
  <2>1. PICK dst \in Refs, new \in local[a], force \in BOOLEAN :
          /\ new \in Commits
          /\ Turn(a, [Idle EXCEPT !.at = "load", !.dst = dst, !.new = new, !.force = force])
    BY <1>5, PushTurn
  <2> DEFINE x == [Idle EXCEPT !.at = "load", !.dst = dst, !.new = new, !.force = force]
  <2>2. x.dst \in Refs /\ x.new \in Commits
    BY <2>1, IdleIsOp DEF Op
  <2> HIDE DEF x
  <2>3. Turn(a, x)
    BY <2>1 DEF x
  <2>4. GitTypes!6' /\ GitTypes!11'
    BY <2>2, <2>3, TurnKeepsTypes
  <2> QED
    BY <1>5, <2>4 DEF PushCheck, Counted, GitTypes
<1>6. ASSUME NEW a \in Agents, ImportLoad(a) PROVE GitTypes'
  <2> DEFINE x == IF torn THEN Idle ELSE [op[a] EXCEPT !.at = "save", !.loaded = map]
  <2>1. x.at \in Pushing => x.dst \in Refs /\ x.new \in Commits
    <3>1. CASE torn
      BY <3>1, IdleIsOp DEF Pushing
    <3>2. CASE ~torn
      BY <1>6, <3>2 DEF ImportLoad, GitTypes, Op, Pushing
    <3> QED
      BY <3>1, <3>2
  <2> HIDE DEF x
  <2>2. Turn(a, x)
    BY <1>6, LoadTurn DEF x
  <2>3. GitTypes!6' /\ GitTypes!11'
    BY <2>1, <2>2, TurnKeepsTypes
  <2> QED
    BY <1>6, <2>3 DEF ImportLoad, GitTypes
<1>7. ASSUME NEW a \in Agents, ImportSave(a) PROVE GitTypes'
  <2> DEFINE x == [op[a] EXCEPT !.at = "ref"]
  <2>1. x.dst \in Refs /\ x.new \in Commits /\ op[a].new \in Commits /\ op[a].loaded \in SUBSET Commits
    BY <1>7 DEF ImportSave, GitTypes, Op, Pushing
  <2> HIDE DEF x
  <2>2. Turn(a, x)
    BY <1>7, SaveTurn DEF x
  <2>3. GitTypes!6' /\ GitTypes!11'
    BY <2>1, <2>2, TurnKeepsTypes
  <2>4. map' \in SUBSET Commits
    BY <1>7, <2>1, ImportIs DEF ImportSave
  <2> QED
    BY <1>7, <2>3, <2>4 DEF ImportSave, GitTypes
<1>8. ASSUME NEW a \in Agents, UpdateRef(a) PROVE GitTypes'
  <2>1. Turn(a, Idle) /\ Idle.at \notin Pushing
    BY <1>8, IdleTurn, IdleIsOp DEF Pushing
  <2>2. GitTypes!6' /\ GitTypes!11'
    BY <2>1, TurnKeepsTypes
  <2>3. refs' \in [Refs -> Commits \cup {None}]
    BY <1>8 DEF UpdateRef, GitTypes, Pushing
  <2> QED
    BY <1>8, <2>2, <2>3 DEF UpdateRef, GitTypes
<1>9. ASSUME NEW a \in Agents, PatchStore(a) PROVE GitTypes'
  <2> DEFINE x == [Idle EXCEPT !.at = "append", !.new = Cardinality(stored) + 1, !.read = queue]
  <2>1. x.at \notin Pushing
    BY IdleIsOp DEF Op, Pushing
  <2> HIDE DEF x
  <2>2. Turn(a, x)
    BY <1>9, StoreTurn DEF x
  <2>3. GitTypes!6' /\ GitTypes!11'
    BY <2>1, <2>2, TurnKeepsTypes
  <2>4. IsFiniteSet(stored')
    BY <1>9, FS_AddElement DEF PatchStore, GitTypes
  <2> QED
    BY <1>9, <2>3, <2>4 DEF PatchStore, Counted, GitTypes
<1>10. ASSUME NEW a \in Agents, PatchAppend(a) PROVE GitTypes'
  <2>1. Turn(a, Idle) /\ Idle.at \notin Pushing
    BY <1>10, IdleTurn, IdleIsOp DEF Pushing
  <2>2. GitTypes!6' /\ GitTypes!11'
    BY <2>1, TurnKeepsTypes
  <2>3. op[a].read \in Seq(Nat) /\ op[a].new \in Nat
    BY DEF GitTypes, Op
  <2>4. queue' \in Seq(Nat) /\ told' \in SUBSET Nat
    <3>1. queue' = Append(op[a].read, op[a].new) /\ told' = told \cup {op[a].new}
      BY <1>10 DEF PatchAppend, AppendQueue
    <3> HIDE DEF PatchAppend
    <3>2. queue' \in Seq(Nat)
      BY <2>3, <3>1, AppendProperties
    <3> QED
      BY <2>3, <3>1, <3>2 DEF GitTypes
  <2> QED
    BY <1>10, <2>2, <2>4 DEF PatchAppend, GitTypes
<1>11. ASSUME NEW a \in Agents, Kill(a) PROVE GitTypes'
  <2>1. Turn(a, Idle) /\ Idle.at \notin Pushing
    BY <1>11, IdleTurn, IdleIsOp DEF Pushing
  <2>2. GitTypes!6' /\ GitTypes!11'
    BY <2>1, TurnKeepsTypes
  <2> QED
    BY <1>11, <2>2 DEF Kill, GitTypes
<1>12. ASSUME NEW a \in Agents, ImportSaveTorn(a) \/ UpdateRefTorn(a) \/ PatchAppendTorn(a)
       PROVE  GitTypes'
  <2>1. Turn(a, Idle) /\ Idle.at \notin Pushing
    BY <1>12, IdleTurn, IdleIsOp DEF Pushing
  <2>2. GitTypes!6' /\ GitTypes!11'
    BY <2>1, TurnKeepsTypes
  <2>3. refs' \in [Refs -> Commits \cup {None}]
    BY <1>12 DEF ImportSaveTorn, UpdateRefTorn, PatchAppendTorn, GitTypes
  <2>4. queue' \in Seq(Nat)
    <3>1. queue' = queue \/ queue' = <<>>
      BY <1>12 DEF ImportSaveTorn, UpdateRefTorn, PatchAppendTorn
    <3>2. <<>> \in Seq(Nat)
      OBVIOUS
    <3> QED
      BY <3>1, <3>2 DEF GitTypes
  <2> QED
    BY <1>12, <2>2, <2>3, <2>4 DEF ImportSaveTorn, UpdateRefTorn, PatchAppendTorn, GitTypes
<1> QED
  BY <1>1, <1>2, <1>3, <1>4, <1>5, <1>6, <1>7, <1>8, <1>9, <1>10, <1>11, <1>12 DEF Next, GitNext

\* With one helper at a time, while one is at work the others are idle.
Alone(a) == \A b \in Agents : b # a => op'[b] = Idle

\* A step of one helper leaves it the only one.
LEMMA OneHelperStep ==
  ASSUME Exclusive, GitTypes, OneHelper, NEW a \in Agents, NEW x, Turn(a, x),
         op[a] # Idle \/ MayStart(a), x.at = "idle" => x = Idle
  PROVE  OneHelper' /\ Alone(a)
<1>1. \A b \in Agents : b # a => op[b] = Idle
  BY DEF OneHelper, MayStart
<1>2. Alone(a)
  BY <1>1 DEF Turn, Alone
<1>3. op'[a] = x
  BY DEF Turn
<1> QED
  BY <1>2, <1>3 DEF Alone, OneHelper

\* Every step keeps what holds of the helpers.
LEMMA GitInvStep ==
  ASSUME Exclusive, GitInv, [Next]_vars
  PROVE  GitInv'
<1> USE DEF GitInv
<1>0. GitTypes'
  BY GitTypesStep
<1>1. CASE UNCHANGED git
  BY <1>0, <1>1 DEF git, OneHelper, RefsHeld, PushHolds, QueueHolds
<1>2. CASE UNCHANGED <<map, refs, op, queue, stored, told, dropped>>
  BY <1>0, <1>2 DEF OneHelper, RefsHeld, PushHolds, QueueHolds
<1>3. ASSUME NEW a \in Agents, PushCheck(a) PROVE GitInv'
  <2>1. PICK dst \in Refs, new \in local[a], force \in BOOLEAN :
          /\ force \/ IsFastForward(a, refs[dst], new)
          /\ new \in Commits
          /\ Turn(a, [Idle EXCEPT !.at = "load", !.dst = dst, !.new = new, !.force = force])
    BY <1>3, PushTurn
  <2> DEFINE x == [Idle EXCEPT !.at = "load", !.dst = dst, !.new = new, !.force = force]
  <2>2. x.at = "load" /\ x.dst = dst /\ x.new = new /\ x.force = force
    BY IdleIsOp DEF Op
  <2>3. Turn(a, x)
    BY <2>1
  <2> HIDE DEF x
  <2>4. OneHelper' /\ Alone(a) /\ op'[a] = x
    BY <1>3, <2>2, <2>3, OneHelperStep DEF PushCheck, Turn
  <2>5. UNCHANGED <<map, refs, queue, stored, told, dropped>>
    BY <1>3 DEF PushCheck
  <2>6. force \/ refs[dst] = None \/ refs[dst] \in Anc[new]
    BY <2>1, Histories DEF IsFastForward
  <2>7. PushHolds'
    BY <2>2, <2>4, <2>5, <2>6, IdleIsOp DEF PushHolds, Alone, Pushing
  <2>8. QueueHolds'
    BY <2>2, <2>4, <2>5, IdleIsOp DEF QueueHolds, Alone
  <2> QED
    BY <1>0, <2>4, <2>5, <2>7, <2>8 DEF RefsHeld
<1>4. ASSUME NEW a \in Agents, ImportLoad(a) PROVE GitInv'
  <2> DEFINE x == IF torn THEN Idle ELSE [op[a] EXCEPT !.at = "save", !.loaded = map]
  <2>1. \/ x = Idle
        \/ /\ x.at = "save" /\ x.loaded = map
           /\ x.dst = op[a].dst /\ x.new = op[a].new /\ x.force = op[a].force
    BY DEF GitTypes, Op
  <2>2. Turn(a, x)
    BY <1>4, LoadTurn
  <2> HIDE DEF x
  <2>3. op[a].at = "load" /\ op[a] # Idle /\ UNCHANGED <<map, refs, queue, stored, told, dropped>>
    BY <1>4, IdleIsOp DEF ImportLoad
  <2>4. OneHelper' /\ Alone(a) /\ op'[a] = x
    BY <2>1, <2>2, <2>3, OneHelperStep DEF Turn
  <2>5. PushHolds'
    BY <2>1, <2>3, <2>4, IdleIsOp DEF PushHolds, Alone, Pushing
  <2>6. QueueHolds'
    BY <2>1, <2>3, <2>4, IdleIsOp DEF QueueHolds, Alone
  <2> QED
    BY <1>0, <2>3, <2>4, <2>5, <2>6 DEF RefsHeld
<1>5. ASSUME NEW a \in Agents, ImportSave(a) PROVE GitInv'
  <2> DEFINE x == [op[a] EXCEPT !.at = "ref"]
  <2>1. /\ x.at = "ref"
        /\ x.dst = op[a].dst /\ x.new = op[a].new /\ x.force = op[a].force
    BY DEF GitTypes, Op
  <2>2. Turn(a, x)
    BY <1>5, SaveTurn
  <2> HIDE DEF x
  <2>3. op[a].at = "save" /\ op[a] # Idle /\ UNCHANGED <<refs, queue, stored, told, dropped>>
    BY <1>5, IdleIsOp DEF ImportSave
  <2>4. OneHelper' /\ Alone(a) /\ op'[a] = x
    BY <2>1, <2>2, <2>3, OneHelperStep DEF Turn
  <2>5. map' = map \cup Anc[op[a].new]
    <3>1. op[a].new \in Commits /\ op[a].loaded = map /\ map \in SUBSET Commits
      BY <2>3 DEF GitTypes, Pushing, PushHolds
    <3> QED
      BY <1>5, <3>1, ImportIs DEF ImportSave
  <2>6. PushHolds'
    BY <2>1, <2>3, <2>4, <2>5, IdleIsOp DEF PushHolds, Alone, Pushing
  <2>7. QueueHolds'
    BY <2>1, <2>3, <2>4, IdleIsOp DEF QueueHolds, Alone
  <2> QED
    BY <1>0, <2>3, <2>4, <2>5, <2>6, <2>7 DEF RefsHeld
<1>6. ASSUME NEW a \in Agents, UpdateRef(a) PROVE GitInv'
  <2>1. Turn(a, Idle) /\ op[a].at = "ref" /\ op[a] # Idle
        /\ UNCHANGED <<map, queue, stored, told, dropped>>
    BY <1>6, IdleTurn, IdleIsOp DEF UpdateRef
  <2>2. OneHelper' /\ Alone(a) /\ op'[a] = Idle
    BY <2>1, OneHelperStep DEF Turn
  <2>3. PushHolds' /\ QueueHolds'
    BY <2>1, <2>2, IdleIsOp DEF PushHolds, QueueHolds, Alone, Pushing
  <2>4. RefsHeld'
    <3>1. Anc[op[a].new] \subseteq map
      BY <2>1 DEF PushHolds
    <3>2. refs' = [refs EXCEPT ![op[a].dst] = op[a].new]
      BY <1>6 DEF UpdateRef
    <3>3. \A r \in Refs : refs'[r] = op[a].new \/ refs'[r] = refs[r]
      BY <3>2 DEF GitTypes
    <3> QED
      BY <3>1, <3>3, <2>1 DEF RefsHeld
  <2> QED
    BY <1>0, <2>2, <2>3, <2>4
<1>7. ASSUME NEW a \in Agents, PatchStore(a) PROVE GitInv'
  <2> DEFINE n == Cardinality(stored)
             x == [Idle EXCEPT !.at = "append", !.new = n + 1, !.read = queue]
  <2>1. x.at = "append" /\ x.new = n + 1 /\ x.read = queue
    BY IdleIsOp DEF Op
  <2>2. Turn(a, x) /\ n \in Nat
    BY <1>7, StoreTurn
  <2> HIDE DEF x
  <2>3. stored' = stored \cup {<<n + 1, "ours">>} /\ UNCHANGED <<map, refs, queue, told, dropped>>
    BY <1>7 DEF PatchStore
  <2>4. OneHelper' /\ Alone(a) /\ op'[a] = x
    BY <1>7, <2>1, <2>2, OneHelperStep DEF PatchStore, Turn
  <2>5. PushHolds'
    BY <2>1, <2>4, IdleIsOp DEF PushHolds, Alone, Pushing
  <2>6. Cardinality(stored') = n + 1
    <3>1. <<n + 1, "ours">> \notin stored
      BY <2>2 DEF QueueHolds
    <3> QED
      BY <2>3, <3>1, FS_AddElement DEF GitTypes
  <2>7. QueueHolds'
    <3> HIDE DEF n
    <3>1. \A s \in stored' : s[1] \in 1..(n + 1) /\ s = <<s[1], "ours">>
      BY <2>2, <2>3 DEF QueueHolds, n
    <3>2. \A i \in DOMAIN queue : queue[i] \in 1..(n + 1) /\ queue[i] # n + 1
      BY <2>2 DEF QueueHolds, n
    <3>3. n + 1 \in 1..(n + 1)
      BY <2>2
    <3>4. \A b \in Agents : op'[b].at = "append" => op'[b] = x
      BY <2>4, IdleIsOp DEF Alone
    <3> QED
      <4>1. \A s \in stored' : s[1] \in 1..Cardinality(stored') /\ s = <<s[1], "ours">>
        BY <3>1, <2>6
      <4>2. \A i \in DOMAIN queue' : queue'[i] \in 1..Cardinality(stored')
        BY <3>2, <2>3, <2>6
      <4>3. /\ \A i, j \in DOMAIN queue' : queue'[i] = queue'[j] => i = j
            /\ \A t \in told' : <<t, "ours">> \in stored'
            /\ \A t \in told' \ dropped' : \E i \in DOMAIN queue' : queue'[i] = t
        BY <2>3 DEF QueueHolds
      <4>4. ASSUME NEW b \in Agents, op'[b].at = "append"
            PROVE  /\ op'[b].read = queue' /\ <<op'[b].new, "ours">> \in stored'
                   /\ op'[b].new \in 1..Cardinality(stored')
                   /\ \A i \in DOMAIN queue' : queue'[i] # op'[b].new
        <5>1. op'[b].read = queue /\ op'[b].new = n + 1
          BY <4>4, <3>4, <2>1
        <5> QED
          BY <5>1, <3>2, <3>3, <2>3, <2>6
      <4> QED
        BY <4>1, <4>2, <4>3, <4>4 DEF QueueHolds
  <2> QED
    BY <1>0, <2>3, <2>4, <2>5, <2>7 DEF RefsHeld
<1>8. ASSUME NEW a \in Agents, PatchAppend(a) PROVE GitInv'
  <2>1. Turn(a, Idle) /\ op[a].at = "append" /\ op[a] # Idle /\ UNCHANGED <<map, refs, stored, dropped>>
    BY <1>8, IdleTurn, IdleIsOp DEF PatchAppend
  <2>2. OneHelper' /\ Alone(a) /\ op'[a] = Idle
    BY <2>1, OneHelperStep DEF Turn
  <2>3. PushHolds'
    BY <2>2, IdleIsOp DEF PushHolds, Alone, Pushing
  <2> DEFINE k == op[a].new
             m == Len(queue)
  <2>4. queue' = Append(queue, k) /\ told' = told \cup {k}
    BY <1>8, <2>1 DEF PatchAppend, AppendQueue, QueueHolds
  <2>5. k \in 1..Cardinality(stored) /\ \A i \in DOMAIN queue : queue[i] # k
    BY <2>1 DEF QueueHolds
  <2>6. /\ m \in Nat /\ DOMAIN queue = 1..m /\ DOMAIN queue' = 1..(m + 1)
        /\ queue'[m + 1] = k
        /\ \A i \in 1..m : queue'[i] = queue[i]
    <3>1. queue \in Seq(Nat) /\ k \in Nat
      BY DEF GitTypes, Op
    <3> HIDE DEF k
    <3> QED
      BY <2>4, <3>1
  <2> HIDE DEF k, m
  <2>7. \A i \in 1..(m + 1) : i = m + 1 \/ i \in 1..m
    BY <2>6
  <2>8. \A b \in Agents : op'[b].at # "append"
    BY <2>2, IdleIsOp DEF Alone
  <2>9. \A i \in DOMAIN queue' : queue'[i] \in 1..Cardinality(stored')
    BY <2>1, <2>5, <2>6, <2>7 DEF QueueHolds
  <2>10. \A i, j \in DOMAIN queue' : queue'[i] = queue'[j] => i = j
    BY <2>5, <2>6, <2>7 DEF QueueHolds
  <2>11. \A n \in told' \ dropped' : \E i \in DOMAIN queue' : queue'[i] = n
    <3>1. m + 1 \in DOMAIN queue' /\ \A i \in 1..m : i \in DOMAIN queue'
      BY <2>6
    <3> QED
      BY <3>1, <2>1, <2>4, <2>6 DEF QueueHolds
  <2>12. \A n \in told' : <<n, "ours">> \in stored'
    BY <2>1, <2>4 DEF QueueHolds, k
  <2>13. QueueHolds'
    BY <2>1, <2>8, <2>9, <2>10, <2>11, <2>12 DEF QueueHolds
  <2> QED
    BY <1>0, <2>1, <2>2, <2>3, <2>13 DEF RefsHeld
<1>9. ASSUME NEW a \in Agents, Kill(a) PROVE GitInv'
  <2>1. Turn(a, Idle) /\ op[a] # Idle /\ UNCHANGED <<map, refs, queue, stored, told, dropped>>
    BY <1>9, IdleTurn DEF Kill
  <2>2. OneHelper' /\ Alone(a) /\ op'[a] = Idle
    BY <2>1, OneHelperStep DEF Turn
  <2>3. PushHolds' /\ QueueHolds'
    BY <2>1, <2>2, IdleIsOp DEF PushHolds, QueueHolds, Alone, Pushing
  <2> QED
    BY <1>0, <2>1, <2>2, <2>3 DEF RefsHeld
<1>10. ASSUME NEW a \in Agents, Commit(a) \/ Fetch(a) PROVE GitInv'
  BY <1>2, <1>10 DEF Commit, Fetch
<1>11. CASE UNCHANGED vars
  BY <1>1, <1>11 DEF vars, gitVars, git
<1>12. CASE MirrorNext
  BY <1>1, <1>12 DEF MirrorNext, WriteRules, Start, MaterializeRefs, DryRunDerive, PublishDerive,
     PublishScan, PublishMap, SignPublish, MirrorKill, git, gitVars
<1>13. ASSUME NEW a \in Agents, ImportSaveTorn(a) \/ UpdateRefTorn(a) PROVE GitInv'
  <2>1. Turn(a, Idle) /\ op[a] # Idle /\ UNCHANGED <<map, queue, stored, told, dropped>>
    BY <1>13, IdleTurn, IdleIsOp DEF ImportSaveTorn, UpdateRefTorn
  <2>2. OneHelper' /\ Alone(a) /\ op'[a] = Idle
    BY <2>1, OneHelperStep DEF Turn
  <2>3. PushHolds' /\ QueueHolds'
    BY <2>1, <2>2, IdleIsOp DEF PushHolds, QueueHolds, Alone, Pushing
  <2>4. \A r \in Refs : refs'[r] = None \/ refs'[r] = refs[r]
    BY <1>13 DEF ImportSaveTorn, UpdateRefTorn, GitTypes
  <2>5. RefsHeld'
    BY <2>1, <2>4 DEF RefsHeld
  <2> QED
    BY <1>0, <2>2, <2>3, <2>5
<1>14. ASSUME NEW a \in Agents, PatchAppendTorn(a) PROVE GitInv'
  <2>1. /\ Turn(a, Idle) /\ op[a] # Idle /\ UNCHANGED <<map, refs, stored, told>>
        /\ queue' = <<>> /\ dropped' = told
    BY <1>14, IdleTurn, IdleIsOp DEF PatchAppendTorn
  <2>2. OneHelper' /\ Alone(a) /\ op'[a] = Idle
    BY <2>1, OneHelperStep DEF Turn
  <2>3. PushHolds' /\ \A b \in Agents : op'[b].at # "append"
    BY <2>1, <2>2, IdleIsOp DEF PushHolds, Alone, Pushing
  <2>4. DOMAIN queue' = {} /\ told' \ dropped' = {}
    BY <2>1
  <2>5. QueueHolds'
    BY <2>1, <2>3, <2>4 DEF QueueHolds
  <2> QED
    BY <1>0, <2>1, <2>2, <2>3, <2>5 DEF RefsHeld
<1> QED
  BY <1>3, <1>4, <1>5, <1>6, <1>7, <1>8, <1>9, <1>10, <1>11, <1>12, <1>13, <1>14 DEF Next, GitNext

\* A patch number that is in the queue, and at one place only, is there once.
LEMMA QueuedIsOnce ==
  ASSUME GitTypes, QueueHolds
  PROVE  ExportsAreQueued
<1>1. ASSUME NEW n \in told \ dropped PROVE Cardinality({i \in DOMAIN queue : queue[i] = n}) = 1
  <2>1. PICK i \in DOMAIN queue : queue[i] = n
    BY DEF QueueHolds
  <2>2. {j \in DOMAIN queue : queue[j] = n} = {i}
    BY <2>1 DEF QueueHolds
  <2> QED
    BY <2>2, FS_Singleton
<1> QED
  BY <1>1 DEF ExportsAreQueued, QueueHolds

\* It holds at first.
LEMMA GitInvInit ==
  ASSUME Init
  PROVE  GitInv
<1> USE DEF Init, GitInit
<1>1. <<>> \in Seq(Nat) /\ DOMAIN (<<>>) = {}
  OBVIOUS
<1>2. IsFiniteSet(stored)
  BY FS_EmptySet
<1>3. \A a \in Agents : op[a] = Idle /\ op[a].at = "idle" /\ op[a] \in Op
  BY IdleIsOp
<1>4. GitTypes
  BY <1>1, <1>2, <1>3 DEF GitTypes, Pushing
<1>5. OneHelper /\ RefsHeld /\ PushHolds
  BY <1>3 DEF OneHelper, RefsHeld, PushHolds, Pushing
<1>6. QueueHolds
  BY <1>1, <1>3 DEF QueueHolds
<1> QED
  BY <1>4, <1>5, <1>6 DEF GitInv

\* With one helper at a time on the namespace, every published ref can be
\* cloned unless the oid map's pointer was left empty, and every acknowledged
\* patch is stored, and queued once unless a later rewrite of the queue was cut
\* off, wherever helpers were killed and whatever the mirror does (push_one,
\* import_reachable, save_map, append_queue).
THEOREM AnsweredHolds ==
  Exclusive => (Spec => []AnsweredIsStored)
<1> SUFFICES ASSUME Exclusive PROVE Spec => []AnsweredIsStored
  OBVIOUS
<1>1. Init => GitInv
  BY GitInvInit
<1>2. GitInv /\ [Next]_vars => GitInv'
  BY GitInvStep
<1>3. GitInv => AnsweredIsStored
  BY QueuedIsOnce DEF GitInv, AnsweredIsStored, RefsHeld, RefsAreComplete
<1> QED
  BY <1>1, <1>2, <1>3, PTL DEF Spec

\* A push that was not forced extends the ref it moves, or dies and leaves none.
LEMMA PushExtends ==
  ASSUME GitInv, [Next]_vars, NEW a \in Agents,
         op[a].at = "ref", ~op[a].force, refs' # refs, refs[op[a].dst] # None
  PROVE  refs'[op[a].dst] = None \/ refs[op[a].dst] \in Anc[refs'[op[a].dst]]
<1>1. PICK b \in Agents : UpdateRef(b) \/ UpdateRefTorn(b)
  BY DEF Next, GitNext, Commit, PushCheck, ImportLoad, ImportSave, Fetch, PatchStore, PatchAppend,
     ImportSaveTorn, PatchAppendTorn, Kill, MirrorNext, WriteRules, Start, MaterializeRefs, DryRunDerive, PublishDerive,
     PublishScan, PublishMap, SignPublish, MirrorKill, git, gitVars, vars
<1>2. b = a
  BY <1>1, IdleIsOp DEF UpdateRef, UpdateRefTorn, GitInv, OneHelper
<1>3. /\ op[a].dst \in Refs
      /\ \/ refs' = [refs EXCEPT ![op[a].dst] = op[a].new]
         \/ refs' = [refs EXCEPT ![op[a].dst] = None]
  BY <1>1, <1>2 DEF UpdateRef, UpdateRefTorn, GitInv, GitTypes, Pushing
<1>4. refs[op[a].dst] \in Anc[op[a].new]
  BY DEF GitInv, PushHolds, Pushing
<1> QED
  BY <1>3, <1>4 DEF GitInv, GitTypes
-------------------------------------------------------------------------------
(* The mirror. *)

\* A derivation's head is what its tip became, over the commits it wrote.
LEMMA DeriveIs ==
  ASSUME NEW r, NEW h \in Commits \cup {None}, Derive(r, h).head # None
  PROVE  /\ h \in Commits
         /\ Derive(r, h).head = PublicOf(r)[h]
         /\ Derive(r, h).objs = Written(r, h)
<1>1. h # None /\ h \in Commits
  BY DEF Derive
<1>2. h \in Anc[h]
  BY <1>1, Histories
<1> QED
  BY <1>1, <1>2 DEF Derive, Mapped

\* A mirror command that does nothing is typed.
LEMMA MirrorIdleIsOp ==
  MirrorIdle \in MirrorOp /\ MirrorIdle.at = "idle"
BY DEF MirrorIdle, MirrorOp, Steps

\* What holds of the mirror holds at first.
LEMMA MirrorInvInit ==
  ASSUME Init
  PROVE  MirrorInv
BY MirrorIdleIsOp, RulesAssumption
   DEF Init, MirrorInv, MirrorTypes, PublicIsDerived, ApprovalHolds

\* Every step keeps it.
LEMMA MirrorInvStep ==
  ASSUME GitTypes, MirrorInv, [Next]_vars
  PROVE  MirrorInv'
<1> USE DEF MirrorInv
<1>1. CASE UNCHANGED mirrorVars
  BY <1>1 DEF mirrorVars, MirrorTypes, PublicIsDerived, ApprovalHolds
<1>2. CASE WriteRules
  <2>1. rules' \in RuleSets /\ UNCHANGED <<public, approval, mop>>
    BY <1>2 DEF WriteRules
  <2> QED
    BY <2>1 DEF MirrorTypes, PublicIsDerived, ApprovalHolds
<1>3. ASSUME NEW persist \in BOOLEAN, Start(persist) PROVE MirrorInv'
  <2> DEFINE x == [MirrorIdle EXCEPT !.at = "refs", !.persist = persist, !.rules = rules,
                                     !.objs = map]
  <2>1. mop' = x /\ rules \in Parsed /\ UNCHANGED <<rules, public, approval>>
    BY <1>3 DEF Start, MirrorTypes, Parsed
  <2>2. x \in MirrorOp /\ x.at = "refs" /\ x.rules = rules
    BY <2>1, MirrorIdleIsOp DEF MirrorOp, Steps, GitTypes
  <2> HIDE DEF x
  <2> QED
    BY <2>1, <2>2 DEF MirrorTypes, PublicIsDerived, ApprovalHolds
<1>4. CASE MaterializeRefs
  <2> DEFINE x == [mop EXCEPT !.at = "derive", !.head = refs["main"]]
  <2>1. mop' = x \/ mop' = MirrorIdle
    BY <1>4 DEF MaterializeRefs
  <2>2. mop.at = "refs" /\ UNCHANGED <<rules, public, approval>>
    BY <1>4 DEF MaterializeRefs
  <2>3. x \in MirrorOp /\ x.at = "derive" /\ x.rules = mop.rules
    <3>1. refs["main"] \in Commits \cup {None}
      BY DagAssumption DEF GitTypes
    <3> QED
      BY <3>1 DEF MirrorOp, Steps, MirrorTypes
  <2> HIDE DEF x
  <2> QED
    BY <2>1, <2>2, <2>3, MirrorIdleIsOp DEF MirrorTypes, PublicIsDerived, ApprovalHolds
<1>5. CASE DryRunDerive \/ MirrorKill
  <2>1. mop' = MirrorIdle /\ UNCHANGED <<rules, public, approval>>
    BY <1>5 DEF DryRunDerive, MirrorKill
  <2> QED
    BY <2>1, MirrorIdleIsOp DEF MirrorTypes, PublicIsDerived, ApprovalHolds
<1>6. CASE PublishDerive
  <2> DEFINE x == [mop EXCEPT !.at = "scan"]
  <2>1. /\ mop.at = "derive" /\ mop' = x /\ public' = Derive(mop.rules, mop.head)
        /\ UNCHANGED <<rules, approval>>
    BY <1>6 DEF PublishDerive
  <2>2. x \in MirrorOp /\ x.at = "scan" /\ x.rules = mop.rules /\ x.head = mop.head
    BY DEF MirrorOp, Steps, MirrorTypes
  <2>3. mop.rules \in Parsed /\ mop.head \in Commits \cup {None}
    BY <2>1 DEF MirrorTypes, MirrorOp
  <2> HIDE DEF x
  <2> QED
    BY <2>1, <2>2, <2>3 DEF MirrorTypes, PublicIsDerived, ApprovalHolds
<1>7. CASE PublishScan
  <2>1. mop.at = "scan" /\ UNCHANGED <<rules, approval>>
    BY <1>7 DEF PublishScan
  <2>2. CASE ScanSecrets(public)
    <3>1. public' = None /\ mop' = MirrorIdle
      BY <1>7, <2>2 DEF PublishScan
    <3> QED
      BY <2>1, <3>1, MirrorIdleIsOp DEF MirrorTypes, PublicIsDerived, ApprovalHolds
  <2>3. CASE ~ScanSecrets(public)
    <3> DEFINE x == [mop EXCEPT !.at = "map"]
    <3>1. mop' = x /\ public' = public
      BY <1>7, <2>3 DEF PublishScan
    <3>2. x \in MirrorOp /\ x.at = "map" /\ x.rules = mop.rules /\ x.head = mop.head
      BY DEF MirrorOp, Steps, MirrorTypes
    <3>3. ~ScanSecrets(public')
      BY <2>3, <3>1
    <3> HIDE DEF x
    <3>4. MirrorTypes' /\ ApprovalHolds'
      BY <2>1, <3>1, <3>2 DEF MirrorTypes, ApprovalHolds
    <3>5. PublicIsDerived'
      BY <2>1, <3>1, <3>2, <3>3 DEF PublicIsDerived
    <3> QED
      BY <3>4, <3>5
  <2> QED
    BY <2>2, <2>3
<1>8. CASE PublishMap
  <2> DEFINE x == [mop EXCEPT !.at = "sign"]
  <2>1. mop.at = "map" /\ mop' = x /\ UNCHANGED <<rules, public, approval>>
    BY <1>8 DEF PublishMap
  <2>2. x \in MirrorOp /\ x.at = "sign" /\ x.rules = mop.rules /\ x.head = mop.head
    BY DEF MirrorOp, Steps, MirrorTypes
  <2> HIDE DEF x
  <2> QED
    BY <2>1, <2>2 DEF MirrorTypes, PublicIsDerived, ApprovalHolds
<1>9. CASE SignPublish
  <2>1. /\ mop.at = "sign" /\ mop' = MirrorIdle /\ UNCHANGED <<rules, public>>
        /\ approval' = IF public.head = None THEN approval
                       ELSE [head |-> public.head, rules |-> mop.rules]
    BY <1>9 DEF SignPublish
  <2>2. MirrorTypes' /\ PublicIsDerived'
    BY <2>1, MirrorIdleIsOp DEF MirrorTypes, PublicIsDerived
  <2>3. public = Derive(mop.rules, mop.head) /\ ~ScanSecrets(public) /\ mop.rules \in Parsed
    BY <2>1 DEF PublicIsDerived, MirrorTypes
  <2>4. CASE public.head = None
    BY <2>1, <2>2, <2>4 DEF ApprovalHolds
  <2>5. CASE public.head # None
    <3>1. mop.head \in Commits /\ public.head = PublicOf(mop.rules)[mop.head]
      BY <2>3, <2>5, DeriveIs DEF MirrorTypes, MirrorOp
    <3>2. ~Leaks(public.head)
      BY <2>3, <2>5 DEF ScanSecrets
    <3>3. approval'.head = public.head /\ approval'.rules = mop.rules
      BY <2>1, <2>5
    <3>4. ApprovalHolds'
      BY <3>1, <3>2, <3>3, <2>3, <2>5 DEF ApprovalHolds
    <3> QED
      BY <3>4, <2>2
  <2> QED
    BY <2>4, <2>5
<1>10. CASE UNCHANGED vars
  BY <1>1, <1>10 DEF vars, mirrorVars
<1> QED
  BY <1>1, <1>2, <1>3, <1>4, <1>5, <1>6, <1>7, <1>8, <1>9, <1>10 DEF Next, MirrorNext

\* The public repository is whole, and clean once approved.
LEMMA MirrorIsClean ==
  ASSUME MirrorInv
  PROVE  PublicIsClean
<1>1. ApprovedIsClean
  <2>1. SUFFICES ASSUME approval # None, approval.head = public.head
                 PROVE  \A q \in Reach(public.head) : \A f \in q.tree :
                          f.path \notin approval.rules.exclude /\ f.blob \notin Secret
    BY DEF ApprovedIsClean
  <2>2. PICK h \in Commits : approval.head = PublicOf(approval.rules)[h] /\ approval.head # None
    BY <2>1 DEF MirrorInv, ApprovalHolds
  <2>3. \A q \in Reach(approval.head) : \A f \in q.tree : f.path \notin approval.rules.exclude
    BY <2>2, ReachIsWritten
  <2>4. ~Leaks(approval.head)
    BY <2>1 DEF MirrorInv, ApprovalHolds
  <2> QED
    BY <2>1, <2>3, <2>4 DEF Leaks
<1>2. PublicIsWhole
  <2>1. SUFFICES ASSUME public # None, public.head # None
                 PROVE  Reach(public.head) \subseteq public.objs
    BY DEF PublicIsWhole
  <2>2. PICK r \in Parsed, h \in Commits \cup {None} : public = Derive(r, h)
    BY <2>1 DEF MirrorInv, PublicIsDerived
  <2>3. h \in Commits /\ public.head = PublicOf(r)[h] /\ public.objs = Written(r, h)
    BY <2>1, <2>2, DeriveIs
  <2> QED
    BY <2>1, <2>3, ReachIsWritten
<1> QED
  BY <1>1, <1>2 DEF PublicIsClean

\* The public repository never names a commit it does not hold and, once its
\* head is approved, has no excluded path and no secret in its history, for any
\* commit graph and rules, wherever a publish was killed (derive, scan_secrets,
\* sign_publish).
THEOREM CleanHolds ==
  Spec => []PublicIsClean
<1>1. Init => GitTypes /\ MirrorInv
  BY GitInvInit, MirrorInvInit DEF GitInv
<1>2. GitTypes /\ MirrorInv /\ [Next]_vars => GitTypes' /\ MirrorInv'
  BY GitTypesStep, MirrorInvStep
<1>3. MirrorInv => PublicIsClean
  BY MirrorIsClean
<1> QED
  BY <1>1, <1>2, <1>3, PTL DEF Spec

\* A publish under the approved rules extends the approved head when the tip
\* moved along first parents.
LEMMA PublishExtends ==
  ASSUME MirrorInv, [Next]_vars, approval # None, approval' # approval,
         approval'.rules = approval.rules, approval.head.of \in FirstLine[mop.head]
  PROVE  approval.head \in Reach(approval'.head)
<1>1. SignPublish
  BY DEF Next, GitNext, mirrorVars, MirrorNext, WriteRules, Start, MaterializeRefs, DryRunDerive,
     PublishDerive, PublishScan, PublishMap, MirrorKill, vars
<1>2. /\ mop.at = "sign" /\ public.head # None
      /\ approval' = [head |-> public.head, rules |-> mop.rules]
  BY <1>1 DEF SignPublish
<1>3. /\ public = Derive(mop.rules, mop.head)
      /\ mop.rules \in Parsed /\ mop.head \in Commits \cup {None}
  BY <1>2 DEF MirrorInv, PublicIsDerived, MirrorTypes, MirrorOp
<1> DEFINE r == mop.rules
<1>4. mop.head \in Commits /\ public.head = PublicOf(r)[mop.head]
  BY <1>2, <1>3, DeriveIs
<1>5. approval.rules = r /\ approval'.head = PublicOf(r)[mop.head]
  BY <1>2, <1>4
<1>6. PICK h \in Commits : approval.head = PublicOf(r)[h] /\ approval.head # None
  BY <1>5 DEF MirrorInv, ApprovalHolds
<1>7. PICK d \in Anc[h] : PublicOf(r)[h] = Own(r, d) /\ PublicOf(r)[d] = Own(r, d)
  BY <1>6, PublicIsOwn
<1>8. d \in Commits /\ approval.head.of = d
  BY <1>6, <1>7, Histories, OwnIsCommit
<1> HIDE DEF r
<1>9. PublicOf(r)[d] \in Reach(PublicOf(r)[mop.head])
  BY <1>3, <1>4, <1>7, <1>8, FirstLineExtends DEF r
<1> QED
  BY <1>5, <1>6, <1>7, <1>9

\* Publishing again under the same rules never needs a forced push while the
\* private tip moves along first parents (derive's deterministic rewrite).
THEOREM RepublishHolds ==
  Spec => RepublishExtends
<1>1. Init => GitTypes /\ MirrorInv
  BY GitInvInit, MirrorInvInit DEF GitInv
<1>2. GitTypes /\ MirrorInv /\ [Next]_vars => GitTypes' /\ MirrorInv'
  BY GitTypesStep, MirrorInvStep
<1>3. MirrorInv /\ [Next]_vars =>
        [(approval # None /\ approval' # approval /\ approval'.rules = approval.rules
            /\ approval.head.of \in FirstLine[mop.head]) =>
              approval.head \in Reach(approval'.head)]_vars
  BY PublishExtends
<1> QED
  BY <1>1, <1>2, <1>3, PTL DEF Spec, RepublishExtends

\* With one helper at a time, nobody's clone has to be reset: unforced pushes
\* and publishes under the same rules extend what they replace, but for a push
\* killed inside write_ref, which leaves no ref (is_fast_forward, update_ref, derive).
THEOREM HistoriesExtend ==
  Exclusive => (Spec => HistoriesOnlyExtend)
<1> SUFFICES ASSUME Exclusive PROVE Spec => HistoriesOnlyExtend
  OBVIOUS
<1>1. Init => GitInv
  BY GitInvInit
<1>2. GitInv /\ [Next]_vars => GitInv'
  BY GitInvStep
<1>3. GitInv /\ [Next]_vars =>
        [\A a \in Agents :
           LET r == op[a].dst
           IN  (op[a].at = "ref" /\ ~op[a].force /\ refs' # refs /\ refs[r] # None) =>
                  refs'[r] = None \/ refs[r] \in Anc[refs'[r]]]_gitVars
  BY PushExtends
<1>4. Spec => PushesOnlyExtend
  BY <1>1, <1>2, <1>3, PTL DEF Spec, PushesOnlyExtend
<1> QED
  BY <1>4, RepublishHolds, PTL DEF HistoriesOnlyExtend

===============================================================================
