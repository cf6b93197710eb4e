------------------------------- MODULE DocLog -------------------------------
(***************************************************************************)
(* A shared document as a log of operations (nas-store/src/doc.rs,         *)
(* nas-cli/src/doccmd.rs): each device edits its own copy of the log under *)
(* its own writer id, takes in the logs of others and may compact.  Which  *)
(* character an insert holds never decides anything, so it is left out: an *)
(* atom is known by the id of its insert.                                  *)
(***************************************************************************)
EXTENDS Naturals, Sequences, FiniteSets, SequencesExt, TLC

CONSTANTS
    Writers,  \* the devices, numbers from 1 in the order of their writer ids
    MaxOps    \* bound: operations one device makes

ASSUME WritersAssumption == Writers \subseteq Nat \ {0}
ASSUME MaxOpsAssumption == MaxOps \in Nat

VARIABLES
    log,    \* device -> [ops: id -> operation, clock: writer -> counter]
    known,  \* history: device -> ids it made or took in
    plain,  \* history: device -> no compaction is behind its log
    made    \* history: the kind and target of every operation ever made, by id

docvars == <<log, known, plain, made>>

OpId(w, n) == [writer |-> w, counter |-> n]
Root == OpId(0, 0)
\* Operations: insert after `ref', or delete of `ref'.
Op(kind, ref) == [kind |-> kind, ref |-> ref]

\* The derived order of ids: the writer first.
Above(p, q) == p.writer > q.writer \/ (p.writer = q.writer /\ p.counter > q.counter)

EmptyLog == [ops |-> <<>>, clock |-> [w \in Writers |-> 0]]

DocInit ==
    /\ log = [w \in Writers |-> EmptyLog]
    /\ known = [w \in Writers |-> {}]
    /\ plain = [w \in Writers |-> TRUE]
    /\ made = <<>>

-----------------------------------------------------------------------------
\* The visible atoms: an atom, what was inserted after it, then its next sibling;
\* of siblings the highest id first.
Kids(ops, id) == {c \in DOMAIN ops : ops[c].kind = "insert" /\ ops[c].ref = id}
Deleted(ops) == {ops[c].ref : c \in {d \in DOMAIN ops : ops[d].kind = "delete"}}
Atoms(ops) ==
    LET deleted == Deleted(ops)
        Walk[siblings \in SUBSET DOMAIN ops] ==
          IF siblings = {} THEN <<>>
          ELSE LET top == CHOOSE id \in siblings : \A c \in siblings \ {id} : Above(id, c)
               IN  (IF top \in deleted THEN <<>> ELSE <<top>>)
                     \o Walk[Kids(ops, top)] \o Walk[siblings \ {top}]
    IN  Walk[Kids(ops, Root)]

NextId(l, w) == OpId(w, l.clock[w] + 1)
Add(l, w, op) == [ops |-> (NextId(l, w) :> op) @@ l.ops, clock |-> [l.clock EXCEPT ![w] = @ + 1]]

\* Mutant: the first character is always put at the start.
InsertAtStart(l, w, at, n) ==
    LET I[i \in 0..n] ==
          IF i = 0 THEN l
          ELSE Add(I[i-1], w, Op("insert", IF i > 1 THEN OpId(w, I[i-1].clock[w]) ELSE Root))
    IN  I[n]

\* Each character after the one before, the first after the one at `at'.
InsertText(l, w, at, n) ==
    LET atoms == Atoms(l.ops)
        I[i \in 0..n] ==
          IF i = 0 THEN l
          ELSE Add(I[i-1], w, Op("insert", IF i > 1 THEN OpId(w, I[i-1].clock[w])
                                           ELSE IF at = 0 THEN Root ELSE atoms[at]))
    IN  I[n]

DeleteRange(l, w, at, n) ==
    LET atoms == Atoms(l.ops)
        D[i \in 0..n] == IF i = 0 THEN l ELSE Add(D[i-1], w, Op("delete", atoms[at + i]))
    IN  D[n]

MaxOf(a, b) == IF a < b THEN b ELSE a

\* Union; of an id in both, mine stays.
Merge(mine, other) ==
    [ops |-> mine.ops @@ other.ops, clock |-> [w \in Writers |-> MaxOf(mine.clock[w], other.clock[w])]]

\* The visible atoms as one chain, the tombstones gone, the clock kept.
Compact(l) ==
    LET atoms == Atoms(l.ops)
    IN  [ops |-> [id \in ToSet(atoms) |->
                    LET i == CHOOSE i \in DOMAIN atoms : atoms[i] = id
                    IN  Op("insert", IF i = 1 THEN Root ELSE atoms[i-1])],
         clock |-> l.clock]

-----------------------------------------------------------------------------
\* A save seals the log and a load reads it back as it was, so an edit is made
\* on the log as stored.
Edit(w, new) ==
    /\ new.clock[w] <= MaxOps
    /\ log' = [log EXCEPT ![w] = new]
    /\ LET ids == DOMAIN new.ops \ DOMAIN log[w].ops
       IN  /\ known' = [known EXCEPT ![w] = @ \cup ids]
           /\ made' = made @@ [id \in ids |-> new.ops[id]]
    /\ UNCHANGED plain

Insert(w, at, n) ==
    /\ at <= Len(Atoms(log[w].ops))
    /\ Edit(w, InsertText(log[w], w, at, n))

Delete(w, at, n) ==
    /\ at + n <= Len(Atoms(log[w].ops))
    /\ Edit(w, DeleteRange(log[w], w, at, n))

MergeFrom(w, v) ==
    /\ v # w
    /\ log' = [log EXCEPT ![w] = Merge(log[w], log[v])]
    /\ known' = [known EXCEPT ![w] = @ \cup known[v]]
    /\ plain' = [plain EXCEPT ![w] = @ /\ plain[v]]
    /\ UNCHANGED made

CompactOwn(w) ==
    /\ log' = [log EXCEPT ![w] = Compact(log[w])]
    /\ plain' = [plain EXCEPT ![w] = FALSE]
    /\ UNCHANGED <<known, made>>

DocNext ==
    \/ \E w \in Writers, at \in 0..2 * MaxOps, n \in 1..2 : Insert(w, at, n)
    \/ \E w \in Writers, at \in 0..2 * MaxOps : Delete(w, at, 1)
    \/ \E w, v \in Writers : MergeFrom(w, v)
    \/ \E w \in Writers : CompactOwn(w)

-----------------------------------------------------------------------------
\* An id stands for one edit for ever, on every device and across compactions:
\* what is in a log under an id is the edit that was made under it (next_id,
\* compact: the clock outlives the operations it counted).
OpIdNamesOneEdit ==
    \A w \in Writers : \A id \in DOMAIN log[w].ops :
       /\ id \in DOMAIN made
       /\ made[id].kind = log[w].ops[id].kind
       /\ made[id].kind = "delete" => made[id].ref = log[w].ops[id].ref

\* No character is cut off: what a device inserted or took in is visible to it
\* unless its log says it is deleted, whatever was compacted in between.
NothingIsCutOff ==
    \A w \in Writers :
       LET ops == log[w].ops
       IN  ToSet(Atoms(ops)) = {id \in DOMAIN ops : ops[id].kind = "insert"} \ Deleted(ops)

\* merge is set union: two devices that know the same edits, neither having met a
\* compacted log, show the same text, and it holds every edit they know.
SameEditsSameText ==
    \A w, v \in Writers :
       plain[w] /\ plain[v] /\ known[w] = known[v] =>
         /\ Atoms(log[w].ops) = Atoms(log[v].ops)
         /\ DOMAIN log[w].ops = known[w]

\* Nothing a device does turns two visible characters around on it: not typing,
\* deleting, merging a log that has them in another order, nor compacting.
Common(s, t) == SelectSeq(s, LAMBDA x : x \in ToSet(t))
OrderIsKept ==
    [][\A w \in {v \in Writers : log'[v] # log[v]} :
         LET old == Atoms(log[w].ops)  new == Atoms(log'[w].ops)
         IN  Common(old, new) = Common(new, old)]_docvars

\* The atoms that hang below an atom, itself among them.
Below(ops, id) ==
    LET B[a \in DOMAIN ops] == {a} \cup UNION {B[k] : k \in Kids(ops, a)}
    IN  B[id]

\* insert_text: what is typed behind a character comes after it in one piece, in
\* the order typed, and turns nothing else around.  Ids order the writer first,
\* so between the two stands exactly what hangs behind that character by way of
\* an insert of a higher writer, and nothing where there is no such insert.
TypedTogether ==
    [][\A w \in Writers, at \in 0..2 * MaxOps, n \in 1..2 :
         Insert(w, at, n) =>
           LET ops == log[w].ops
               old == Atoms(ops)
               place == IF at = 0 THEN Root ELSE old[at]
               over == UNION {Below(ops, k) : k \in {c \in Kids(ops, place) : c.writer > w}}
               end == at + Cardinality(over \ Deleted(ops))
               typed == [i \in 1..n |-> OpId(w, log[w].clock[w] + i)]
           IN  /\ ToSet(SubSeq(old, at + 1, end)) = over \ Deleted(ops)
               /\ Atoms(log'[w].ops) =
                    SubSeq(old, 1, end) \o typed \o SubSeq(old, end + 1, Len(old))]_docvars
=============================================================================
