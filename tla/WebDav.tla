------------------------------- MODULE WebDav -------------------------------
(***************************************************************************)
(* What the read-only WebDAV face lists (nas-gateway/src/dav.rs): keys are *)
(* flat, directories are made up from the slashes in them.  A key is a     *)
(* sequence of characters; `live' is the set of keys that are not          *)
(* tombstones.                                                             *)
(***************************************************************************)
EXTENDS Naturals, Sequences, FiniteSets, SequencesExt

Slash == "/"

EndsWithSlash(k) == k # <<>> /\ Last(k) = Slash
StripPrefix(k, p) == SubSeq(k, Len(p) + 1, Len(k))

\* split_once('/'): what comes before the first slash.
Slashes(s) == {i \in DOMAIN s : s[i] = Slash}
Before(s) == SubSeq(s, 1, (CHOOSE i \in Slashes(s) : \A j \in Slashes(s) : i <= j) - 1)

\* One level below a prefix: the names of directories, and the files.
ChildRests(live, p) == {StripPrefix(k, p) : k \in {l \in live : IsPrefix(p, l) /\ l # p}}
IsDir(rest) == Slashes(rest) # {} /\ Before(rest) # <<>>
AppendChildren(live, p) ==
    LET rests == ChildRests(live, p)
    IN  [dirs  |-> {p \o Before(r) \o <<Slash>> : r \in {x \in rests : IsDir(x)}},
         files |-> {p \o r : r \in {x \in rests : ~IsDir(x)}}]

\* PROPFIND on a key: the object of that name, or the directory, or nothing.
ChildPrefix(k) == IF EndsWithSlash(k) THEN k ELSE Append(k, Slash)
HasChildren(live, k) == \E l \in live : IsPrefix(ChildPrefix(k), l)
ObjectOrCollection(live, k) ==
    IF k \in live THEN [dirs |-> {}, files |-> {k}]
    ELSE AppendChildren(live, ChildPrefix(k))
Exists(live, k) == k \in live \/ HasChildren(live, k)

Propfind(live, k) ==
    IF k = <<>> THEN AppendChildren(live, <<>>) ELSE ObjectOrCollection(live, k)

\* What a mounted client finds by opening every directory it is shown, to the
\* depth of the deepest key.
Walk(live) ==
    LET depth == Cardinality(UNION {Slashes(k) : k \in live})
        W[n \in 0..depth] ==
          IF n = 0 THEN Propfind(live, <<>>)
          ELSE LET below == {Propfind(live, d) : d \in W[n-1].dirs}
               IN  [dirs  |-> UNION {b.dirs : b \in below},
                    files |-> W[n-1].files \cup UNION {b.files : b \in below}]
    IN  W[depth].files

\* A key hidden below a directory marker: opening the directory finds the
\* object named like it, and shows that alone.
Hidden(live, k) == \E m \in live : m # k /\ EndsWithSlash(m) /\ IsPrefix(m, k)

\* A mounted client that opens every directory finds every live key, but for
\* the ones below a key that is itself spelled like a directory.
WalkFindsEveryKey(live) == \A k \in live : k \in Walk(live) \/ Hidden(live, k)
=============================================================================
