------------------------------- MODULE Globs -------------------------------
(***************************************************************************)
(* The rules of the public mirror (nas-cli/src/mirror.rs): the rules file  *)
(* and the globs that say which paths never leave.  A glob or a path is    *)
(* the sequence of what lies between its slashes, a segment a sequence of  *)
(* characters.                                                             *)
(***************************************************************************)
EXTENDS Naturals, Sequences, FiniteSets, SequencesExt

Star == "*"
AnyOne == "?"
StarStar == <<Star, Star>>

\* Mutant: a star takes all it can and is not reconsidered.
GlobSegGreedy(pat, seg) ==
    LET m == Len(pat)  n == Len(seg)
        G[i \in 1..m+1, j \in 1..n+1] ==
          IF i = m + 1 THEN j = n + 1
          ELSE \/ pat[i] = Star /\ (IF j <= n THEN G[i, j+1] ELSE G[i+1, j])
               \/ /\ pat[i] # Star /\ j <= n
                  /\ pat[i] = AnyOne \/ pat[i] = seg[j]
                  /\ G[i+1, j+1]
    IN  G[1, 1]

\* One segment: `*' stands for any run of characters, `?' for one.
GlobSeg(pat, seg) ==
    LET m == Len(pat)  n == Len(seg)
        G[i \in 1..m+1, j \in 1..n+1] ==
          IF i = m + 1 THEN j = n + 1
          ELSE \/ pat[i] = Star /\ (G[i+1, j] \/ (j <= n /\ G[i, j+1]))
               \/ /\ pat[i] # Star /\ j <= n
                  /\ pat[i] = AnyOne \/ pat[i] = seg[j]
                  /\ G[i+1, j+1]
    IN  G[1, 1]

Wild(pat) == Star \in ToSet(pat) \/ AnyOne \in ToSet(pat)
SegMatch(pat, seg) == IF Wild(pat) THEN GlobSeg(pat, seg) ELSE pat = seg

\* A whole path: a segment `**' stands for any number of segments, none included.
GlobRec(pat, path) ==
    LET m == Len(pat)  n == Len(path)
        G[i \in 1..m+1, j \in 1..n+1] ==
          IF i = m + 1 THEN j = n + 1
          ELSE \/ pat[i] = StarStar /\ (G[i+1, j] \/ (j <= n /\ G[i, j+1]))
               \/ /\ pat[i] # StarStar /\ j <= n
                  /\ SegMatch(pat[i], path[j])
                  /\ G[i+1, j+1]
    IN  G[1, 1]

NonEmpty(segs) == SelectSeq(segs, LAMBDA s : s # <<>>)
GlobMatch(pat, path) == GlobRec(NonEmpty(pat), NonEmpty(path))

Excluded(path, rules) == \E i \in DOMAIN rules.exclude_paths : GlobMatch(rules.exclude_paths[i], path)

-----------------------------------------------------------------------------
(***************************************************************************)
(* The rules file.  A line is a record [key, globs, flag]: comments and    *)
(* blank lines have key "#", a line without `=' has key "none".            *)
(***************************************************************************)
Chars(pat) == FlattenSeq(pat)
CountOf(c, s) == Cardinality({i \in DOMAIN s : s[i] = c})

\* The empty string has one segment, which is empty.
ValidateGlob(pat) ==
    /\ pat # <<(<<>>)>>
    /\ CountOf("[", Chars(pat)) = CountOf("]", Chars(pat))

NoRules == [ok |-> FALSE, exclude_paths |-> <<>>, drop_empty_commits |-> TRUE, filter_messages |-> TRUE]
Start == [NoRules EXCEPT !.ok = TRUE]

\* The value of exclude_paths is split at commas: never an empty list; "" is one
\* glob that is not valid.
ReadLine(rules, line) ==
    CASE line.key = "#" -> rules
      [] line.key = "exclude_paths" /\ \A i \in DOMAIN line.globs : ValidateGlob(line.globs[i]) ->
           [rules EXCEPT !.exclude_paths = line.globs]
      [] line.key = "drop_empty_commits" /\ line.flag \in {"true", "false"} ->
           [rules EXCEPT !.drop_empty_commits = (line.flag = "true")]
      [] line.key = "filter_messages" /\ line.flag \in {"true", "false"} ->
           [rules EXCEPT !.filter_messages = (line.flag = "true")]
      [] OTHER -> NoRules

ParseRules(text) ==
    LET R[n \in 0..Len(text)] ==
          IF n = 0 THEN Start
          ELSE IF R[n-1].ok THEN ReadLine(R[n-1], text[n]) ELSE NoRules
        r == R[Len(text)]
    IN  IF r.ok /\ r.exclude_paths # <<>> THEN r ELSE NoRules

Flag(b) == IF b THEN "true" ELSE "false"
EncodeRules(r) ==
    <<[key |-> "exclude_paths", globs |-> r.exclude_paths, flag |-> ""],
      [key |-> "drop_empty_commits", globs |-> <<>>, flag |-> Flag(r.drop_empty_commits)],
      [key |-> "filter_messages", globs |-> <<>>, flag |-> Flag(r.filter_messages)]>>

-----------------------------------------------------------------------------
(***************************************************************************)
(* What a glob means, without the matcher: there is a way to cut the text  *)
(* into one run per element of the pattern such that a wild run is free    *)
(* and every other run is one element that fits.                           *)
(***************************************************************************)
Aligns(pat, text, wild, Fits(_, _)) ==
    \E cut \in [1..Len(pat)+1 -> 1..Len(text)+1] :
       /\ cut[1] = 1 /\ cut[Len(pat)+1] = Len(text) + 1
       /\ \A i \in DOMAIN pat :
            IF pat[i] = wild THEN cut[i] <= cut[i+1]
            ELSE cut[i+1] = cut[i] + 1 /\ cut[i] <= Len(text) /\ Fits(pat[i], text[cut[i]])
SegMeans(pat, seg) == Aligns(pat, seg, Star, LAMBDA p, c : p = AnyOne \/ p = c)
PathMeans(pat, path) == Aligns(pat, path, StarStar, SegMeans)

\* glob_match: the recursive matcher accepts a path exactly when the glob means
\* it, whatever stars it has to try.
GlobMeansWhatItSays(pat, path) ==
    GlobMatch(pat, path) <=> PathMeans(NonEmpty(pat), NonEmpty(path))

\* excluded: with the rules the mirror starts from (`dir/**'), nothing at or
\* below the directory is published, however the path spells its slashes.
SubtreeIsExcluded(dir, path) ==
    LET p == SelectSeq(path, LAMBDA s : Len(s) > 0)
        rules == [Start EXCEPT !.exclude_paths = <<<<dir, StarStar>>>>]
    IN  Excluded(path, rules) <=> (p # <<>> /\ p[1] = dir)

\* parse_rules: a file is taken whole or not at all: one line that is not
\* understood, or no list of globs, refuses all of it; of two lines with one
\* key the last counts; and what was taken is written back as a file that reads
\* the same.
RulesAreTakenWhole(text) ==
    LET r == ParseRules(text)
        bad == {i \in DOMAIN text : ~ReadLine(Start, text[i]).ok}
        lists == {i \in DOMAIN text : text[i].key = "exclude_paths"}
    IN  /\ r.ok <=> (bad = {} /\ lists # {})
        /\ r.ok => /\ r.exclude_paths = text[CHOOSE i \in lists : \A j \in lists : j <= i].globs
                   /\ ParseRules(EncodeRules(r)) = r
=============================================================================
