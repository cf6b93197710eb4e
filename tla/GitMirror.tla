----------------------------- MODULE GitMirror -----------------------------
(***************************************************************************)
(* The filtered public mirror of a namespace's git history                 *)
(* (nas-cli/src/mirror.rs), over the remote helper of GitRemote.  The      *)
(* rules file, the dry-run receipt, the derived repository, the sealed     *)
(* private-to-public map and the signed approval are the files under       *)
(* state/git that one command leaves for the next.                         *)
(*                                                                         *)
(* A tree is a set of files [path, blob]; a public commit is the record of *)
(* all that its SHA covers: whose author and date it has, its tree and its *)
(* parents.  Globs are in Globs; here a rule set names paths.              *)
(***************************************************************************)
EXTENDS GitRemote

CONSTANTS Tree,       \* each private commit's files
          RuleSets,   \* rule files the operator may write, Malformed among them
          DefaultRules,
          Malformed,  \* model value: rules that do not parse
          Secret      \* blobs the scan recognises

\* The defaults are rules one may write.
ASSUME RulesAssumption == DefaultRules \in RuleSets

VARIABLES rules,     \* mirror.rules
          receipt,   \* mirror-dryrun
          public,    \* the derived repository state/git/public
          shamap,    \* the saved map, private commit -> public commit
          approval,  \* mirror-approval
          mop        \* the mirror command under way

mirrorVars == <<rules, receipt, public, shamap, approval, mop>>
vars == <<gitVars, mirrorVars>>
git == <<made, local, map, torn, refs, op, queue, stored, told, dropped>>

MirrorIdle == [at |-> "idle", persist |-> FALSE, rules |-> Malformed, objs |-> {}, head |-> None]

\* No rules file: the defaults are written at first use.
Init ==
    /\ GitInit
    /\ rules = DefaultRules
    /\ receipt = None /\ public = None /\ shamap = None /\ approval = None
    /\ mop = MirrorIdle

\* ---- derive ----

Kept(c, r) == {f \in Tree[c] : f.path \notin r.exclude}

\* A commit the filter left empty: nothing at the root, or no change against
\* its first public parent.
LeftEmpty(kept, parents, r) ==
    /\ r.drop
    /\ \/ kept = {} /\ parents = <<>>
       \/ parents # <<>> /\ parents[1].tree = kept

\* commit-tree: the tree, the parents and the metadata of the private commit
\* are all that the new SHA covers.
CommitTree(c, tree, parents) == [of |-> c, tree |-> tree, parents |-> parents]

\* What a dropped commit maps to: its first public parent, if it has one.
MapDropped(parents) == IF parents = <<>> THEN None ELSE parents[1]

\* The parents that have a public commit, in their order (a SelectSeq, written
\* as the recursive function that the proofs unfold).
PublicParents(ps) ==
    LET F[i \in 0..Len(ps)] ==
          IF i = 0 THEN <<>> ELSE IF ps[i] = None THEN F[i - 1] ELSE Append(F[i - 1], ps[i])
    IN  F[Len(ps)]

\* One commit of the rewrite, ps being what its parents became.
Rewrite(c, ps, r) ==
    LET parents == PublicParents(ps)
        kept == Kept(c, r)
    IN  IF LeftEmpty(kept, parents, r) THEN MapDropped(parents)
        ELSE CommitTree(c, kept, parents)

\* The rewrite, in the order of rev-list --reverse --topo-order: every entry
\* depends on earlier ones only.
PublicOf(r) ==
    LET P[c \in Commits] == Rewrite(c, [i \in DOMAIN Parents[c] |-> P[Parents[c][i]]], r)
    IN  P

\* None stands for the absence of a commit, so it is none.
ASSUME NoneAssumption ==
    \A r \in RuleSets \ {Malformed}, c \in Commits :
        None # CommitTree(c, Kept(c, r),
                          PublicParents([i \in DOMAIN Parents[c] |-> PublicOf(r)[Parents[c][i]]]))

\* The map after a run over the history of `head'.
Mapped(r, head) == [c \in Anc[head] |-> PublicOf(r)[c]]

\* The objects commit-tree wrote: one per commit that was kept.
Written(r, head) == {Mapped(r, head)[c] : c \in Anc[head]} \ {None}

Derive(r, head) ==
    IF head = None THEN [head |-> None, objs |-> {}]
    ELSE [head |-> Mapped(r, head)[head], objs |-> Written(r, head)]

\* Public commits reachable from one: parents come before children in `of', so
\* N rounds find them all.
Reach(p) ==
    LET R[n \in 0..N] ==
          IF n = 0 THEN {p} ELSE R[n - 1] \cup UNION {ToSet(q.parents) : q \in R[n - 1]}
    IN  R[N]

Leaks(p) == \E q \in Reach(p) : \E f \in q.tree : f.blob \in Secret
\* Mutant: the new history is not scanned.
ScanNothing(pub) == FALSE
ScanSecrets(pub) == pub.head # None /\ Leaks(pub.head)

\* ---- nas mirror dry-run, nas mirror publish ----

\* The operator edits the rules between commands.
WriteRules ==
    /\ Counted
    /\ rules' \in RuleSets \ {rules}
    /\ UNCHANGED <<git, receipt, public, shamap, approval, mop>>

\* run_derive up to export_all: rules that do not parse refuse, and so do a
\* publish without a receipt and an oid map whose pointer is empty.
Start(persist) ==
    /\ mop = MirrorIdle /\ Counted
    /\ rules # Malformed /\ ~torn
    /\ persist => receipt # None
    /\ mop' = [MirrorIdle EXCEPT !.at = "refs", !.persist = persist, !.rules = rules, !.objs = map]
    /\ UNCHANGED <<git, rules, receipt, public, shamap, approval>>

\* The refs are read after the objects; a tip that came in between is an error
\* of update-ref and ends the command.
MaterializeRefs ==
    /\ mop.at = "refs"
    /\ mop' = IF refs["main"] \in mop.objs \cup {None}
              THEN [mop EXCEPT !.at = "derive", !.head = refs["main"]]
              ELSE MirrorIdle
    /\ UNCHANGED <<gitVars, rules, receipt, public, shamap, approval>>

\* A dry run derives into a scratch directory and leaves the receipt only.
DryRunDerive ==
    /\ mop.at = "derive" /\ ~mop.persist
    /\ receipt' = [rules |-> mop.rules, head |-> Derive(mop.rules, mop.head).head]
    /\ mop' = MirrorIdle
    /\ UNCHANGED <<gitVars, rules, public, shamap, approval>>

\* A publish removes the old repository and derives in its place ...
PublishDerive ==
    /\ mop.at = "derive" /\ mop.persist
    /\ public' = Derive(mop.rules, mop.head)
    /\ mop' = [mop EXCEPT !.at = "scan"]
    /\ UNCHANGED <<gitVars, rules, receipt, shamap, approval>>

\* ... scans all of it, and removes it when a secret is found ...
PublishScan ==
    /\ mop.at = "scan"
    /\ IF ScanSecrets(public)
       THEN public' = None /\ mop' = MirrorIdle
       ELSE mop' = [mop EXCEPT !.at = "map"] /\ UNCHANGED public
    /\ UNCHANGED <<gitVars, rules, receipt, shamap, approval>>

\* ... saves the map ...
PublishMap ==
    /\ mop.at = "map"
    /\ shamap' = IF mop.head = None THEN <<>> ELSE Mapped(mop.rules, mop.head)
    /\ mop' = [mop EXCEPT !.at = "sign"]
    /\ UNCHANGED <<gitVars, rules, receipt, public, approval>>

\* ... and signs the head together with the hash of the rules.
SignPublish ==
    /\ mop.at = "sign"
    /\ approval' = IF public.head = None THEN approval
                   ELSE [head |-> public.head, rules |-> mop.rules]
    /\ mop' = MirrorIdle
    /\ UNCHANGED <<gitVars, rules, receipt, public, shamap>>

\* The command is killed.
MirrorKill ==
    /\ mop # MirrorIdle
    /\ mop' = MirrorIdle
    /\ UNCHANGED <<gitVars, rules, receipt, public, shamap, approval>>

MirrorNext ==
    \/ WriteRules
    \/ Start(FALSE) \/ Start(TRUE)
    \/ MaterializeRefs \/ DryRunDerive
    \/ PublishDerive \/ PublishScan \/ PublishMap \/ SignPublish
    \/ MirrorKill

Next == (GitNext /\ UNCHANGED mirrorVars) \/ MirrorNext

Spec == Init /\ [][Next]_vars

\* ---- Properties ----

\* A repository whose head the approval names has been scanned, and has no
\* path the approved rules exclude anywhere in its history, whatever publish
\* was killed or refused since.
ApprovedIsClean ==
    (approval # None /\ public # None) =>
        (approval.head = public.head =>
            \A q \in Reach(public.head) : \A f \in q.tree :
                f.path \notin approval.rules.exclude /\ f.blob \notin Secret)

\* The head of the public repository never names a commit whose objects are
\* not in it (the bug the comment on the full rewrite tells of).
PublicIsWhole ==
    (public # None /\ public.head # None) => Reach(public.head) \subseteq public.objs

\* A commit's first parents.
FirstLine[c \in Commits] ==
    IF Parents[c] = <<>> THEN {c} ELSE {c} \cup FirstLine[Parents[c][1]]

\* A re-publish never needs a forced push: under the rules of the last
\* approval, when the private tip moved forward along first parents, the old
\* public head is in the history of the new one.
RepublishExtends ==
    [][(approval # None /\ approval' # approval /\ approval'.rules = approval.rules
          /\ approval.head.of \in FirstLine[mop.head]) =>
            approval.head \in Reach(approval'.head)]_vars

\* The public repository is whole and, once approved, clean, wherever a publish
\* was killed or refused (run_derive, scan_secrets, sign_publish).
PublicIsClean == ApprovedIsClean /\ PublicIsWhole

\* Nobody's clone has to be reset: unforced pushes and publishes under the same
\* rules only ever extend what they replace (is_fast_forward, derive).
HistoriesOnlyExtend == PushesOnlyExtend /\ RepublishExtends
=============================================================================
