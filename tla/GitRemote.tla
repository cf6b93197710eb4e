----------------------------- MODULE GitRemote -----------------------------
(***************************************************************************)
(* git over a namespace: the remote helper git-remote-nas, the sealed      *)
(* oid map, the published refs and the patch queue (nas-cli/src/gitcmd.rs, *)
(* gitremote.rs, nas-store/src/git.rs).                                    *)
(*                                                                         *)
(* A commit stands for itself, its tree and its blobs: they enter the oid  *)
(* map together.  Every agent has a clone; a helper process serves it and  *)
(* shares with the others the files state/git/map, state/git/refs/* and    *)
(* state/git/patch-queue, each read at one step and rewritten in place at  *)
(* another: fs::write truncates the file before it writes, so a helper     *)
(* killed in between leaves it empty.                                      *)
(***************************************************************************)
EXTENDS Naturals, Sequences, FiniteSets, SequencesExt

CONSTANTS N,          \* bound: commits that will ever be made, 1..N
          Parents,    \* their parents, lower numbered
          Agents,
          Refs,       \* shared ref names, "main" among them
          MaxCmds,    \* bound: commands, by agents and operator
          Exclusive,  \* one helper at a time on this namespace
          None        \* model value: no ref

Commits == 1..N
ASSUME DagAssumption ==
    /\ N \in Nat \ {0}
    /\ Parents \in [Commits -> Seq(Commits)]
    /\ \A c \in Commits : \A i \in DOMAIN Parents[c] : Parents[c][i] < c
    /\ "main" \in Refs

VARIABLES made,    \* commits that exist in some clone
          local,   \* each clone's objects
          map,     \* the oid map saved last: commits it can produce
          torn,    \* state/git/map is empty: it names no map
          refs,    \* published refs
          op,      \* what each agent's helper is doing
          queue,   \* the patch queue file
          stored,  \* patches in the blob store: <<number, author>>
          told,    \* patches whose export was acknowledged
          dropped, \* those a truncated queue no longer lists
          cmds     \* commands started, against MaxCmds

gitVars == <<made, local, map, torn, refs, op, queue, stored, told, dropped, cmds>>

Idle == [at |-> "idle", dst |-> "", new |-> 0, force |-> FALSE, loaded |-> {}, read |-> <<>>]

GitInit ==
    /\ made = {} /\ local = [a \in Agents |-> {}]
    /\ map = {} /\ torn = FALSE /\ refs = [r \in Refs |-> None]
    /\ op = [a \in Agents |-> Idle]
    /\ queue = <<>> /\ stored = {} /\ told = {} /\ dropped = {} /\ cmds = 0

\* git rev-list: a commit and everything it reaches.
Anc[c \in Commits] == {c} \cup UNION {Anc[Parents[c][i]] : i \in DOMAIN Parents[c]}

\* What git commit and git merge do in a clone.
Commit(a) ==
    /\ op[a] = Idle
    /\ \E c \in Commits \ made :
          /\ \A d \in Commits : d < c => d \in made
          /\ ToSet(Parents[c]) \subseteq local[a]
          /\ made' = made \cup {c}
          /\ local' = [local EXCEPT ![a] = @ \cup {c}]
    /\ UNCHANGED <<map, torn, refs, op, queue, stored, told, dropped, cmds>>

\* ---- push ----

\* Mutant: a commit the clone knows is taken for an ancestor.
IsFastForwardKnown(a, old, new) == old = None \/ old = new \/ old \in local[a]

IsFastForward(a, old, new) == old = None \/ old = new \/ (old \in local[a] /\ old \in Anc[new])

Counted == cmds < MaxCmds /\ cmds' = cmds + 1
MayStart(a) == op[a] = Idle /\ (Exclusive => \A b \in Agents : op[b] = Idle)

\* list_refs: a ref file that is missing, or holds no oid, is no ref.
Published(dst) == refs[dst]

\* push_one: the published tip is read once, for the descendant check.
PushCheck(a) ==
    /\ MayStart(a) /\ Counted
    /\ \E dst \in Refs, new \in local[a], force \in BOOLEAN :
          /\ force \/ IsFastForward(a, Published(dst), new)
          /\ op' = [op EXCEPT ![a] = [@ EXCEPT !.at = "load", !.dst = dst, !.new = new,
                                               !.force = force]]
    /\ UNCHANGED <<made, local, map, torn, refs, queue, stored, told, dropped>>

\* import_reachable: the map is read, completed in memory, and saved whole.
\* An empty pointer is no address (load_map) and ends the push.
ImportLoad(a) ==
    /\ op[a].at = "load"
    /\ op' = IF torn THEN [op EXCEPT ![a] = Idle]
             ELSE [op EXCEPT ![a].at = "save", ![a].loaded = map]
    /\ UNCHANGED <<made, local, map, torn, refs, queue, stored, told, dropped, cmds>>

\* persist_object: an object the map holds is not sealed again.
Persist(m, c) == IF c \in m THEN m ELSE m \cup {c}

\* Mutant: only the tip is imported.
ImportTipOnly(loaded, new) == Persist(loaded, new)
Import(loaded, new) == UNION {Persist(loaded, c) : c \in Anc[new]}

ImportSave(a) ==
    /\ op[a].at = "save"
    /\ map' = Import(op[a].loaded, op[a].new)
    /\ torn' = FALSE
    /\ op' = [op EXCEPT ![a].at = "ref"]
    /\ UNCHANGED <<made, local, refs, queue, stored, told, dropped, cmds>>

\* save_map, killed between truncating the pointer and writing it.
ImportSaveTorn(a) ==
    /\ op[a].at = "save"
    /\ torn' = TRUE
    /\ op' = [op EXCEPT ![a] = Idle]
    /\ UNCHANGED <<made, local, map, refs, queue, stored, told, dropped, cmds>>

UpdateRef(a) ==
    /\ op[a].at = "ref"
    /\ refs' = [refs EXCEPT ![op[a].dst] = op[a].new]
    /\ op' = [op EXCEPT ![a] = Idle]
    /\ UNCHANGED <<made, local, map, torn, queue, stored, told, dropped, cmds>>

\* write_ref, killed there: the file holds no oid, and the ref is gone.
UpdateRefTorn(a) ==
    /\ op[a].at = "ref"
    /\ refs' = [refs EXCEPT ![op[a].dst] = None]
    /\ op' = [op EXCEPT ![a] = Idle]
    /\ UNCHANGED <<made, local, map, torn, queue, stored, told, dropped, cmds>>

\* ---- fetch ----

\* export_all: every object the map holds is written into the clone.
Fetch(a) ==
    /\ MayStart(a) /\ Counted
    /\ ~torn /\ ~(map \subseteq local[a])
    /\ local' = [local EXCEPT ![a] = @ \cup map]
    /\ UNCHANGED <<made, map, torn, refs, op, queue, stored, told, dropped>>

\* ---- patches ----

\* make_signed_patch: the blob is stored, then the queue is read ...
PatchStore(a) ==
    /\ MayStart(a) /\ Counted
    /\ local[a] # {}
    /\ LET n == Cardinality(stored) + 1
       IN  /\ stored' = stored \cup {<<n, "ours">>}
           /\ op' = [op EXCEPT ![a] = [@ EXCEPT !.at = "append", !.new = n, !.read = queue]]
    /\ UNCHANGED <<made, local, map, torn, refs, queue, told, dropped>>

AppendQueue(read, n) == Append(read, n)

PatchAppend(a) ==
    /\ op[a].at = "append"
    /\ queue' = AppendQueue(op[a].read, op[a].new)
    /\ told' = told \cup {op[a].new}
    /\ op' = [op EXCEPT ![a] = Idle]
    /\ UNCHANGED <<made, local, map, torn, refs, stored, dropped, cmds>>

\* append_queue, killed between truncating the queue and writing it.
PatchAppendTorn(a) ==
    /\ op[a].at = "append"
    /\ queue' = <<>> /\ dropped' = told
    /\ op' = [op EXCEPT ![a] = Idle]
    /\ UNCHANGED <<made, local, map, torn, refs, stored, told, cmds>>

\* A helper is killed between two of its steps.
Kill(a) ==
    /\ op[a] # Idle
    /\ op' = [op EXCEPT ![a] = Idle]
    /\ UNCHANGED <<made, local, map, torn, refs, queue, stored, told, dropped, cmds>>

GitNext ==
    \E a \in Agents :
        \/ Commit(a)
        \/ PushCheck(a) \/ ImportLoad(a) \/ ImportSave(a) \/ UpdateRef(a)
        \/ ImportSaveTorn(a) \/ UpdateRefTorn(a)
        \/ Fetch(a)
        \/ PatchStore(a) \/ PatchAppend(a) \/ PatchAppendTorn(a)
        \/ Kill(a)

\* ---- Properties ----

\* Whatever ref is published can be cloned: the oid map produces every object
\* its tip reaches (import_reachable runs before update_ref), as long as the
\* map's pointer was not left empty.
RefsAreComplete ==
    ~torn => \A r \in Refs : refs[r] # None => Anc[refs[r]] \subseteq map

\* A push without `+' never drops published history: when the ref moves, what
\* it pointed to before is in the history of what it points to now.  Only a
\* push killed inside write_ref leaves no ref at all.
PushesOnlyExtend ==
    [][\A a \in Agents :
         LET r == op[a].dst
         IN  (op[a].at = "ref" /\ ~op[a].force /\ refs' # refs /\ refs[r] # None) =>
                refs'[r] = None \/ refs[r] \in Anc[refs'[r]]]_gitVars

\* Every patch export that returned its address has its blob in the store and
\* is in the queue, once, unless a helper died inside a later rewrite of the
\* queue: that one loses the lines of the exports before it, and no others.
ExportsAreQueued ==
    \A n \in told :
        /\ <<n, "ours">> \in stored
        /\ n \notin dropped => Cardinality({i \in DOMAIN queue : queue[i] = n}) = 1

\* What an agent was told is stored is there: the objects of every ref and the
\* patches in the queue, wherever between its writes a helper was killed; a kill
\* inside a write costs what that file held and nothing else (push_one,
\* append_queue).
AnsweredIsStored == RefsAreComplete /\ ExportsAreQueued

\* The same without the exceptions, which fs::write does not give: kept for the
\* README's known limits.
AnsweredSurvivesTearing ==
    /\ ~torn
    /\ \A n \in told : \E i \in DOMAIN queue : queue[i] = n
=============================================================================
