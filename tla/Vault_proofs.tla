---------------------------- MODULE Vault_proofs ----------------------------
(***************************************************************************)
(* Vault for every set of processes, passphrases and modes and every       *)
(* bound: the namespace opens, what is sealed can be opened again, and a   *)
(* passphrase change loses nothing, wherever a process is killed or the    *)
(* power fails.                                                            *)
(*                                                                         *)
(* A namespace is unborn until `ns create' returns, and from then on has   *)
(* either a vault or a chain of wrap records; the inductive invariant says *)
(* of each of the three what its files, handles and commands may be.       *)
(***************************************************************************)
EXTENDS Vault, FiniteSetTheorems, SequenceTheorems, TLAPS

Creating == {"e2ee", "transit-only", "passphrase", "vaultfile", "storekey", "fillkey", "wrapfile"}
Wrapping == {"wrapopen", "wrapfill", "wrapclean"}
Replacing == {"fill", "rename"}
Places == Creating \cup Wrapping \cup Replacing \cup {"idle", "tmpfile", "syncdir", "export"}

OpRec == [at : Places, key : Nat, prior : Seq(Nat), pw : Pw \cup {None}, wrap : Wrap \cup {None}]
HandleRec == [mode : Modes, seed : Nat, gens : Seq(Nat), cs : Nat, anchor : Nat]

\* What the proofs need to know of the types.
Types ==
  /\ config \in Config \cup {None, Torn}
  /\ vault \in Sealed \cup {None, Torn}
  /\ tmp \in Sibling \cup {None}
  /\ keyFile \in Nat \cup {None, Torn}
  /\ keychain \in Nat \cup {None}
  /\ wraps \in [WrapSeqs -> Wrap \cup {None, Torn}]
  /\ repo \in [Procs -> HandleRec \cup {None}]
  /\ op \in [Procs -> OpRec]
  /\ fresh \in Nat \ {0}
  /\ born \in Sealed \cup {None}

NoWrap == \A s \in WrapSeqs : ~Whole(wraps[s])

-----------------------------------------------------------------------------
(* Unborn: one process creates, and nothing it has written can be opened. *)

\* How far the process that creates the namespace has come.
CreatesAt(p) ==
  /\ op[p].at \in {"idle"} \cup Creating
  /\ op[p].at \in Creating => config # None
  /\ op[p].at \in Creating \ {"fillkey"} => keyFile = None
  /\ op[p].at \in Modes \cup {"wrapfile"} => vault = None
  /\ op[p].at = "wrapfile" => config \in Config /\ config.mode = "passphrase"
  /\ op[p].at \in {"vaultfile", "storekey", "fillkey"} => config \in Config /\ config.mode # "passphrase"
  /\ op[p].at \in {"storekey", "fillkey"} =>
       vault \in Sealed /\ Len(vault.gens) = 1 /\ vault.key = op[p].key

UnbornDisk ==
  /\ durable = {vault} /\ tmp = None /\ keychain = None
  /\ vault \in Sealed => vault.key # 0
  /\ ~Whole(keyFile) /\ NoWrap
  /\ config = None => vault = None /\ keyFile = None

UnbornRest ==
  /\ committed = {} /\ ~exported /\ told = None /\ authored = {} /\ ~tampered /\ roots = {}
  /\ \A p \in Procs : repo[p] = None

Unborn ==
  born = None =>
    /\ UnbornDisk /\ UnbornRest
    /\ \A p \in Procs : CreatesAt(p)
    /\ \A p, q \in Procs : op[p].at \in Creating /\ op[q].at \in Creating => p = q

-----------------------------------------------------------------------------
(* A namespace with a vault: one key, one seed, one first generation. *)

\* A table of generations this vault may have.
Table(g) == g \in Seq(Nat) /\ g # <<>> /\ g[1] = born.gens[1]

\* A content of vault.bin that the one key opens.
Sound(v) == v \in Sealed /\ v.key = born.key /\ v.seed = born.seed /\ v.gens \in committed

VaultDisk ==
  /\ config \in Config /\ config.mode # "passphrase"
  /\ vault \in durable /\ \A d \in durable : Sound(d)
  /\ \A g \in committed : Table(g)
  /\ {keychain, keyFile} \subseteq {None, born.key} /\ born.key \in {keychain, keyFile}
  /\ exported => dest = born.key
  /\ NoWrap /\ told = None

\* A handle holds a committed table, or is rotating one and can go back to it.
VaultHandle(p) ==
  repo[p] # None \/ Rotating(p) =>
    /\ repo[p].mode = config.mode /\ repo[p].seed = born.seed
    /\ Table(repo[p].gens)
    /\ LET g == IF Rotating(p) THEN op[p].prior ELSE repo[p].gens
       IN  g \in committed /\ repo[p].cs = CurrentGeneration(g)

VaultOp(p) ==
  /\ op[p].at \in {"idle", "tmpfile", "syncdir", "export"} \cup Replacing
  /\ op[p].at # "idle" => op[p].key = born.key
  /\ Rotating(p) => repo[p] \in HandleRec
  /\ op[p].at \in Replacing => tmp # None
  /\ op[p].at = "rename" => tmp = [of |-> SealWith(repo[p], op[p].key), synced |-> TRUE]

RootsOpen ==
  \A r \in roots : config.mode = "transit-only" \/ r.key = <<born.seed, r.seq>>

HasVault ==
  born # None /\ born.key # 0 =>
    /\ VaultDisk /\ RootsOpen
    /\ \A p \in Procs : VaultHandle(p) /\ VaultOp(p)
    /\ \A p, q \in Procs : op[p].at \in Replacing /\ op[q].at \in Replacing => p = q

-----------------------------------------------------------------------------
(* A namespace with wrap records: one DEK, and the last told one stays. *)

\* A record of the one DEK, sealed together with an anchor a holder of the DEK
\* chose; its plain fields may have been altered.
Genuine(w) == w \in Wrap /\ w.dek = born.seed /\ <<w.dek, w.bound[3]>> \in authored

WrapDisk ==
  /\ config \in Config /\ config.mode = "passphrase"
  /\ vault = None /\ durable = {None} /\ tmp = None /\ ~exported
  /\ told \in Wrap
  /\ \A s \in WrapSeqs : Whole(wraps[s]) => Genuine(wraps[s]) /\ wraps[s].seq = s

WrapHandle(p) ==
  repo[p] # None =>
    /\ repo[p].mode = "passphrase" /\ repo[p].seed = born.seed
    /\ <<repo[p].seed, repo[p].anchor>> \in authored

WrapOp(p) ==
  /\ op[p].at \in {"idle"} \cup Wrapping
  /\ op[p].at \in Wrapping => Genuine(op[p].wrap)

\* As long as nobody altered a record, what was told is there, later records
\* have no lower anchor, and the record on its way comes after all others.
ToldStays ==
  ~tampered =>
    /\ wraps[told.seq] = told
    /\ \A s \in WrapSeqs : s >= told.seq /\ Whole(wraps[s]) => wraps[s].anchor >= told.anchor
    /\ \A p \in Procs :
         op[p].at \in Wrapping =>
           /\ op[p].wrap.seq > told.seq /\ op[p].wrap.anchor >= told.anchor
           /\ \A s \in WrapSeqs : s > op[p].wrap.seq => wraps[s] = None
           /\ op[p].at = "wrapclean" => wraps[op[p].wrap.seq] = op[p].wrap

HasWraps ==
  born # None /\ born.key = 0 =>
    /\ WrapDisk /\ RootsOpen /\ ToldStays
    /\ \A p \in Procs : WrapHandle(p) /\ WrapOp(p)
    /\ \A p, q \in Procs : op[p].at \in Wrapping /\ op[q].at \in Wrapping => p = q

IndInv == Types /\ Unborn /\ HasVault /\ HasWraps

-----------------------------------------------------------------------------
(* The least and the latest. *)

\* A set of naturals that is not empty has a least element: the natural order
\* is well-founded.
LEMMA LeastNat ==
  ASSUME NEW T \in SUBSET Nat, T # {}
  PROVE  \E x \in T : \A y \in T : x <= y
<1> DEFINE Less == {p \in Nat \X Nat : p[1] < p[2]}
<1>1. IsWellFoundedOn(OpToRel(<, Nat), Nat)
  BY NatLessThanWellFounded
<1>2. OpToRel(<, Nat) = Less
  BY DEF OpToRel
<1>3. IsWellFoundedOn(Less, Nat)
  BY <1>1, <1>2
<1> HIDE DEF Less
<1>4. PICK x \in T : \A y \in T : ~ (<<y, x>> \in Less)
  BY <1>3, WFMin
<1>5. ASSUME NEW y \in T PROVE x <= y
  <2>1. ~ (<<y, x>> \in Less) /\ x \in Nat /\ y \in Nat
    BY <1>4
  <2>2. <<y, x>> \in Nat \X Nat /\ <<y, x>>[1] = y /\ <<y, x>>[2] = x
    BY <2>1
  <2>3. ~(y < x)
    BY <2>1, <2>2 DEF Less
  <2> QED
    BY <2>3, <2>1
<1> QED
  BY <1>5

\* The bounds are numbers.
LEMMA BoundsAreNat == MaxFresh \in Nat /\ MaxWrap \in Nat /\ MaxAnchor \in Nat
  BY VaultAssumption

\* A content is neither an absent file nor one cut short.
LEMMA ContentsAreWhole ==
  /\ None # Torn
  /\ \A v \in Sealed : v # None /\ v # Torn
  /\ \A v \in Config : v # None /\ v # Torn
  /\ \A v \in Sibling : v # None
  /\ \A v \in Wrap : v # None /\ v # Torn
  /\ \A v \in Nat : v # None /\ v # Torn
  BY VaultAssumption

\* latest_wrap_seq: of the records on disk, the one with the highest number.
LEMMA LatestIsLast ==
  ASSUME \E s \in WrapSeqs : wraps[s] # None
  PROVE  /\ LatestWrapSeq \in WrapSeqs /\ wraps[LatestWrapSeq] # None
         /\ \A s \in WrapSeqs : wraps[s] # None => s <= LatestWrapSeq
<1> DEFINE T == {s \in WrapSeqs : wraps[s] # None}
           B == {b \in Nat : \A t \in T : t <= b}
<1>1. T \subseteq Nat /\ MaxWrap \in B
  BY BoundsAreNat DEF WrapSeqs
<1>2. PICK b \in B : \A c \in B : b <= c
  BY <1>1, LeastNat
<1>3. b \in T
  <2> SUFFICES ASSUME b \notin T PROVE FALSE
    OBVIOUS
  <2>1. PICK s \in T : TRUE
    OBVIOUS
  <2>2. b - 1 \in B
    BY <2>1, <1>1
  <2> QED
    BY <2>2, <1>2
<1>4. \E x \in T : \A y \in T : x >= y
  BY <1>1, <1>3
<1>5. LatestWrapSeq = CHOOSE x \in T : \A y \in T : x >= y
  BY DEF LatestWrapSeq, Max
<1>6. LatestWrapSeq \in T /\ \A y \in T : LatestWrapSeq >= y
  BY <1>4, <1>5
<1> QED
  BY <1>1, <1>6

-----------------------------------------------------------------------------
(* One process's command and handle change, the others' stay. *)

LEMMA IdleIsOp == Idle \in OpRec /\ Idle.at = "idle"
<1>1. <<>> \in Seq(Nat)
  OBVIOUS
<1> QED
  BY <1>1 DEF Idle, OpRec, Places

\* One process goes on, the others are where they were.
LEMMA OpMoves ==
  ASSUME Types, NEW p \in Procs, NEW o \in OpRec, op' = [op EXCEPT ![p] = o]
  PROVE  /\ op' \in [Procs -> OpRec] /\ op'[p] = o
         /\ \A q \in Procs : q # p => op'[q] = op[q]
  BY DEF Types

\* So it is when only its place changes.
LEMMA GotoMoves ==
  ASSUME Types, NEW p \in Procs, NEW x \in Places, Goto(p, x)
  PROVE  /\ op' \in [Procs -> OpRec]
         /\ op'[p].at = x /\ op'[p].key = op[p].key /\ op'[p].prior = op[p].prior
         /\ op'[p].pw = op[p].pw /\ op'[p].wrap = op[p].wrap
         /\ \A q \in Procs : q # p => op'[q] = op[q]
<1>1. op[p] \in OpRec /\ op'[p] = [op[p] EXCEPT !.at = x]
  BY DEF Types, Goto
<1>2. /\ op'[p] \in OpRec
      /\ op'[p].at = x /\ op'[p].key = op[p].key /\ op'[p].prior = op[p].prior
      /\ op'[p].pw = op[p].pw /\ op'[p].wrap = op[p].wrap
  BY <1>1 DEF OpRec
<1> QED
  BY <1>2 DEF Types, Goto

\* And when it ends.
LEMMA DoneMoves ==
  ASSUME Types, NEW p \in Procs, Done(p)
  PROVE  /\ op' \in [Procs -> OpRec] /\ op'[p].at = "idle"
         /\ \A q \in Procs : q # p => op'[q] = op[q]
  BY IdleIsOp, OpMoves DEF Done

\* A failed rotation goes back to the table it started from.
LEMMA RollbackMoves ==
  ASSUME Types, NEW p \in Procs, repo[p] \in HandleRec, Rollback(p)
  PROVE  /\ repo' \in [Procs -> HandleRec \cup {None}]
         /\ repo'[p] \in HandleRec
         /\ repo'[p].mode = repo[p].mode /\ repo'[p].seed = repo[p].seed
         /\ repo'[p].gens = op[p].prior /\ repo'[p].cs = repo[p].cs
         /\ \A q \in Procs : q # p => repo'[q] = repo[q]
<1>1. /\ repo[p] \in HandleRec /\ repo'[p] = [repo[p] EXCEPT !.gens = op[p].prior]
      /\ op[p].prior \in Seq(Nat)
  BY DEF Types, Rollback, OpRec
<1>2. /\ repo'[p] \in HandleRec
      /\ repo'[p].mode = repo[p].mode /\ repo'[p].seed = repo[p].seed
      /\ repo'[p].gens = op[p].prior /\ repo'[p].cs = repo[p].cs
  BY <1>1 DEF HandleRec
<1> QED
  BY <1>2 DEF Types, Rollback

\* Which kind of namespace a handle or a command belongs to.
LEMMA Phases ==
  ASSUME IndInv, NEW p \in Procs
  PROVE  /\ repo[p] # None => born # None
         /\ repo[p] # None /\ repo[p].mode # "passphrase" => born.key # 0
         /\ op[p].at \in Creating => born = None
         /\ op[p].at \in Wrapping => born # None /\ born.key = 0
         /\ op[p].at \in Replacing \cup {"tmpfile", "syncdir", "export"} =>
              born # None /\ born.key # 0
<1>1. CASE born = None
  BY <1>1 DEF IndInv, Unborn, UnbornRest, CreatesAt, Creating, Wrapping, Replacing
<1>2. CASE born # None /\ born.key # 0
  BY <1>2 DEF IndInv, HasVault, VaultOp, Creating, Wrapping, Replacing
<1>3. CASE born # None /\ born.key = 0
  BY <1>3 DEF IndInv, HasWraps, WrapHandle, WrapOp, Creating, Wrapping, Replacing
<1> QED
  BY <1>1, <1>2, <1>3

\* While one process creates, the others have no command under way.
LEMMA OthersWait ==
  ASSUME IndInv, NEW p \in Procs, op[p].at \in Creating
  PROVE  /\ born = None /\ CreatesAt(p) /\ UnbornDisk /\ UnbornRest
         /\ \A q \in Procs : q # p => op[q].at = "idle"
<1>1. born = None
  BY Phases
<1> QED
  BY <1>1 DEF IndInv, Unborn, CreatesAt

\* What is enough for a step of creation.
LEMMA StaysUnborn ==
  ASSUME born' = None, Types', UnbornDisk', UnbornRest', NEW p \in Procs, CreatesAt(p)',
         \A q \in Procs : q # p => op'[q].at = "idle"
  PROVE  IndInv'
<1>1. \A q \in Procs : CreatesAt(q)'
  BY VaultAssumption DEF CreatesAt, Creating
<1> QED
  BY <1>1 DEF IndInv, Unborn, HasVault, HasWraps, Creating

-----------------------------------------------------------------------------
(* Creation. *)

LEMMA InitHolds == Init => IndInv
<1> SUFFICES ASSUME Init PROVE IndInv
  OBVIOUS
<1> USE DEF Init
<1>1. wraps \in [WrapSeqs -> Wrap \cup {None, Torn}] /\ op \in [Procs -> OpRec]
  BY IdleIsOp
<1>2. Types
  <2>1. repo \in [Procs -> HandleRec \cup {None}]
    OBVIOUS
  <2> QED
    BY <1>1, <2>1 DEF Types
<1>3. UnbornDisk /\ UnbornRest
  BY VaultAssumption DEF UnbornDisk, UnbornRest, NoWrap, Whole
<1>4. \A p \in Procs : op[p].at = "idle"
  BY IdleIsOp
<1>5. \A p \in Procs : CreatesAt(p)
  BY <1>4, VaultAssumption DEF CreatesAt, Creating
<1> QED
  BY <1>2, <1>3, <1>4, <1>5 DEF IndInv, Unborn, HasVault, HasWraps, Creating

LEMMA CreateConfigKeeps ==
  ASSUME IndInv, NEW p \in Procs, CreateConfig(p)
  PROVE  IndInv'
<1>1. PICK m \in Modes, first, again \in Pw \cup {""} :
        /\ config' = Torn
        /\ op' = [op EXCEPT ![p].at = m, ![p].pw = Typed(first, again)]
  BY DEF CreateConfig
<1>2. born = None
  BY VaultAssumption DEF IndInv, HasVault, VaultDisk, HasWraps, WrapDisk, CreateConfig
<1>3. \A q \in Procs : op[q].at = "idle"
  BY IdleIsOp DEF CreateConfig
<1>4. Typed(first, again) \in Pw \cup {None} /\ m \in Creating
  BY VaultAssumption DEF Typed, Creating
<1>5. op[p] \in OpRec /\ op'[p] = [op[p] EXCEPT !.at = m, !.pw = Typed(first, again)]
  BY <1>1 DEF IndInv, Types
<1>6. op'[p] \in OpRec /\ op'[p].at = m
  BY <1>4, <1>5 DEF OpRec, Places
<1>7. op' \in [Procs -> OpRec] /\ \A q \in Procs : q # p => op'[q] = op[q]
  BY <1>1, <1>6 DEF IndInv, Types
<1>8. Types'
  BY <1>1, <1>7 DEF IndInv, Types, CreateConfig, ghosts, facts
<1>9. UnbornDisk' /\ UnbornRest' /\ vault' = None /\ keyFile' = None /\ config' # None /\ born' = None
  BY <1>1, <1>2, VaultAssumption
     DEF IndInv, Unborn, UnbornDisk, UnbornRest, NoWrap, CreateConfig, ghosts, facts
<1>10. CreatesAt(p)'
  BY <1>4, <1>6, <1>9, VaultAssumption DEF CreatesAt
<1> QED
  BY <1>3, <1>7, <1>8, <1>9, <1>10, StaysUnborn

LEMMA CreateConfigFillKeeps ==
  ASSUME IndInv, NEW p \in Procs, CreateConfigFill(p)
  PROVE  IndInv'
<1>1. op[p].at \in Creating /\ op[p].at \in Modes
  BY VaultAssumption DEF CreateConfigFill, Creating
<1>2. /\ born = None /\ CreatesAt(p) /\ UnbornDisk /\ UnbornRest
      /\ \A q \in Procs : q # p => op[q].at = "idle"
  BY <1>1, OthersWait
<1>3. config' \in Config /\ config'.mode = op[p].at /\ config' \notin {None, Torn}
  <2>1. config' = [mode |-> op[p].at, salt |-> fresh] /\ fresh \in Nat
    BY DEF CreateConfigFill, IndInv, Types
  <2> QED
    BY <2>1, <1>1, VaultAssumption DEF Config
<1> DEFINE x == IF op[p].at = "passphrase" THEN "wrapfile" ELSE "vaultfile"
<1>4. Goto(p, x) /\ x \in Places
  BY DEF CreateConfigFill, Places, Creating
<1>5. /\ op' \in [Procs -> OpRec] /\ op'[p].at = x
      /\ \A q \in Procs : q # p => op'[q] = op[q]
  BY <1>4, GotoMoves DEF IndInv
<1>6. Types'
  BY <1>3, <1>5 DEF IndInv, Types, CreateConfigFill, ghosts, facts
<1>7. UnbornDisk' /\ UnbornRest' /\ vault' = None /\ keyFile' = None /\ born' = None
  BY <1>1, <1>2, <1>3, VaultAssumption
     DEF UnbornDisk, UnbornRest, NoWrap, CreateConfigFill, ghosts, facts, CreatesAt
<1>8. CreatesAt(p)'
  BY <1>3, <1>5, <1>7, VaultAssumption DEF CreatesAt, Creating
<1> QED
  BY <1>2, <1>5, <1>6, <1>7, <1>8, StaysUnborn

LEMMA CreateVaultOpenKeeps ==
  ASSUME IndInv, NEW p \in Procs, CreateVaultOpen(p)
  PROVE  IndInv'
<1>1. op[p].at = "vaultfile" /\ op[p].at \in Creating
  BY DEF CreateVaultOpen, At, Creating
<1>2. /\ born = None /\ CreatesAt(p) /\ UnbornDisk /\ UnbornRest
      /\ \A q \in Procs : q # p => op[q].at = "idle"
  BY <1>1, OthersWait
<1>3. Types' /\ born' = None
  BY <1>2 DEF IndInv, Types, CreateVaultOpen, ghosts, facts
<1>4. UnbornDisk' /\ UnbornRest'
  BY <1>1, <1>2, VaultAssumption DEF UnbornDisk, UnbornRest, NoWrap, CreateVaultOpen, ghosts, facts, CreatesAt
<1>5. CreatesAt(p)'
  BY <1>1, <1>2, VaultAssumption DEF CreateVaultOpen, ghosts, facts, CreatesAt, Creating
<1>6. \A q \in Procs : q # p => op'[q].at = "idle"
  BY <1>2 DEF CreateVaultOpen
<1> QED
  BY <1>3, <1>4, <1>5, <1>6, StaysUnborn

LEMMA CreateVaultFillKeeps ==
  ASSUME IndInv, NEW p \in Procs, CreateVaultFill(p)
  PROVE  IndInv'
<1>1. op[p].at = "vaultfile" /\ op[p].at \in Creating
  BY DEF CreateVaultFill, At, Creating
<1>2. /\ born = None /\ CreatesAt(p) /\ UnbornDisk /\ UnbornRest
      /\ \A q \in Procs : q # p => op[q].at = "idle"
  BY <1>1, OthersWait
<1> DEFINE k == fresh + 2
<1>3. fresh \in Nat /\ fresh' \in Nat \ {0} /\ k \in Nat /\ k # 0 /\ fresh + 1 \in Nat
  BY DEF IndInv, Types, CreateVaultFill
<1>4. vault' = [key |-> k, seed |-> fresh, gens |-> <<fresh + 1>>]
  BY DEF CreateVaultFill, VaultCreate, SealWith
<1>5. op' = [op EXCEPT ![p].at = "storekey", ![p].key = k] /\ durable' = {vault'}
  BY DEF CreateVaultFill
<1> HIDE DEF k
<1>6. vault' \in Sealed /\ vault'.key = k /\ Len(vault'.gens) = 1
  BY <1>3, <1>4 DEF Sealed
<1>7. op[p] \in OpRec /\ op'[p] = [op[p] EXCEPT !.at = "storekey", !.key = k]
  BY <1>5 DEF IndInv, Types
<1>8. op'[p] \in OpRec /\ op'[p].at = "storekey" /\ op'[p].key = k
  BY <1>3, <1>7 DEF OpRec, Places, Creating
<1>9. op' \in [Procs -> OpRec] /\ \A q \in Procs : q # p => op'[q] = op[q]
  BY <1>5, <1>8 DEF IndInv, Types
<1>10. Types' /\ born' = None
  BY <1>2, <1>3, <1>6, <1>9 DEF IndInv, Types, CreateVaultFill, ghosts, facts
<1>11. UnbornDisk' /\ UnbornRest'
  BY <1>1, <1>2, <1>3, <1>5, <1>6, VaultAssumption
     DEF UnbornDisk, UnbornRest, NoWrap, CreateVaultFill, ghosts, facts, CreatesAt
<1>12. CreatesAt(p)'
  BY <1>1, <1>2, <1>6, <1>8, VaultAssumption DEF CreateVaultFill, ghosts, facts, CreatesAt, Creating
<1> QED
  BY <1>2, <1>9, <1>10, <1>11, <1>12, StaysUnborn

\* create returns: the vault on disk is the one the key that was stored opens.
LEMMA CreateAckKeeps ==
  ASSUME IndInv, NEW p \in Procs, op[p].at \in {"storekey", "fillkey"}, CreateAck(p, op[p].key),
         UNCHANGED <<config, vault, tmp, wraps, durable, fresh, roots>>,
         {keychain', keyFile'} \subseteq {None, op[p].key}, op[p].key \in {keychain', keyFile'}
  PROVE  IndInv'
<1>1. op[p].at \in Creating
  BY DEF Creating
<1>2. /\ born = None /\ CreatesAt(p) /\ UnbornDisk /\ UnbornRest
      /\ \A q \in Procs : q # p => op[q].at = "idle"
  BY <1>1, OthersWait
<1>3. /\ vault \in Sealed /\ Len(vault.gens) = 1 /\ vault.key = op[p].key /\ vault.key # 0
      /\ config \in Config /\ config.mode # "passphrase"
  BY <1>2 DEF CreatesAt, UnbornDisk
<1>4. /\ vault.key \in Nat /\ vault.seed \in Nat /\ vault.gens \in Seq(Nat) /\ vault.gens # <<>>
      /\ vault.gens[1] \in Nat /\ config.mode \in Modes
  BY <1>3 DEF Sealed, Config
<1>5. born' = [seed |-> vault.seed, key |-> vault.key, gens |-> vault.gens]
  BY <1>3 DEF CreateAck
<1>6. /\ born' \in Sealed /\ born'.key = vault.key /\ born'.seed = vault.seed
      /\ born'.gens = vault.gens /\ born' # None
  <2>1. /\ born' \in Sealed /\ born'.key = vault.key /\ born'.seed = vault.seed
        /\ born'.gens = vault.gens
    BY <1>4, <1>5 DEF Sealed
  <2> QED
    BY <2>1, ContentsAreWhole
<1> DEFINE h == Handle(config.mode, vault.seed, vault.gens, 0)
<1>7. /\ h \in HandleRec /\ h.mode = config.mode /\ h.seed = vault.seed /\ h.gens = vault.gens
      /\ h.cs = CurrentGeneration(vault.gens)
  BY <1>3, <1>4 DEF Handle, HandleRec, CurrentGeneration
<1>8. repo' = [repo EXCEPT ![p] = h]
  BY DEF CreateAck
<1> HIDE DEF h
<1>9. /\ repo' \in [Procs -> HandleRec \cup {None}] /\ repo'[p] = h
      /\ \A q \in Procs : q # p => repo'[q] = None
  BY <1>2, <1>7, <1>8 DEF IndInv, Types, UnbornRest
<1>10. op' \in [Procs -> OpRec] /\ \A q \in Procs : op'[q].at = "idle"
  BY <1>2, DoneMoves DEF CreateAck, IndInv
<1>11. committed' = {vault.gens} /\ ~exported' /\ told' = None
  BY <1>2 DEF CreateAck, UnbornRest
<1>12. Types'
  BY <1>3, <1>4, <1>6, <1>9, <1>10 DEF IndInv, Types
<1>13. VaultDisk'
  BY <1>2, <1>3, <1>4, <1>6, <1>11 DEF UnbornDisk, NoWrap, VaultDisk, Sound, Table
<1>14. RootsOpen'
  BY <1>2 DEF RootsOpen, UnbornRest
<1>15. ASSUME NEW q \in Procs PROVE VaultHandle(q)' /\ VaultOp(q)'
  <2>1. VaultOp(q)'
    BY <1>10 DEF VaultOp, Replacing, Rotating
  <2>2. VaultHandle(q)'
    BY <1>4, <1>6, <1>7, <1>9, <1>10, <1>11 DEF VaultHandle, Rotating, Table
  <2> QED
    BY <2>1, <2>2
<1> QED
  BY <1>3, <1>6, <1>10, <1>12, <1>13, <1>14, <1>15
     DEF IndInv, Unborn, HasVault, HasWraps, Replacing

LEMMA CreateStoreKeyKeeps ==
  ASSUME IndInv, NEW p \in Procs, CreateStoreKey(p)
  PROVE  IndInv'
<1>1. op[p].at = "storekey" /\ op[p].at \in Creating
  BY DEF CreateStoreKey, At, Creating
<1>2. /\ born = None /\ CreatesAt(p) /\ UnbornDisk /\ UnbornRest
      /\ \A q \in Procs : q # p => op[q].at = "idle"
  BY <1>1, OthersWait
<1>3. keyFile = None
  BY <1>1, <1>2 DEF CreatesAt, Creating
<1>4. CASE keychain' = op[p].key /\ CreateAck(p, op[p].key) /\ UNCHANGED keyFile
  BY <1>1, <1>3, <1>4, CreateAckKeeps DEF CreateStoreKey
<1>5. CASE keyFile' = Torn /\ Goto(p, "fillkey") /\ UNCHANGED <<keychain, repo, ghosts>>
  <2>1. /\ op' \in [Procs -> OpRec] /\ op'[p].at = "fillkey" /\ op'[p].key = op[p].key
        /\ \A q \in Procs : q # p => op'[q] = op[q]
    BY <1>5, GotoMoves DEF IndInv, Places, Creating
  <2>2. Types' /\ born' = None
    BY <1>2, <1>5, <2>1 DEF IndInv, Types, CreateStoreKey, ghosts, facts
  <2>3. UnbornDisk' /\ UnbornRest'
    BY <1>1, <1>2, <1>5, VaultAssumption
       DEF UnbornDisk, UnbornRest, NoWrap, CreateStoreKey, ghosts, facts, CreatesAt, Whole
  <2>4. CreatesAt(p)'
    BY <1>1, <1>2, <2>1, VaultAssumption DEF CreateStoreKey, CreatesAt, Creating
  <2> QED
    BY <1>2, <2>1, <2>2, <2>3, <2>4, StaysUnborn
<1> QED
  BY <1>4, <1>5 DEF CreateStoreKey

LEMMA CreateFillKeyKeeps ==
  ASSUME IndInv, NEW p \in Procs, CreateFillKey(p)
  PROVE  IndInv'
<1>1. op[p].at = "fillkey" /\ op[p].at \in Creating
  BY DEF CreateFillKey, At, Creating
<1>2. UnbornDisk
  BY <1>1, OthersWait
<1> QED
  BY <1>1, <1>2, CreateAckKeeps DEF CreateFillKey, UnbornDisk

LEMMA CreateWrapOpenKeeps ==
  ASSUME IndInv, NEW p \in Procs, CreateWrapOpen(p)
  PROVE  IndInv'
<1>1. op[p].at = "wrapfile" /\ op[p].at \in Creating
  BY DEF CreateWrapOpen, At, Creating
<1>2. /\ born = None /\ CreatesAt(p) /\ UnbornDisk /\ UnbornRest
      /\ \A q \in Procs : q # p => op[q].at = "idle"
  BY <1>1, OthersWait
<1>3. wraps' = [wraps EXCEPT ![0] = Torn] /\ wraps \in [WrapSeqs -> Wrap \cup {None, Torn}]
  BY DEF CreateWrapOpen, IndInv, Types
<1>4. wraps' \in [WrapSeqs -> Wrap \cup {None, Torn}] /\ NoWrap'
  BY <1>2, <1>3 DEF UnbornDisk, NoWrap, Whole
<1>5. Types' /\ born' = None
  BY <1>2, <1>4 DEF IndInv, Types, CreateWrapOpen, ghosts, facts
<1>6. UnbornDisk' /\ UnbornRest'
  BY <1>2, <1>4 DEF UnbornDisk, UnbornRest, CreateWrapOpen, ghosts, facts
<1>7. CreatesAt(p)' /\ \A q \in Procs : q # p => op'[q].at = "idle"
  BY <1>2 DEF CreateWrapOpen, CreatesAt
<1> QED
  BY <1>5, <1>6, <1>7, StaysUnborn

\* create and rewrap: a new record, with its plain fields sealed into it.
LEMMA WrapCreated ==
  ASSUME NEW pw, NEW dek, NEW seq, NEW anchor, NEW prev, NEW id
  PROVE  WrapCreate(pw, dek, seq, anchor, prev, id) =
           [cost |-> MinCost, seq |-> seq, anchor |-> anchor, prev |-> prev,
            pw |-> pw, dek |-> dek, bound |-> <<MinCost, seq, anchor, prev>>, id |-> id]
<1> DEFINE b == <<MinCost, seq, anchor, prev>>
           w0 == [cost |-> MinCost, seq |-> seq, anchor |-> anchor, prev |-> prev,
                  pw |-> pw, dek |-> dek, bound |-> <<>>, id |-> id]
<1>1. Aad(w0) = b
  BY DEF Aad
<1>2. WrapCreate(pw, dek, seq, anchor, prev, id) = [w0 EXCEPT !.bound = b]
  BY <1>1 DEF WrapCreate
<1> HIDE DEF b
<1>3. [w0 EXCEPT !.bound = b] =
        [cost |-> MinCost, seq |-> seq, anchor |-> anchor, prev |-> prev,
         pw |-> pw, dek |-> dek, bound |-> b, id |-> id]
  OBVIOUS
<1> QED
  BY <1>2, <1>3 DEF b

LEMMA CreateWrapFillKeeps ==
  ASSUME IndInv, NEW p \in Procs, CreateWrapFill(p)
  PROVE  IndInv'
<1>1. op[p].at = "wrapfile" /\ op[p].at \in Creating
  BY DEF CreateWrapFill, At, Creating
<1>2. /\ born = None /\ CreatesAt(p) /\ UnbornDisk /\ UnbornRest
      /\ \A q \in Procs : q # p => op[q].at = "idle"
  BY <1>1, OthersWait
<1>3. config \in Config /\ config.mode = "passphrase" /\ vault = None
  BY <1>1, <1>2 DEF CreatesAt
<1> DEFINE rec == WrapCreate(op[p].pw, fresh, 0, 0, 0, fresh + 1)
<1>4. /\ wraps' = [wraps EXCEPT ![0] = rec] /\ authored' = authored \cup {<<fresh, rec.anchor>>}
      /\ told' = rec /\ born' = [seed |-> fresh, key |-> 0, gens |-> <<fresh>>]
      /\ repo' = [repo EXCEPT ![p] = FromDek(fresh, 0)] /\ Done(p) /\ fresh' = fresh + 2
      /\ UNCHANGED <<config, vault, tmp, keyFile, dest, keychain, durable,
                     committed, exported, tampered, roots>>
  BY DEF CreateWrapFill
<1>5. fresh \in Nat /\ fresh + 1 \in Nat /\ fresh + 2 \in Nat \ {0} /\ op[p].pw \in Pw \cup {None}
  BY DEF IndInv, Types, OpRec
<1>6. 0 \in WrapSeqs /\ 0 \in 0..MaxAnchor
  BY BoundsAreNat DEF WrapSeqs
<1>7. rec \in Wrap /\ rec.seq = 0 /\ rec.dek = fresh /\ rec.anchor = 0 /\ rec.bound[3] = 0
  <2>1. rec = [cost |-> MinCost, seq |-> 0, anchor |-> 0, prev |-> 0, pw |-> op[p].pw,
               dek |-> fresh, bound |-> <<MinCost, 0, 0, 0>>, id |-> fresh + 1]
    BY WrapCreated
  <2>2. <<MinCost, 0, 0, 0>> \in Nat \X Nat \X Nat \X Nat /\ MinCost \in Costs
    BY DEF MinCost, Costs
  <2> QED
    BY <2>1, <2>2, <1>5, <1>6 DEF Wrap
<1> HIDE DEF rec
<1>8. born' \in Sealed /\ born'.seed = fresh /\ born'.key = 0 /\ born' # None
  <2>1. born' \in Sealed /\ born'.seed = fresh /\ born'.key = 0
    BY <1>4, <1>5 DEF Sealed
  <2> QED
    BY <2>1, ContentsAreWhole
<1> DEFINE h == FromDek(fresh, 0)
<1>9. h \in HandleRec /\ h.mode = "passphrase" /\ h.seed = fresh /\ h.anchor = 0
  <2>1. "passphrase" \in Modes
    BY <1>3 DEF Config
  <2> QED
    BY <2>1, <1>5 DEF FromDek, Handle, HandleRec, CurrentGeneration
<1>10. repo' = [repo EXCEPT ![p] = h]
  BY <1>4
<1> HIDE DEF h
<1>11. /\ repo' \in [Procs -> HandleRec \cup {None}] /\ repo'[p] = h
       /\ \A q \in Procs : q # p => repo'[q] = None
  BY <1>2, <1>9, <1>10 DEF IndInv, Types, UnbornRest
<1>12. op' \in [Procs -> OpRec] /\ \A q \in Procs : op'[q].at = "idle"
  BY <1>2, <1>4, DoneMoves DEF IndInv
<1>13. /\ wraps' \in [WrapSeqs -> Wrap \cup {None, Torn}] /\ wraps'[0] = rec
       /\ \A s \in WrapSeqs : s # 0 => ~Whole(wraps'[s])
  BY <1>2, <1>4, <1>6, <1>7 DEF IndInv, Types, UnbornDisk, NoWrap, Whole
<1>14. Types'
  BY <1>4, <1>5, <1>8, <1>11, <1>12, <1>13 DEF IndInv, Types
<1>15. authored' = {<<fresh, 0>>}
  BY <1>2, <1>4, <1>7 DEF UnbornRest
<1>16. WrapDisk'
  <2>1. \A s \in WrapSeqs : Whole(wraps'[s]) => Genuine(wraps[s])' /\ wraps'[s].seq = s
    BY <1>7, <1>8, <1>13, <1>15 DEF Genuine
  <2> QED
    BY <2>1, <1>2, <1>3, <1>4, <1>7 DEF WrapDisk, UnbornDisk, UnbornRest
<1>17. RootsOpen'
  BY <1>2, <1>4 DEF RootsOpen, UnbornRest
<1>18. ToldStays'
  <2>1. \A s \in WrapSeqs : Whole(wraps'[s]) => wraps'[s].anchor >= told'.anchor
    BY <1>4, <1>7, <1>13
  <2> QED
    BY <2>1, <1>4, <1>7, <1>12, <1>13 DEF ToldStays, Wrapping
<1>19. ASSUME NEW q \in Procs PROVE WrapHandle(q)' /\ WrapOp(q)'
  BY <1>8, <1>9, <1>11, <1>12, <1>15 DEF WrapHandle, WrapOp, Wrapping
<1> QED
  BY <1>8, <1>12, <1>14, <1>16, <1>17, <1>18, <1>19
     DEF IndInv, Unborn, HasVault, HasWraps, Wrapping

-----------------------------------------------------------------------------
(* A namespace with a vault. *)

\* What is enough for a step that leaves the identity alone.
LEMMA StaysVault ==
  ASSUME born # None, born.key # 0, born' = born, Types', VaultDisk', RootsOpen',
         \A q \in Procs : VaultHandle(q)' /\ VaultOp(q)',
         \A q, r \in Procs : op'[q].at \in Replacing /\ op'[r].at \in Replacing => q = r
  PROVE  IndInv'
  BY DEF IndInv, Unborn, HasVault, HasWraps

\* load_vault_key yields the one key or fails, and copies no other.
LEMMA KeyIsLoaded ==
  ASSUME Types, born # None, born.key # 0, VaultDisk, NEW k, NEW kc, LoadVaultKey(k, kc)
  PROVE  /\ k \in {0, born.key}
         /\ {kc, keyFile} \subseteq {None, born.key} /\ born.key \in {kc, keyFile}
         /\ kc \in Nat \cup {None}
<1>1. born \in Sealed /\ born.key \in Nat
  BY DEF Types, Sealed
<1> QED
  BY <1>1 DEF LoadVaultKey, VaultDisk, Whole

\* What a step that touches no handle, command or root leaves as it was.
LEMMA VaultParts ==
  ASSUME IndInv, born # None, born.key # 0
  PROVE  /\ Types /\ VaultDisk /\ RootsOpen
         /\ \A q \in Procs : VaultHandle(q) /\ VaultOp(q)
         /\ \A q, r \in Procs : op[q].at \in Replacing /\ op[r].at \in Replacing => q = r
         /\ born \in Sealed /\ born.key \in Nat /\ born.key # None
  BY ContentsAreWhole DEF IndInv, HasVault, Types, Sealed

LEMMA OpenVaultKeeps ==
  ASSUME IndInv, NEW p \in Procs, OpenVault(p)
  PROVE  IndInv'
<1>1. PICK k \in 0..MaxFresh, kc \in {keychain, keyFile} :
        /\ LoadVaultKey(k, kc) /\ OpenWith(vault, k) /\ keychain' = kc
        /\ repo' = [repo EXCEPT ![p] = Handle(config.mode, vault.seed, vault.gens, 0)]
  BY DEF OpenVault
<1>2. born # None /\ born.key # 0
  <2>1. vault \in Sealed /\ vault.key = k
    BY <1>1 DEF OpenWith, Whole, IndInv, Types
  <2>2. born # None
    BY <1>1, <2>1 DEF IndInv, Unborn, UnbornDisk, LoadVaultKey
  <2>3. born.key # 0
    BY <1>1, <2>2 DEF IndInv, HasWraps, WrapDisk, OpenWith, Whole
  <2> QED
    BY <2>2, <2>3
<1>3. /\ Types /\ VaultDisk /\ RootsOpen
      /\ \A q \in Procs : VaultHandle(q) /\ VaultOp(q)
      /\ \A q, r \in Procs : op[q].at \in Replacing /\ op[r].at \in Replacing => q = r
  BY <1>2, VaultParts
<1>4. /\ {kc, keyFile} \subseteq {None, born.key} /\ born.key \in {kc, keyFile}
      /\ kc \in Nat \cup {None}
  BY <1>1, <1>2, <1>3, KeyIsLoaded
<1>5. vault \in Sealed /\ vault.seed = born.seed /\ vault.gens \in committed /\ Table(vault.gens)
  BY <1>3 DEF VaultDisk, Sound
<1> DEFINE h == Handle(config.mode, vault.seed, vault.gens, 0)
<1>6. /\ h \in HandleRec /\ h.mode = config.mode /\ h.seed = vault.seed /\ h.gens = vault.gens
      /\ h.cs = CurrentGeneration(vault.gens)
  <2>1. /\ vault.seed \in Nat /\ vault.gens \in Seq(Nat) /\ vault.gens[Len(vault.gens)] \in Nat
        /\ config.mode \in Modes
    BY <1>3, <1>5 DEF Sealed, Table, VaultDisk, Config
  <2> QED
    BY <2>1 DEF Handle, HandleRec, CurrentGeneration
<1>7. repo' = [repo EXCEPT ![p] = h]
  BY <1>1
<1> HIDE DEF h
<1>8. repo' \in [Procs -> HandleRec \cup {None}] /\ repo'[p] = h /\ \A q \in Procs : q # p => repo'[q] = repo[q]
  BY <1>3, <1>6, <1>7 DEF Types
<1>9. op' = op /\ op[p].at = "idle" /\ UNCHANGED <<config, vault, tmp, keyFile, wraps, dest, durable, fresh, facts, roots>>
  BY IdleIsOp DEF OpenVault
<1>10. Types'
  BY <1>1, <1>3, <1>4, <1>8, <1>9 DEF Types, ghosts, facts
<1>11. VaultDisk' /\ RootsOpen' /\ born' = born
  BY <1>1, <1>3, <1>4, <1>9 DEF VaultDisk, RootsOpen, ghosts, facts, NoWrap, Sound, Table
<1>12. ASSUME NEW q \in Procs PROVE VaultHandle(q)' /\ VaultOp(q)'
  <2>1. CASE q = p
    <3>1. VaultOp(q)'
      BY <2>1, <1>9 DEF VaultOp, Rotating, Replacing
    <3>2. VaultHandle(q)'
      BY <2>1, <1>5, <1>6, <1>8, <1>9 DEF VaultHandle, Rotating, Table, ghosts, facts
    <3> QED
      BY <3>1, <3>2
  <2>2. CASE q # p
    BY <2>2, <1>3, <1>8, <1>9 DEF VaultHandle, VaultOp, Rotating, Table, ghosts, facts
  <2> QED
    BY <2>1, <2>2
<1> QED
  BY <1>2, <1>3, <1>9, <1>10, <1>11, <1>12, StaysVault

LEMMA RotateStartKeeps ==
  ASSUME IndInv, NEW p \in Procs, RotateStart(p)
  PROVE  IndInv'
<1>1. PICK k \in 0..MaxFresh, kc \in {keychain, keyFile} :
        /\ LoadVaultKey(k, kc) /\ keychain' = kc
        /\ IF k = 0 THEN UNCHANGED <<repo, op>>
           ELSE /\ repo' = [repo EXCEPT ![p].gens = RotateConvergence(@, fresh)]
                /\ op' = [op EXCEPT ![p] =
                      [@ EXCEPT !.at = "tmpfile", !.key = k, !.prior = repo[p].gens]]
  BY DEF RotateStart
<1>2. born # None /\ born.key # 0
  BY Phases DEF RotateStart
<1>3. /\ Types /\ VaultDisk /\ RootsOpen
      /\ \A q \in Procs : VaultHandle(q) /\ VaultOp(q)
      /\ \A q, r \in Procs : op[q].at \in Replacing /\ op[r].at \in Replacing => q = r
      /\ born.key \in Nat
  BY <1>2, VaultParts
<1>4. /\ k \in {0, born.key}
      /\ {kc, keyFile} \subseteq {None, born.key} /\ born.key \in {kc, keyFile}
      /\ kc \in Nat \cup {None}
  BY <1>1, <1>2, <1>3, KeyIsLoaded
<1>5. /\ UNCHANGED <<config, vault, tmp, keyFile, wraps, dest, durable, ghosts, roots>>
      /\ fresh \in Nat /\ fresh' \in Nat \ {0} /\ op[p].at = "idle" /\ repo[p] # None
  BY <1>3, IdleIsOp DEF RotateStart, Types
<1>6. VaultDisk' /\ RootsOpen' /\ born' = born
  BY <1>1, <1>3, <1>4, <1>5 DEF VaultDisk, RootsOpen, ghosts, facts, NoWrap, Sound, Table
<1>7. CASE k = 0
  <2>1. Types'
    BY <1>1, <1>3, <1>4, <1>5, <1>7 DEF Types, ghosts, facts
  <2>2. \A q \in Procs : VaultHandle(q)' /\ VaultOp(q)'
    BY <1>1, <1>3, <1>5, <1>7 DEF VaultHandle, VaultOp, Rotating, Table, ghosts, facts
  <2> QED
    BY <1>1, <1>2, <1>3, <1>6, <1>7, <2>1, <2>2, StaysVault
<1>8. CASE k # 0
  <2> DEFINE g == Append(repo[p].gens, fresh)
  <2>1. /\ repo[p] \in HandleRec /\ repo[p].gens \in committed /\ Table(repo[p].gens)
        /\ repo[p].mode = config.mode /\ repo[p].seed = born.seed
        /\ repo[p].cs = CurrentGeneration(repo[p].gens)
    BY <1>3, <1>5 DEF Types, VaultHandle, Rotating
  <2>2. Table(g)
    BY <2>1, <1>5 DEF Table
  <2>3. repo'[p] = [repo[p] EXCEPT !.gens = g]
    BY <1>1, <1>3, <1>8 DEF RotateConvergence, Types
  <2>4. op[p] \in OpRec /\ op'[p] = [op[p] EXCEPT !.at = "tmpfile", !.key = k, !.prior = repo[p].gens]
    BY <1>1, <1>3, <1>8 DEF Types
  <2>5. g \in Seq(Nat) /\ repo[p].gens \in Seq(Nat) /\ k \in Nat
    BY <1>3, <1>4, <2>1, <2>2 DEF Table
  <2> HIDE DEF g
  <2>6. /\ repo'[p] \in HandleRec /\ repo'[p].gens = g /\ repo'[p].mode = repo[p].mode
        /\ repo'[p].seed = repo[p].seed /\ repo'[p].cs = repo[p].cs
    BY <2>1, <2>3, <2>5 DEF HandleRec
  <2>7. /\ op'[p] \in OpRec /\ op'[p].at = "tmpfile" /\ op'[p].key = k
        /\ op'[p].prior = repo[p].gens
    BY <2>4, <2>5 DEF OpRec, Places
  <2>8. /\ repo' \in [Procs -> HandleRec \cup {None}] /\ op' \in [Procs -> OpRec]
        /\ \A q \in Procs : q # p => repo'[q] = repo[q] /\ op'[q] = op[q]
    BY <1>1, <1>3, <1>8, <2>6, <2>7 DEF Types
  <2>9. Types'
    BY <1>1, <1>3, <1>4, <1>5, <2>8 DEF Types, ghosts, facts
  <2>10. ASSUME NEW q \in Procs PROVE VaultHandle(q)' /\ VaultOp(q)'
    <3>1. CASE q = p
      <4>1. VaultOp(q)'
        BY <3>1, <1>4, <1>6, <1>8, <2>6, <2>7 DEF VaultOp, Rotating, Replacing
      <4>2. VaultHandle(q)'
        BY <3>1, <1>5, <1>6, <2>1, <2>2, <2>6, <2>7 DEF VaultHandle, Rotating, Table, ghosts, facts
      <4> QED
        BY <4>1, <4>2
    <3>2. CASE q # p
      BY <3>2, <1>3, <2>8, <1>5 DEF VaultHandle, VaultOp, Rotating, Table, ghosts, facts
    <3> QED
      BY <3>1, <3>2
  <2>11. \A q, r \in Procs : op'[q].at \in Replacing /\ op'[r].at \in Replacing => q = r
    BY <1>3, <2>7, <2>8 DEF Replacing
  <2> QED
    BY <1>2, <1>6, <2>9, <2>10, <2>11, StaysVault
<1> QED
  BY <1>7, <1>8

\* A process of a rotation that fails: memory goes back, the command is over.
\* The sibling is its own and goes, or was never its own and stays.
LEMMA RotationFails ==
  ASSUME IndInv, NEW p \in Procs, Rotating(p), Rollback(p), Done(p),
         \/ tmp' = tmp /\ op[p].at \notin Replacing
         \/ tmp' = None /\ op[p].at \in Replacing,
         UNCHANGED <<config, vault, keyFile, wraps, dest, keychain, durable, fresh, ghosts, roots>>
  PROVE  IndInv'
<1>1. born # None /\ born.key # 0
  BY Phases DEF Rotating, Replacing
<1>2. /\ Types /\ VaultDisk /\ RootsOpen
      /\ \A q \in Procs : VaultHandle(q) /\ VaultOp(q)
      /\ \A q, r \in Procs : op[q].at \in Replacing /\ op[r].at \in Replacing => q = r
  BY <1>1, VaultParts
<1>3. repo[p] \in HandleRec
  BY <1>2 DEF VaultOp
<1>4. /\ repo' \in [Procs -> HandleRec \cup {None}] /\ repo'[p] \in HandleRec
      /\ repo'[p].mode = repo[p].mode /\ repo'[p].seed = repo[p].seed
      /\ repo'[p].gens = op[p].prior /\ repo'[p].cs = repo[p].cs
      /\ \A q \in Procs : q # p => repo'[q] = repo[q]
  BY <1>2, <1>3, RollbackMoves
<1>5. op' \in [Procs -> OpRec] /\ op'[p].at = "idle" /\ \A q \in Procs : q # p => op'[q] = op[q]
  BY <1>2, DoneMoves
<1>6. Types' /\ born' = born
  BY <1>2, <1>4, <1>5 DEF Types, ghosts, facts
<1>7. VaultDisk' /\ RootsOpen'
  BY <1>2 DEF VaultDisk, RootsOpen, ghosts, facts, NoWrap, Sound, Table
<1>8. ASSUME NEW q \in Procs PROVE VaultHandle(q)' /\ VaultOp(q)'
  <2>1. CASE q = p
    <3>1. VaultOp(q)'
      BY <2>1, <1>5 DEF VaultOp, Rotating, Replacing
    <3>2. /\ repo[p].mode = config.mode /\ repo[p].seed = born.seed
          /\ op[p].prior \in committed /\ repo[p].cs = CurrentGeneration(op[p].prior)
          /\ Table(op[p].prior)
      BY <1>2 DEF VaultHandle, VaultDisk
    <3>3. VaultHandle(q)'
      BY <2>1, <3>2, <1>4, <1>5 DEF VaultHandle, Rotating, Table, ghosts, facts
    <3> QED
      BY <3>1, <3>3
  <2>2. CASE q # p
    <3>1. VaultHandle(q)'
      BY <2>2, <1>2, <1>4, <1>5 DEF VaultHandle, Rotating, Table, ghosts, facts
    <3>2. VaultOp(q)'
      <4>1. op[p].at \in Replacing => op[q].at \notin Replacing
        BY <2>2, <1>2
      <4> QED
        BY <2>2, <4>1, <1>2, <1>4, <1>5 DEF VaultOp, Rotating, Replacing, ghosts, facts
    <3> QED
      BY <3>1, <3>2
  <2> QED
    BY <2>1, <2>2
<1>9. \A q, r \in Procs : op'[q].at \in Replacing /\ op'[r].at \in Replacing => q = r
  BY <1>2, <1>5 DEF Replacing
<1> QED
  BY <1>1, <1>6, <1>7, <1>8, <1>9, StaysVault

LEMMA RotateOpenTmpKeeps ==
  ASSUME IndInv, NEW p \in Procs, RotateOpenTmp(p)
  PROVE  IndInv'
<1>1. op[p].at = "tmpfile" /\ Rotating(p) /\ op[p].at \notin Replacing
  BY DEF RotateOpenTmp, At, Rotating, Replacing
<1>2. CASE ~OpenExclusive
  <2>1. /\ Rollback(p) /\ Done(p) /\ tmp' = tmp
        /\ UNCHANGED <<config, vault, keyFile, wraps, dest, keychain, durable, fresh, ghosts, roots>>
    BY <1>2 DEF RotateOpenTmp
  <2> QED
    BY <1>1, <2>1, RotationFails
<1>3. CASE OpenExclusive
  <2>1. /\ tmp = None /\ tmp' = [of |-> Torn, synced |-> FALSE] /\ Goto(p, "fill") /\ repo' = repo
        /\ UNCHANGED <<config, vault, keyFile, wraps, dest, keychain, durable, fresh, ghosts, roots>>
    BY <1>3 DEF RotateOpenTmp, OpenExclusive
  <2>2. born # None /\ born.key # 0
    BY <1>1, Phases
  <2>3. /\ Types /\ VaultDisk /\ RootsOpen
        /\ \A q \in Procs : VaultHandle(q) /\ VaultOp(q)
    BY <2>2, VaultParts
  <2>4. tmp' \in Sibling /\ tmp' # None
    <3>1. tmp' \in Sibling
      BY <2>1 DEF Sibling
    <3> QED
      BY <3>1, ContentsAreWhole
  <2>5. /\ op' \in [Procs -> OpRec] /\ op'[p].at = "fill" /\ op'[p].key = op[p].key
        /\ op'[p].prior = op[p].prior /\ \A q \in Procs : q # p => op'[q] = op[q]
    BY <2>1, <2>3, GotoMoves DEF Places, Replacing
  <2>6. Types' /\ born' = born
    BY <2>1, <2>3, <2>4, <2>5 DEF Types, ghosts, facts
  <2>7. VaultDisk' /\ RootsOpen'
    BY <2>1, <2>3 DEF VaultDisk, RootsOpen, ghosts, facts, NoWrap, Sound, Table
  <2>8. \A q \in Procs : op[q].at \notin Replacing
    BY <2>1, <2>3 DEF VaultOp
  <2>9. ASSUME NEW q \in Procs PROVE VaultHandle(q)' /\ VaultOp(q)'
    <3>1. VaultHandle(q)'
      BY <1>1, <2>1, <2>3, <2>5 DEF VaultHandle, Rotating, Table, ghosts, facts
    <3>2. VaultOp(q)'
      BY <1>1, <2>1, <2>3, <2>4, <2>5, <2>8 DEF VaultOp, Rotating, Replacing, ghosts, facts
    <3> QED
      BY <3>1, <3>2
  <2>10. \A q, r \in Procs : op'[q].at \in Replacing /\ op'[r].at \in Replacing => q = r
    BY <2>5, <2>8
  <2> QED
    BY <2>2, <2>6, <2>7, <2>9, <2>10, StaysVault
<1> QED
  BY <1>2, <1>3

LEMMA RotateFillKeeps ==
  ASSUME IndInv, NEW p \in Procs, RotateFill(p)
  PROVE  IndInv'
<1>1. op[p].at = "fill" /\ Rotating(p) /\ op[p].at \in Replacing
  BY DEF RotateFill, At, Rotating, Replacing
<1>2. CASE tmp' = None /\ Rollback(p) /\ Done(p)
  BY <1>1, <1>2, RotationFails DEF RotateFill
<1>3. CASE FillTmp(p) /\ Goto(p, "rename") /\ UNCHANGED repo
  <2>1. /\ tmp' = [of |-> SealWith(repo[p], op[p].key), synced |-> TRUE]
        /\ Goto(p, "rename") /\ repo' = repo
        /\ UNCHANGED <<config, vault, keyFile, wraps, dest, keychain, durable, fresh, ghosts, roots>>
    BY <1>3 DEF RotateFill, FillTmp
  <2>2. born # None /\ born.key # 0
    BY <1>1, Phases
  <2>3. /\ Types /\ VaultDisk /\ RootsOpen
        /\ \A q \in Procs : VaultHandle(q) /\ VaultOp(q)
        /\ \A q, r \in Procs : op[q].at \in Replacing /\ op[r].at \in Replacing => q = r
    BY <2>2, VaultParts
  <2>4. tmp' \in Sibling /\ tmp' # None
    <3>1. repo[p] \in HandleRec /\ op[p].key \in Nat
      BY <1>1, <2>3 DEF VaultOp, Types, OpRec
    <3>2. SealWith(repo[p], op[p].key) \in Sealed
      BY <3>1 DEF SealWith, Sealed, HandleRec
    <3>3. tmp' \in Sibling
      BY <2>1, <3>2 DEF Sibling
    <3> QED
      BY <3>3, ContentsAreWhole
  <2>5. /\ op' \in [Procs -> OpRec] /\ op'[p].at = "rename" /\ op'[p].key = op[p].key
        /\ op'[p].prior = op[p].prior /\ \A q \in Procs : q # p => op'[q] = op[q]
    BY <2>1, <2>3, GotoMoves DEF Places, Replacing
  <2>6. Types' /\ born' = born
    BY <2>1, <2>3, <2>4, <2>5 DEF Types, ghosts, facts
  <2>7. VaultDisk' /\ RootsOpen'
    BY <2>1, <2>3 DEF VaultDisk, RootsOpen, ghosts, facts, NoWrap, Sound, Table
  <2>8. \A q \in Procs : q # p => op[q].at \notin Replacing
    BY <1>1, <2>3
  <2>9. ASSUME NEW q \in Procs PROVE VaultHandle(q)' /\ VaultOp(q)'
    <3>1. VaultHandle(q)'
      BY <1>1, <2>1, <2>3, <2>5 DEF VaultHandle, Rotating, Table, ghosts, facts
    <3>2. VaultOp(q)'
      BY <1>1, <2>1, <2>3, <2>4, <2>5, <2>8 DEF VaultOp, Rotating, Replacing, ghosts, facts
    <3> QED
      BY <3>1, <3>2
  <2>10. \A q, r \in Procs : op'[q].at \in Replacing /\ op'[r].at \in Replacing => q = r
    BY <2>5, <2>8
  <2> QED
    BY <2>2, <2>6, <2>7, <2>9, <2>10, StaysVault
<1> QED
  BY <1>2, <1>3 DEF RotateFill

LEMMA RotateRenameKeeps ==
  ASSUME IndInv, NEW p \in Procs, RotateRename(p)
  PROVE  IndInv'
<1>1. op[p].at = "rename" /\ Rotating(p) /\ op[p].at \in Replacing
  BY DEF RotateRename, At, Rotating, Replacing
<1>2. CASE RenameFails(p)
  BY <1>1, <1>2, RotationFails DEF RotateRename, RenameFails, ghosts, facts
<1>3. CASE Commit(p)
  <2>1. born # None /\ born.key # 0
    BY <1>1, Phases
  <2>2. /\ Types /\ VaultDisk /\ RootsOpen
        /\ \A q \in Procs : VaultHandle(q) /\ VaultOp(q)
        /\ \A q, r \in Procs : op[q].at \in Replacing /\ op[r].at \in Replacing => q = r
    BY <2>1, VaultParts
  <2> DEFINE v == SealWith(repo[p], op[p].key)
             g == repo[p].gens
  <2>3. tmp = [of |-> v, synced |-> TRUE] /\ repo[p] \in HandleRec /\ op[p].key = born.key
    BY <1>1, <2>2 DEF VaultOp
  <2>4. /\ vault' = v /\ durable' = durable \cup {v} /\ committed' = committed \cup {g}
        /\ repo' = [repo EXCEPT ![p].cs = CurrentGeneration(g)] /\ Goto(p, "syncdir")
    BY <1>3, <2>3 DEF Commit
  <2>5. /\ tmp' = None
        /\ UNCHANGED <<config, keyFile, wraps, dest, keychain, fresh, born, exported, told,
                       authored, tampered, roots>>
    BY DEF RotateRename
  <2>6. /\ Table(g) /\ repo[p].mode = config.mode /\ repo[p].seed = born.seed
    BY <1>1, <2>2 DEF VaultHandle
  <2>7. v \in Sealed /\ v.key = born.key /\ v.seed = born.seed /\ v.gens = g
    <3>1. repo[p].seed \in Nat /\ g \in Seq(Nat) /\ op[p].key \in Nat
      BY <2>2, <2>3 DEF HandleRec, Types, OpRec
    <3> QED
      BY <3>1, <2>3, <2>6 DEF SealWith, Sealed
  <2>8. /\ op' \in [Procs -> OpRec] /\ op'[p].at = "syncdir" /\ op'[p].key = op[p].key
        /\ \A q \in Procs : q # p => op'[q] = op[q]
    BY <2>2, <2>4, GotoMoves DEF Places
  <2> HIDE DEF v
  <2>9. /\ repo' \in [Procs -> HandleRec \cup {None}] /\ repo'[p] \in HandleRec
        /\ repo'[p].mode = repo[p].mode /\ repo'[p].seed = repo[p].seed /\ repo'[p].gens = g
        /\ repo'[p].cs = CurrentGeneration(g)
        /\ \A q \in Procs : q # p => repo'[q] = repo[q]
    <3>1. repo'[p] = [repo[p] EXCEPT !.cs = CurrentGeneration(g)] /\ CurrentGeneration(g) \in Nat
      BY <2>2, <2>4, <2>6 DEF Types, CurrentGeneration, Table
    <3>2. /\ repo'[p] \in HandleRec
          /\ repo'[p].mode = repo[p].mode /\ repo'[p].seed = repo[p].seed /\ repo'[p].gens = g
          /\ repo'[p].cs = CurrentGeneration(g)
      BY <3>1, <2>3 DEF HandleRec
    <3> QED
      BY <3>2, <2>2, <2>4 DEF Types
  <2>10. Types' /\ born' = born
    BY <2>2, <2>4, <2>5, <2>7, <2>8, <2>9 DEF Types
  <2>11. VaultDisk' /\ RootsOpen'
    <3>1. \A d \in durable' : Sound(d)'
      BY <2>2, <2>4, <2>5, <2>7 DEF VaultDisk, Sound
    <3>2. \A t \in committed' : Table(t)'
      BY <2>2, <2>4, <2>5, <2>6 DEF VaultDisk, Table
    <3> QED
      BY <3>1, <3>2, <2>2, <2>4, <2>5 DEF VaultDisk, RootsOpen, NoWrap
  <2>12. \A q \in Procs : q # p => op[q].at \notin Replacing
    BY <1>1, <2>2
  <2>13. ASSUME NEW q \in Procs PROVE VaultHandle(q)' /\ VaultOp(q)'
    <3>1. CASE q = p
      <4>1. VaultOp(q)'
        BY <3>1, <2>3, <2>5, <2>8 DEF VaultOp, Rotating, Replacing
      <4>2. VaultHandle(q)'
        BY <3>1, <2>4, <2>5, <2>6, <2>8, <2>9 DEF VaultHandle, Rotating, Table
      <4> QED
        BY <4>1, <4>2
    <3>2. CASE q # p
      <4>1. VaultOp(q)'
        BY <3>2, <2>2, <2>5, <2>8, <2>9, <2>12 DEF VaultOp, Rotating, Replacing
      <4>2. VaultHandle(q)'
        BY <3>2, <2>2, <2>4, <2>5, <2>8, <2>9 DEF VaultHandle, Rotating, Table
      <4> QED
        BY <4>1, <4>2
    <3> QED
      BY <3>1, <3>2
  <2>14. \A q, r \in Procs : op'[q].at \in Replacing /\ op'[r].at \in Replacing => q = r
    BY <2>8, <2>12 DEF Replacing
  <2> QED
    BY <2>1, <2>10, <2>11, <2>13, <2>14, StaysVault
<1> QED
  BY <1>2, <1>3 DEF RotateRename

LEMMA RotateSyncDirKeeps ==
  ASSUME IndInv, NEW p \in Procs, RotateSyncDir(p)
  PROVE  IndInv'
<1>1. op[p].at = "syncdir" /\ ~Rotating(p)
  BY DEF RotateSyncDir, At, Rotating
<1>2. born # None /\ born.key # 0
  BY <1>1, Phases
<1>3. /\ Types /\ VaultDisk /\ RootsOpen
      /\ \A q \in Procs : VaultHandle(q) /\ VaultOp(q)
      /\ \A q, r \in Procs : op[q].at \in Replacing /\ op[r].at \in Replacing => q = r
  BY <1>2, VaultParts
<1>4. /\ durable' \in {durable, IF Torn \in durable THEN {Torn} ELSE {vault}} /\ Done(p)
      /\ UNCHANGED <<config, vault, tmp, keyFile, wraps, dest, keychain, repo, fresh, ghosts, roots>>
  BY DEF RotateSyncDir
<1>5. durable' \in {durable, {vault}}
  BY <1>3, <1>4, ContentsAreWhole DEF VaultDisk, Sound
<1>6. op' \in [Procs -> OpRec] /\ op'[p].at = "idle" /\ \A q \in Procs : q # p => op'[q] = op[q]
  BY <1>3, <1>4, DoneMoves
<1>7. Types' /\ born' = born
  BY <1>3, <1>4, <1>6 DEF Types, ghosts, facts
<1>8. VaultDisk' /\ RootsOpen'
  BY <1>3, <1>4, <1>5 DEF VaultDisk, RootsOpen, ghosts, facts, NoWrap, Sound, Table
<1>9. ASSUME NEW q \in Procs PROVE VaultHandle(q)' /\ VaultOp(q)'
  <2>1. VaultHandle(q)'
    BY <1>1, <1>3, <1>4, <1>6 DEF VaultHandle, Rotating, Table, ghosts, facts
  <2>2. VaultOp(q)'
    BY <1>1, <1>3, <1>4, <1>6 DEF VaultOp, Rotating, Replacing, ghosts, facts
  <2> QED
    BY <2>1, <2>2
<1>10. \A q, r \in Procs : op'[q].at \in Replacing /\ op'[r].at \in Replacing => q = r
  BY <1>3, <1>6 DEF Replacing
<1> QED
  BY <1>2, <1>7, <1>8, <1>9, <1>10, StaysVault

LEMMA ExportOpenKeeps ==
  ASSUME IndInv, NEW p \in Procs, ExportOpen(p)
  PROVE  IndInv'
<1>1. PICK k \in 1..MaxFresh, kc \in {keychain, keyFile} :
        /\ LoadVaultKey(k, kc) /\ keychain' = kc
        /\ op' = [op EXCEPT ![p].at = "export", ![p].key = k]
  BY DEF ExportOpen
<1>2. born # None /\ born.key # 0
  BY Phases DEF ExportOpen
<1>3. /\ Types /\ VaultDisk /\ RootsOpen
      /\ \A q \in Procs : VaultHandle(q) /\ VaultOp(q)
      /\ \A q, r \in Procs : op[q].at \in Replacing /\ op[r].at \in Replacing => q = r
      /\ born.key \in Nat /\ born.key # None
  BY <1>2, VaultParts
<1>4. /\ k \in {0, born.key}
      /\ {kc, keyFile} \subseteq {None, born.key} /\ born.key \in {kc, keyFile}
      /\ kc \in Nat \cup {None}
  BY <1>1, <1>2, <1>3, KeyIsLoaded
<1>5. k = born.key /\ k \in Nat
  BY <1>3, <1>4
<1>6. /\ UNCHANGED <<config, vault, tmp, keyFile, wraps, durable, repo, fresh, ghosts, roots>>
      /\ dest = None /\ op[p].at = "idle"
  BY IdleIsOp DEF ExportOpen
<1>7. ~exported
  BY <1>3, <1>6 DEF VaultDisk
<1>8. op[p] \in OpRec /\ op'[p] = [op[p] EXCEPT !.at = "export", !.key = k]
  BY <1>1, <1>3 DEF Types
<1>9. op'[p] \in OpRec /\ op'[p].at = "export" /\ op'[p].key = k
  BY <1>5, <1>8 DEF OpRec, Places
<1>10. op' \in [Procs -> OpRec] /\ \A q \in Procs : q # p => op'[q] = op[q]
  BY <1>1, <1>3, <1>9 DEF Types
<1>11. Types' /\ born' = born
  BY <1>1, <1>3, <1>4, <1>6, <1>10 DEF Types, ghosts, facts
<1>12. VaultDisk' /\ RootsOpen'
  BY <1>1, <1>3, <1>4, <1>6, <1>7 DEF VaultDisk, RootsOpen, ghosts, facts, NoWrap, Sound, Table
<1>13. ASSUME NEW q \in Procs PROVE VaultHandle(q)' /\ VaultOp(q)'
  <2>1. VaultHandle(q)'
    BY <1>3, <1>6, <1>9, <1>10 DEF VaultHandle, Rotating, Table, ghosts, facts
  <2>2. VaultOp(q)'
    BY <1>3, <1>5, <1>6, <1>9, <1>10 DEF VaultOp, Rotating, Replacing, ghosts, facts
  <2> QED
    BY <2>1, <2>2
<1>14. \A q, r \in Procs : op'[q].at \in Replacing /\ op'[r].at \in Replacing => q = r
  BY <1>3, <1>9, <1>10 DEF Replacing
<1> QED
  BY <1>2, <1>11, <1>12, <1>13, <1>14, StaysVault

LEMMA ExportFillKeeps ==
  ASSUME IndInv, NEW p \in Procs, ExportFill(p)
  PROVE  IndInv'
<1>1. op[p].at = "export" /\ ~Rotating(p)
  BY DEF ExportFill, At, Rotating
<1>2. born # None /\ born.key # 0
  BY <1>1, Phases
<1>3. /\ Types /\ VaultDisk /\ RootsOpen
      /\ \A q \in Procs : VaultHandle(q) /\ VaultOp(q)
      /\ \A q, r \in Procs : op[q].at \in Replacing /\ op[r].at \in Replacing => q = r
  BY <1>2, VaultParts
<1>4. /\ dest' = op[p].key /\ Done(p)
      /\ UNCHANGED <<config, vault, tmp, keyFile, wraps, keychain, durable, repo, fresh,
                     born, committed, told, authored, tampered, roots>>
  BY DEF ExportFill, WritePrivateNew
<1>5. dest' = born.key
  BY <1>1, <1>3, <1>4 DEF VaultOp
<1>6. op' \in [Procs -> OpRec] /\ op'[p].at = "idle" /\ \A q \in Procs : q # p => op'[q] = op[q]
  BY <1>3, <1>4, DoneMoves
<1>7. Types' /\ born' = born
  BY <1>3, <1>4, <1>6 DEF Types
<1>8. VaultDisk' /\ RootsOpen'
  BY <1>3, <1>4, <1>5 DEF VaultDisk, RootsOpen, NoWrap, Sound, Table
<1>9. ASSUME NEW q \in Procs PROVE VaultHandle(q)' /\ VaultOp(q)'
  <2>1. VaultHandle(q)'
    BY <1>1, <1>3, <1>4, <1>6 DEF VaultHandle, Rotating, Table
  <2>2. VaultOp(q)'
    BY <1>1, <1>3, <1>4, <1>6 DEF VaultOp, Rotating, Replacing
  <2> QED
    BY <2>1, <2>2
<1>10. \A q, r \in Procs : op'[q].at \in Replacing /\ op'[r].at \in Replacing => q = r
  BY <1>3, <1>6 DEF Replacing
<1> QED
  BY <1>2, <1>7, <1>8, <1>9, <1>10, StaysVault

-----------------------------------------------------------------------------
(* A namespace with wrap records. *)

LEMMA WrapParts ==
  ASSUME IndInv, born # None, born.key = 0
  PROVE  /\ Types /\ WrapDisk /\ RootsOpen /\ ToldStays
         /\ \A q \in Procs : WrapHandle(q) /\ WrapOp(q)
         /\ \A q, r \in Procs : op[q].at \in Wrapping /\ op[r].at \in Wrapping => q = r
  BY DEF IndInv, HasWraps

\* For a vault under a passphrase the parts about wraps are enough.
LEMMA StaysWrapped ==
  ASSUME born # None, born.key = 0, born' = born, Types', WrapDisk', RootsOpen', ToldStays',
         \A q \in Procs : WrapHandle(q)' /\ WrapOp(q)',
         \A q, r \in Procs : op'[q].at \in Wrapping /\ op'[r].at \in Wrapping => q = r
  PROVE  IndInv'
  BY DEF IndInv, Unborn, HasVault, HasWraps

\* A record that opens is there, is of the one DEK, and its anchor is the one
\* it was sealed with: whatever was altered is refused.
LEMMA OpenedIsGenuine ==
  ASSUME IndInv, \E s \in WrapSeqs : wraps[s] # None, NEW pw, UnwrapOpens(wraps[LatestWrapSeq], pw)
  PROVE  /\ born # None /\ born.key = 0
         /\ LatestWrapSeq \in WrapSeqs /\ \A s \in WrapSeqs : wraps[s] # None => s <= LatestWrapSeq
         /\ wraps[LatestWrapSeq] \in Wrap /\ wraps[LatestWrapSeq].seq = LatestWrapSeq
         /\ wraps[LatestWrapSeq].dek = born.seed
         /\ <<born.seed, wraps[LatestWrapSeq].anchor>> \in authored
<1> DEFINE L == LatestWrapSeq
<1>1. L \in WrapSeqs /\ \A s \in WrapSeqs : wraps[s] # None => s <= L
  BY LatestIsLast
<1> HIDE DEF L
<1>2. Whole(wraps[L]) /\ wraps[L].bound = Aad(wraps[L])
  BY DEF UnwrapOpens, L
<1>3. born # None /\ born.key = 0
  BY <1>1, <1>2 DEF IndInv, Unborn, UnbornDisk, HasVault, VaultDisk, NoWrap
<1>4. Genuine(wraps[L]) /\ wraps[L].seq = L
  BY <1>1, <1>2, <1>3 DEF IndInv, HasWraps, WrapDisk
<1>5. wraps[L].bound[3] = wraps[L].anchor
  BY <1>2 DEF Aad
<1> QED
  BY <1>1, <1>3, <1>4, <1>5 DEF Genuine, L

LEMMA OpenPassphraseKeeps ==
  ASSUME IndInv, NEW p \in Procs, OpenPassphrase(p)
  PROVE  IndInv'
<1> DEFINE w == wraps[LatestWrapSeq]
<1>1. PICK pw \in Pw : UnwrapOpens(w, pw) /\ repo' = [repo EXCEPT ![p] = FromDek(w.dek, w.anchor)]
  BY DEF OpenPassphrase
<1>2. /\ born # None /\ born.key = 0 /\ w \in Wrap /\ w.dek = born.seed
      /\ <<born.seed, w.anchor>> \in authored
  BY <1>1, OpenedIsGenuine DEF OpenPassphrase
<1>3. /\ Types /\ WrapDisk /\ RootsOpen /\ ToldStays
      /\ \A q \in Procs : WrapHandle(q) /\ WrapOp(q)
      /\ \A q, r \in Procs : op[q].at \in Wrapping /\ op[r].at \in Wrapping => q = r
  BY <1>2, WrapParts
<1>4. UNCHANGED <<disk, op, fresh, ghosts, roots>>
  BY DEF OpenPassphrase
<1> HIDE DEF w
<1> DEFINE h == FromDek(w.dek, w.anchor)
<1>5. h \in HandleRec /\ h.mode = "passphrase" /\ h.seed = born.seed /\ h.anchor = w.anchor
  <2>1. "passphrase" \in Modes /\ w.dek \in Nat /\ w.anchor \in Nat
    BY <1>2, <1>3, BoundsAreNat DEF WrapDisk, Config, Wrap
  <2> QED
    BY <2>1, <1>2 DEF FromDek, Handle, HandleRec, CurrentGeneration
<1>6. repo' = [repo EXCEPT ![p] = h]
  BY <1>1
<1> HIDE DEF h
<1>7. repo' \in [Procs -> HandleRec \cup {None}] /\ repo'[p] = h /\ \A q \in Procs : q # p => repo'[q] = repo[q]
  BY <1>3, <1>5, <1>6 DEF Types
<1>8. Types' /\ born' = born
  BY <1>3, <1>4, <1>7 DEF Types, disk, ghosts, facts
<1>9. WrapDisk' /\ RootsOpen' /\ ToldStays'
  BY <1>3, <1>4 DEF WrapDisk, RootsOpen, ToldStays, Genuine, disk, ghosts, facts
<1>10. ASSUME NEW q \in Procs PROVE WrapHandle(q)' /\ WrapOp(q)'
  BY <1>2, <1>3, <1>4, <1>5, <1>7 DEF WrapHandle, WrapOp, Genuine, ghosts, facts
<1> QED
  BY <1>2, <1>3, <1>4, <1>8, <1>9, <1>10, StaysWrapped

\* rewrap: the record on its way has the next number and no lower anchor.
LEMMA RewrapStartKeeps ==
  ASSUME IndInv, NEW p \in Procs, RewrapStart(p)
  PROVE  IndInv'
<1> DEFINE L == LatestWrapSeq
           w == wraps[L]
<1>1. PICK old \in Pw, new \in Pw, up \in {0, 1} :
        /\ UnwrapOpens(w, old) /\ w.anchor + up <= MaxAnchor /\ w.seq < MaxWrap
        /\ op' = [op EXCEPT ![p] = [@ EXCEPT !.at = "wrapopen", !.pw = new,
                                             !.wrap = Rewrap(w, new, w.anchor + up)]]
        /\ authored' = authored \cup {<<Rewrap(w, new, w.anchor + up).dek,
                                        Rewrap(w, new, w.anchor + up).anchor>>}
  BY DEF RewrapStart
<1>2. /\ born # None /\ born.key = 0 /\ w \in Wrap /\ w.dek = born.seed /\ w.seq = L
      /\ L \in WrapSeqs /\ \A s \in WrapSeqs : wraps[s] # None => s <= L
  BY <1>1, OpenedIsGenuine DEF RewrapStart
<1>3. /\ Types /\ WrapDisk /\ RootsOpen /\ ToldStays
      /\ \A q \in Procs : WrapHandle(q) /\ WrapOp(q)
  BY <1>2, WrapParts
<1>4. /\ fresh' = fresh + 1 /\ UNCHANGED <<disk, repo, born, committed, exported, told, tampered, roots>>
      /\ \A q \in Procs : op[q].at = "idle"
  BY IdleIsOp DEF RewrapStart
<1> HIDE DEF L, w
<1> DEFINE a == w.anchor + up
           next == Rewrap(w, new, a)
<1>5. /\ fresh \in Nat /\ fresh' \in Nat \ {0} /\ L \in Nat /\ L + 1 \in WrapSeqs
      /\ w.dek \in Nat /\ w.id \in Nat /\ w.anchor \in Nat
      /\ a \in 0..MaxAnchor /\ a >= w.anchor
  <2>1. fresh \in Nat /\ fresh' \in Nat \ {0}
    BY <1>3, <1>4 DEF Types
  <2>2. L \in Nat /\ L + 1 \in WrapSeqs
    BY <1>1, <1>2, BoundsAreNat DEF WrapSeqs
  <2>3. w.dek \in Nat /\ w.id \in Nat /\ w.anchor \in 0..MaxAnchor
    BY <1>2 DEF Wrap
  <2>4. up \in Nat /\ w.anchor + up <= MaxAnchor
    BY <1>1
  <2> QED
    BY <2>1, <2>2, <2>3, <2>4, BoundsAreNat
<1>6. next = [cost |-> MinCost, seq |-> L + 1, anchor |-> a, prev |-> w.id,
              pw |-> new, dek |-> w.dek, bound |-> <<MinCost, L + 1, a, w.id>>, id |-> fresh]
  BY <1>2, WrapCreated DEF Rewrap
<1> HIDE DEF a
<1>7. /\ next \in Wrap /\ next.seq = L + 1 /\ next.anchor = a /\ next.dek = born.seed
      /\ next.bound[3] = a
  <2>1. <<MinCost, L + 1, a, w.id>> \in Nat \X Nat \X Nat \X Nat /\ MinCost \in Costs
    BY <1>5, BoundsAreNat DEF MinCost, Costs
  <2> QED
    BY <2>1, <1>2, <1>5, <1>6 DEF Wrap
<1>8. /\ op' = [op EXCEPT ![p] = [@ EXCEPT !.at = "wrapopen", !.pw = new, !.wrap = next]]
      /\ authored' = authored \cup {<<born.seed, a>>}
  <2>1. authored' = authored \cup {<<next.dek, next.anchor>>}
    BY <1>1 DEF a
  <2> QED
    BY <2>1, <1>1, <1>7 DEF a
<1> HIDE DEF next
<1>9. op[p] \in OpRec /\ op'[p] = [op[p] EXCEPT !.at = "wrapopen", !.pw = new, !.wrap = next]
  BY <1>3, <1>8 DEF Types
<1>10. op'[p] \in OpRec /\ op'[p].at = "wrapopen" /\ op'[p].wrap = next
  BY <1>7, <1>9 DEF OpRec, Places, Wrapping
<1>11. op' \in [Procs -> OpRec] /\ \A q \in Procs : q # p => op'[q] = op[q]
  BY <1>3, <1>8, <1>10 DEF Types
<1>12. Types' /\ born' = born
  BY <1>3, <1>4, <1>5, <1>11 DEF Types, disk
<1>13. WrapDisk' /\ RootsOpen'
  BY <1>3, <1>4, <1>8 DEF WrapDisk, RootsOpen, Genuine, disk
<1>14. ToldStays'
  <2> SUFFICES ASSUME ~tampered PROVE ToldStays'
    BY <1>4 DEF ToldStays
  <2>1. /\ told.seq \in WrapSeqs /\ wraps[told.seq] = told /\ told # None /\ told \in Wrap
        /\ \A s \in WrapSeqs : s >= told.seq /\ Whole(wraps[s]) => wraps[s].anchor >= told.anchor
    BY <1>3, ContentsAreWhole DEF ToldStays, WrapDisk, Wrap
  <2>2. told.seq <= L /\ told.seq \in Nat /\ told.anchor \in Nat
    BY <2>1, <1>2, BoundsAreNat DEF WrapSeqs, Wrap
  <2>3. w.anchor >= told.anchor
    <3>1. Whole(w)
      BY <1>2, ContentsAreWhole DEF Whole
    <3> QED
      BY <3>1, <2>1, <2>2, <1>2, <1>5 DEF w
  <2>4. next.seq > told.seq /\ next.anchor >= told.anchor
    BY <2>2, <2>3, <1>5, <1>7 DEF a
  <2>5. \A s \in WrapSeqs : s > next.seq => wraps[s] = None
    BY <1>2, <1>5, <1>7, BoundsAreNat DEF WrapSeqs
  <2>6. wraps' = wraps /\ told' = told
    BY <1>4 DEF disk
  <2>7. \A q \in Procs : op'[q].at \in Wrapping => q = p
    BY <1>4, <1>11 DEF Wrapping
  <2> QED
    BY <2>1, <2>4, <2>5, <2>6, <2>7, <1>10 DEF ToldStays
<1>15. ASSUME NEW q \in Procs PROVE WrapHandle(q)' /\ WrapOp(q)'
  <2>1. WrapHandle(q)'
    BY <1>3, <1>4, <1>8 DEF WrapHandle
  <2>2. WrapOp(q)'
    BY <1>4, <1>7, <1>8, <1>10, <1>11 DEF WrapOp, Genuine, Wrapping
  <2> QED
    BY <2>1, <2>2
<1>16. \A q, r \in Procs : op'[q].at \in Wrapping /\ op'[r].at \in Wrapping => q = r
  BY <1>4, <1>11 DEF Wrapping
<1> QED
  BY <1>2, <1>12, <1>13, <1>14, <1>15, <1>16, StaysWrapped

\* publish_wrap up to the new record's last byte: it is the only path touched.
LEMMA PublishWrapKeeps ==
  ASSUME IndInv, NEW p \in Procs, PublishWrapOpen(p) \/ PublishWrapFill(p)
  PROVE  IndInv'
<1> DEFINE w == op[p].wrap
           n == w.seq
           f == IF op[p].at = "wrapopen" THEN Torn ELSE w
           x == IF op[p].at = "wrapopen" THEN "wrapfill" ELSE "wrapclean"
<1>1. op[p].at \in {"wrapopen", "wrapfill"} /\ op[p].at \in Wrapping
  BY DEF PublishWrapOpen, PublishWrapFill, At, Wrapping
<1>2. /\ wraps' = [wraps EXCEPT ![n] = f] /\ Goto(p, x)
      /\ UNCHANGED <<config, vault, tmp, keyFile, dest, keychain, durable, repo, fresh, ghosts, roots>>
  BY DEF PublishWrapOpen, PublishWrapFill, At, OpenWrapFile
<1>3. born # None /\ born.key = 0
  BY <1>1, Phases
<1>4. /\ Types /\ WrapDisk /\ RootsOpen /\ ToldStays
      /\ \A q \in Procs : WrapHandle(q) /\ WrapOp(q)
      /\ \A q, r \in Procs : op[q].at \in Wrapping /\ op[r].at \in Wrapping => q = r
  BY <1>3, WrapParts
<1>5. Genuine(w) /\ w \in Wrap /\ n \in WrapSeqs
  BY <1>1, <1>4 DEF WrapOp, Genuine, Wrap
<1>6. /\ op' \in [Procs -> OpRec] /\ op'[p].at = x /\ x \in Wrapping /\ op'[p].wrap = w
      /\ \A q \in Procs : q # p => op'[q] = op[q]
  BY <1>2, <1>4, GotoMoves DEF Places, Wrapping
<1>7. \A q \in Procs : q # p => op[q].at \notin Wrapping
  BY <1>1, <1>4
<1>8. f \in {Torn, w} /\ (x = "wrapclean" => f = w)
  OBVIOUS
<1> HIDE DEF f, x, w
<1>9. /\ wraps' \in [WrapSeqs -> Wrap \cup {None, Torn}] /\ wraps'[n] = f
      /\ \A s \in WrapSeqs : s # n => wraps'[s] = wraps[s]
  BY <1>2, <1>4, <1>5, <1>8 DEF Types
<1>10. Types' /\ born' = born
  BY <1>2, <1>4, <1>6, <1>9 DEF Types, ghosts, facts
<1>11. WrapDisk' /\ RootsOpen'
  <2>1. \A s \in WrapSeqs : Whole(wraps'[s]) => Genuine(wraps'[s]) /\ wraps'[s].seq = s
    BY <1>4, <1>5, <1>8, <1>9 DEF WrapDisk, Whole
  <2>2. \A s \in WrapSeqs : Whole(wraps'[s]) => Genuine(wraps[s])' /\ wraps'[s].seq = s
    BY <2>1, <1>2 DEF Genuine, ghosts, facts
  <2> QED
    BY <2>2, <1>2, <1>4 DEF WrapDisk, RootsOpen, ghosts, facts
<1>12. ToldStays'
  <2> SUFFICES ASSUME ~tampered PROVE ToldStays'
    BY <1>2 DEF ToldStays, ghosts, facts
  <2>1. /\ told.seq \in WrapSeqs /\ wraps[told.seq] = told
        /\ \A s \in WrapSeqs : s >= told.seq /\ Whole(wraps[s]) => wraps[s].anchor >= told.anchor
        /\ n > told.seq /\ w.anchor >= told.anchor
        /\ \A s \in WrapSeqs : s > n => wraps[s] = None
    BY <1>1, <1>4 DEF ToldStays, WrapDisk, Wrap, w
  <2>2. told.seq \in Nat /\ n \in Nat /\ WrapSeqs \subseteq Nat
    BY <2>1, <1>5, BoundsAreNat DEF WrapSeqs
  <2>3. wraps'[told.seq] = told
    BY <2>1, <2>2, <1>9
  <2>4. \A s \in WrapSeqs : s >= told.seq /\ Whole(wraps'[s]) => wraps'[s].anchor >= told.anchor
    BY <2>1, <1>8, <1>9 DEF Whole
  <2>5. \A s \in WrapSeqs : s > n => wraps'[s] = None
    BY <2>1, <2>2, <1>9
  <2>6. \A q \in Procs : op'[q].at \in Wrapping => q = p
    BY <1>6, <1>7
  <2>7. told' = told
    BY <1>2 DEF ghosts, facts
  <2> QED
    BY <2>1, <2>3, <2>4, <2>5, <2>6, <2>7, <1>6, <1>8, <1>9 DEF ToldStays
<1>13. ASSUME NEW q \in Procs PROVE WrapHandle(q)' /\ WrapOp(q)'
  <2>1. WrapHandle(q)'
    BY <1>2, <1>4 DEF WrapHandle, ghosts, facts
  <2>2. WrapOp(q)'
    BY <1>2, <1>4, <1>5, <1>6, <1>7 DEF WrapOp, Genuine, ghosts, facts
  <2> QED
    BY <2>1, <2>2
<1>14. \A q, r \in Procs : op'[q].at \in Wrapping /\ op'[r].at \in Wrapping => q = r
  BY <1>6, <1>7
<1> QED
  BY <1>3, <1>10, <1>11, <1>12, <1>13, <1>14, StaysWrapped

\* Only records below the new one go, and only now is the new one told.
LEMMA PublishWrapCleanKeeps ==
  ASSUME IndInv, NEW p \in Procs, PublishWrapClean(p)
  PROVE  IndInv'
<1> DEFINE w == op[p].wrap
           n == w.seq
<1>1. op[p].at = "wrapclean" /\ op[p].at \in Wrapping
  BY DEF PublishWrapClean, At, Wrapping
<1>2. PICK kept : wraps' = [s \in WrapSeqs |-> IF s < n /\ s \notin kept THEN None ELSE wraps[s]]
  BY DEF PublishWrapClean
<1>3. /\ told' = w /\ Done(p)
      /\ UNCHANGED <<config, vault, tmp, keyFile, dest, keychain, durable, repo, fresh,
                     born, committed, exported, authored, tampered, roots>>
  BY DEF PublishWrapClean
<1>4. born # None /\ born.key = 0
  BY <1>1, Phases
<1>5. /\ Types /\ WrapDisk /\ RootsOpen /\ ToldStays
      /\ \A q \in Procs : WrapHandle(q) /\ WrapOp(q)
      /\ \A q, r \in Procs : op[q].at \in Wrapping /\ op[r].at \in Wrapping => q = r
  BY <1>4, WrapParts
<1>6. w \in Wrap /\ n \in WrapSeqs /\ n \in Nat /\ WrapSeqs \subseteq Nat
  <2>1. w \in Wrap /\ n \in WrapSeqs
    BY <1>1, <1>5 DEF WrapOp, Genuine, Wrap
  <2>2. WrapSeqs \subseteq Nat
    BY BoundsAreNat DEF WrapSeqs
  <2> QED
    BY <2>1, <2>2
<1>7. op' \in [Procs -> OpRec] /\ op'[p].at = "idle" /\ \A q \in Procs : q # p => op'[q] = op[q]
  BY <1>3, <1>5, DoneMoves
<1>8. \A q \in Procs : op'[q].at \notin Wrapping
  BY <1>1, <1>5, <1>7 DEF Wrapping
<1>9. \A s \in WrapSeqs : wraps'[s] = wraps[s] \/ (wraps'[s] = None /\ s < n)
  BY <1>2
<1>10. wraps' \in [WrapSeqs -> Wrap \cup {None, Torn}]
  BY <1>2, <1>5 DEF Types
<1>11. Types' /\ born' = born
  BY <1>3, <1>5, <1>7, <1>10 DEF Types
<1>12. WrapDisk' /\ RootsOpen'
  <2>1. \A s \in WrapSeqs : Whole(wraps'[s]) => Genuine(wraps[s])' /\ wraps'[s].seq = s
    BY <1>3, <1>5, <1>9 DEF WrapDisk, Genuine, Whole
  <2> QED
    BY <2>1, <1>3, <1>5, <1>6 DEF WrapDisk, RootsOpen
<1>13. ToldStays'
  <2> SUFFICES ASSUME ~tampered PROVE ToldStays'
    BY <1>3 DEF ToldStays
  <2>1. wraps[n] = w /\ \A s \in WrapSeqs : s > n => wraps[s] = None
    BY <1>1, <1>5 DEF ToldStays
  <2>2. wraps'[n] = w
    BY <2>1, <1>6, <1>9
  <2>3. \A s \in WrapSeqs : s >= n /\ Whole(wraps'[s]) => s = n
    BY <2>1, <1>6, <1>9 DEF Whole
  <2>4. \A s \in WrapSeqs : s >= n /\ Whole(wraps'[s]) => wraps'[s].anchor >= w.anchor
    BY <2>2, <2>3, <1>6, BoundsAreNat DEF Wrap
  <2> QED
    BY <2>2, <2>4, <1>3, <1>8 DEF ToldStays
<1>14. ASSUME NEW q \in Procs PROVE WrapHandle(q)' /\ WrapOp(q)'
  BY <1>3, <1>5, <1>7, <1>8 DEF WrapHandle, WrapOp, Wrapping
<1> QED
  BY <1>4, <1>8, <1>11, <1>12, <1>13, <1>14, StaysWrapped

LEMMA TamperKeeps ==
  ASSUME IndInv, Tamper
  PROVE  IndInv'
<1>1. PICK s \in WrapSeqs, to \in WrapSeqs, cost \in Costs, anchor \in 0..MaxAnchor :
        /\ Whole(wraps[s])
        /\ wraps' = [wraps EXCEPT ![s] = None,
                       ![to] = [wraps[s] EXCEPT !.cost = cost, !.anchor = anchor, !.seq = to]]
  BY DEF Tamper
<1>2. /\ tampered' = TRUE
      /\ UNCHANGED <<config, vault, tmp, keyFile, dest, keychain, durable, repo, op, fresh,
                     born, committed, exported, told, authored, roots>>
  BY DEF Tamper
<1>3. born # None /\ born.key = 0
  BY <1>1 DEF IndInv, Unborn, UnbornDisk, HasVault, VaultDisk, NoWrap
<1>4. /\ Types /\ WrapDisk /\ RootsOpen
      /\ \A q \in Procs : WrapHandle(q) /\ WrapOp(q)
      /\ \A q, r \in Procs : op[q].at \in Wrapping /\ op[r].at \in Wrapping => q = r
  BY <1>3, WrapParts
<1> DEFINE w == [wraps[s] EXCEPT !.cost = cost, !.anchor = anchor, !.seq = to]
<1>5. wraps[s] \in Wrap /\ Genuine(wraps[s])
  BY <1>1, <1>4 DEF WrapDisk, Genuine
<1>6. w \in Wrap /\ w.dek = wraps[s].dek /\ w.bound = wraps[s].bound /\ w.seq = to
  BY <1>5 DEF Wrap
<1>7. wraps' = [wraps EXCEPT ![s] = None, ![to] = w]
  BY <1>1
<1> HIDE DEF w
<1>8. /\ wraps' \in [WrapSeqs -> Wrap \cup {None, Torn}]
      /\ \A t \in WrapSeqs : wraps'[t] \in {wraps[t], None} \/ (t = to /\ wraps'[t] = w)
  BY <1>4, <1>6, <1>7 DEF Types
<1>9. Types' /\ born' = born
  BY <1>2, <1>4, <1>8 DEF Types
<1>10. WrapDisk' /\ RootsOpen' /\ ToldStays'
  <2>1. \A t \in WrapSeqs : Whole(wraps'[t]) => Genuine(wraps[t])' /\ wraps'[t].seq = t
    BY <1>2, <1>4, <1>5, <1>6, <1>8 DEF WrapDisk, Genuine, Whole
  <2> QED
    BY <2>1, <1>2, <1>4 DEF WrapDisk, RootsOpen, ToldStays
<1>11. ASSUME NEW q \in Procs PROVE WrapHandle(q)' /\ WrapOp(q)'
  BY <1>2, <1>4 DEF WrapHandle, WrapOp, Genuine
<1> QED
  BY <1>2, <1>3, <1>4, <1>9, <1>10, <1>11, StaysWrapped

-----------------------------------------------------------------------------
(* Steps every namespace can take. *)

LEMMA RemoveKeyFileKeeps ==
  ASSUME IndInv, RemoveKeyFile
  PROVE  IndInv'
<1>1. /\ Whole(keyFile) /\ keychain = keyFile /\ keyFile' = None
      /\ UNCHANGED <<config, vault, tmp, wraps, dest, keychain, durable, repo, op, fresh, ghosts, roots>>
  BY DEF RemoveKeyFile
<1>2. Types' /\ born' = born /\ born # None
  BY <1>1 DEF IndInv, Types, Unborn, UnbornDisk, ghosts, facts
<1>3. CASE born.key # 0
  <2>1. /\ VaultDisk /\ RootsOpen /\ \A q \in Procs : VaultHandle(q) /\ VaultOp(q)
        /\ \A q, r \in Procs : op[q].at \in Replacing /\ op[r].at \in Replacing => q = r
    BY <1>2, <1>3, VaultParts
  <2>2. VaultDisk' /\ RootsOpen'
    BY <2>1, <1>1 DEF VaultDisk, RootsOpen, NoWrap, Sound, Table, ghosts, facts, Whole
  <2>3. \A q \in Procs : VaultHandle(q)' /\ VaultOp(q)'
    BY <2>1, <1>1 DEF VaultHandle, VaultOp, Rotating, Table, ghosts, facts
  <2> QED
    BY <2>1, <2>2, <2>3, <1>1, <1>2, <1>3, StaysVault
<1>4. CASE born.key = 0
  <2>1. /\ WrapDisk /\ RootsOpen /\ ToldStays /\ \A q \in Procs : WrapHandle(q) /\ WrapOp(q)
        /\ \A q, r \in Procs : op[q].at \in Wrapping /\ op[r].at \in Wrapping => q = r
    BY <1>2, <1>4, WrapParts
  <2>2. WrapDisk' /\ RootsOpen' /\ ToldStays'
    BY <2>1, <1>1 DEF WrapDisk, RootsOpen, ToldStays, Genuine, ghosts, facts
  <2>3. \A q \in Procs : WrapHandle(q)' /\ WrapOp(q)'
    BY <2>1, <1>1 DEF WrapHandle, WrapOp, Genuine, ghosts, facts
  <2> QED
    BY <2>1, <2>2, <2>3, <1>1, <1>2, <1>4, StaysWrapped
<1> QED
  BY <1>3, <1>4

LEMMA PublishRootKeeps ==
  ASSUME IndInv, NEW p \in Procs, PublishRoot(p)
  PROVE  IndInv'
<1> DEFINE r == SealRoot(repo[p], Cardinality(roots) + 1)
<1>1. roots' = roots \cup {r} /\ repo[p] # None /\ UNCHANGED <<disk, repo, op, fresh, ghosts>>
  BY DEF PublishRoot
<1>2. repo[p].mode = "transit-only" \/ r.key = <<repo[p].seed, r.seq>>
  BY DEF SealRoot, RootKey
<1> HIDE DEF r
<1>3. Types' /\ born' = born /\ born # None
  BY <1>1, Phases DEF IndInv, Types, disk, ghosts, facts
<1>4. CASE born.key # 0
  <2>1. /\ VaultDisk /\ RootsOpen /\ \A q \in Procs : VaultHandle(q) /\ VaultOp(q)
        /\ \A q, t \in Procs : op[q].at \in Replacing /\ op[t].at \in Replacing => q = t
    BY <1>3, <1>4, VaultParts
  <2>2. repo[p].mode = config.mode /\ repo[p].seed = born.seed
    BY <2>1, <1>1 DEF VaultHandle
  <2>3. VaultDisk' /\ RootsOpen'
    BY <2>1, <2>2, <1>1, <1>2 DEF VaultDisk, RootsOpen, NoWrap, Sound, Table, disk, ghosts, facts
  <2>4. \A q \in Procs : VaultHandle(q)' /\ VaultOp(q)'
    BY <2>1, <1>1 DEF VaultHandle, VaultOp, Rotating, Table, disk, ghosts, facts
  <2> QED
    BY <2>1, <2>3, <2>4, <1>1, <1>3, <1>4, StaysVault
<1>5. CASE born.key = 0
  <2>1. /\ WrapDisk /\ RootsOpen /\ ToldStays /\ \A q \in Procs : WrapHandle(q) /\ WrapOp(q)
        /\ \A q, t \in Procs : op[q].at \in Wrapping /\ op[t].at \in Wrapping => q = t
    BY <1>3, <1>5, WrapParts
  <2>2. repo[p].mode = "passphrase" /\ repo[p].seed = born.seed
    BY <2>1, <1>1 DEF WrapHandle
  <2>3. WrapDisk' /\ RootsOpen' /\ ToldStays'
    BY <2>1, <2>2, <1>1, <1>2 DEF WrapDisk, RootsOpen, ToldStays, Genuine, disk, ghosts, facts
  <2>4. \A q \in Procs : WrapHandle(q)' /\ WrapOp(q)'
    BY <2>1, <1>1 DEF WrapHandle, WrapOp, Genuine, disk, ghosts, facts
  <2> QED
    BY <2>1, <2>3, <2>4, <1>1, <1>3, <1>5, StaysWrapped
<1> QED
  BY <1>4, <1>5

\* A process is killed anywhere: its handle goes, and the files stay.
LEMMA ExitKeeps ==
  ASSUME IndInv, NEW p \in Procs, Exit(p)
  PROVE  IndInv'
<1>1. repo' = [repo EXCEPT ![p] = None] /\ Done(p) /\ UNCHANGED <<disk, fresh, ghosts, roots>>
  BY DEF Exit
<1>2. op' \in [Procs -> OpRec] /\ op'[p].at = "idle" /\ \A q \in Procs : q # p => op'[q] = op[q]
  BY <1>1, DoneMoves DEF IndInv
<1>3. /\ repo' \in [Procs -> HandleRec \cup {None}] /\ repo'[p] = None
      /\ \A q \in Procs : q # p => repo'[q] = repo[q]
  BY <1>1 DEF IndInv, Types
<1>4. Types' /\ born' = born
  BY <1>1, <1>2, <1>3 DEF IndInv, Types, disk, ghosts, facts
<1>5. CASE born = None
  <2>1. UnbornDisk' /\ UnbornRest'
    BY <1>1, <1>3, <1>5 DEF IndInv, Unborn, UnbornDisk, UnbornRest, NoWrap, disk, ghosts, facts
  <2>2. \A q \in Procs : CreatesAt(q)'
    <3>1. CreatesAt(p)'
      BY <1>2, VaultAssumption DEF CreatesAt, Creating
    <3>2. \A q \in Procs : q # p => CreatesAt(q)'
      BY <1>1, <1>2, <1>5 DEF IndInv, Unborn, CreatesAt, disk
    <3> QED
      BY <3>1, <3>2
  <2>3. \A q, r \in Procs : op'[q].at \in Creating /\ op'[r].at \in Creating => q = r
    BY <1>2, <1>5 DEF IndInv, Unborn, Creating
  <2> QED
    BY <2>1, <2>2, <2>3, <1>4, <1>5 DEF IndInv, Unborn, HasVault, HasWraps
<1>6. CASE born # None /\ born.key # 0
  <2>1. /\ VaultDisk /\ RootsOpen /\ \A q \in Procs : VaultHandle(q) /\ VaultOp(q)
        /\ \A q, r \in Procs : op[q].at \in Replacing /\ op[r].at \in Replacing => q = r
    BY <1>6, VaultParts
  <2>2. VaultDisk' /\ RootsOpen'
    BY <2>1, <1>1 DEF VaultDisk, RootsOpen, NoWrap, Sound, Table, disk, ghosts, facts
  <2>3. ASSUME NEW q \in Procs PROVE VaultHandle(q)' /\ VaultOp(q)'
    <3>1. VaultHandle(q)'
      BY <2>1, <1>1, <1>2, <1>3 DEF VaultHandle, Rotating, Table, disk, ghosts, facts
    <3>2. VaultOp(q)'
      BY <2>1, <1>1, <1>2, <1>3 DEF VaultOp, Rotating, Replacing, disk, ghosts, facts
    <3> QED
      BY <3>1, <3>2
  <2>4. \A q, r \in Procs : op'[q].at \in Replacing /\ op'[r].at \in Replacing => q = r
    BY <2>1, <1>2 DEF Replacing
  <2> QED
    BY <2>2, <2>3, <2>4, <1>4, <1>6, StaysVault
<1>7. CASE born # None /\ born.key = 0
  <2>1. /\ WrapDisk /\ RootsOpen /\ ToldStays /\ \A q \in Procs : WrapHandle(q) /\ WrapOp(q)
        /\ \A q, r \in Procs : op[q].at \in Wrapping /\ op[r].at \in Wrapping => q = r
    BY <1>7, WrapParts
  <2>2. WrapDisk' /\ RootsOpen'
    BY <2>1, <1>1 DEF WrapDisk, RootsOpen, Genuine, disk, ghosts, facts
  <2>3. ToldStays'
    <3>1. wraps' = wraps /\ told' = told /\ tampered' = tampered
      BY <1>1 DEF disk, ghosts, facts
    <3>2. \A q \in Procs : op'[q].at \in Wrapping => op'[q] = op[q]
      BY <1>2 DEF Wrapping
    <3> QED
      BY <3>1, <3>2, <2>1 DEF ToldStays
  <2>4. ASSUME NEW q \in Procs PROVE WrapHandle(q)' /\ WrapOp(q)'
    BY <2>1, <1>1, <1>2, <1>3 DEF WrapHandle, WrapOp, Genuine, Wrapping, ghosts, facts
  <2>5. \A q, r \in Procs : op'[q].at \in Wrapping /\ op'[r].at \in Wrapping => q = r
    BY <2>1, <1>2 DEF Wrapping
  <2> QED
    BY <2>2, <2>3, <2>4, <2>5, <1>4, <1>7, StaysWrapped
<1> QED
  BY <1>5, <1>6, <1>7

\* A power cut brings back a content of vault.bin that a rename superseded;
\* only a rotation leaves more than one, and the same key opens them all.
LEMMA PowerCutKeeps ==
  ASSUME IndInv, PowerCut
  PROVE  IndInv'
<1>1. /\ Cardinality(durable) > 1 \/ tmp # None
      /\ vault' \in durable /\ durable' = {vault'} /\ tmp' \in {tmp, None}
      /\ repo' = [p \in Procs |-> None] /\ op' = [p \in Procs |-> Idle]
      /\ UNCHANGED <<config, keyFile, wraps, dest, keychain, fresh, ghosts, roots>>
  BY DEF PowerCut
<1>2. born # None /\ born.key # 0
  <2>1. ASSUME NEW d, durable = {d}, tmp = None PROVE FALSE
    <3>1. Cardinality(durable) = 1
      BY <2>1, FS_Singleton
    <3> QED
      BY <3>1, <2>1, <1>1
  <2> QED
    BY <2>1 DEF IndInv, Unborn, UnbornDisk, HasWraps, WrapDisk
<1>3. /\ Types /\ VaultDisk /\ RootsOpen
  BY <1>2, VaultParts
<1>4. \A q \in Procs : op'[q].at = "idle" /\ repo'[q] = None
  BY <1>1, IdleIsOp
<1>5. Types' /\ born' = born
  <2>1. op' \in [Procs -> OpRec] /\ repo' \in [Procs -> HandleRec \cup {None}]
    BY <1>1, IdleIsOp
  <2>2. vault' \in Sealed
    BY <1>1, <1>3 DEF VaultDisk, Sound
  <2> QED
    BY <2>1, <2>2, <1>1, <1>3 DEF Types, ghosts, facts
<1>6. VaultDisk' /\ RootsOpen'
  BY <1>1, <1>3 DEF VaultDisk, RootsOpen, NoWrap, Sound, Table, ghosts, facts
<1>7. ASSUME NEW q \in Procs PROVE VaultHandle(q)' /\ VaultOp(q)'
  BY <1>4 DEF VaultHandle, VaultOp, Rotating, Replacing
<1>8. \A q, r \in Procs : op'[q].at \in Replacing /\ op'[r].at \in Replacing => q = r
  BY <1>4 DEF Replacing
<1> QED
  BY <1>2, <1>5, <1>6, <1>7, <1>8, StaysVault

\* Every step keeps the invariant.
LEMMA StepKeeps == IndInv /\ [Next]_vars => IndInv'
<1> SUFFICES ASSUME IndInv, [Next]_vars PROVE IndInv'
  OBVIOUS
<1>1. CASE Next
  BY <1>1, CreateConfigKeeps, CreateConfigFillKeeps, CreateVaultOpenKeeps, CreateVaultFillKeeps,
     CreateStoreKeyKeeps, CreateFillKeyKeeps, CreateWrapOpenKeeps, CreateWrapFillKeeps,
     OpenVaultKeeps, OpenPassphraseKeeps, RotateStartKeeps, RotateOpenTmpKeeps, RotateFillKeeps,
     RotateRenameKeeps, RotateSyncDirKeeps, ExportOpenKeeps, ExportFillKeeps, RewrapStartKeeps,
     PublishWrapKeeps, PublishWrapCleanKeeps, PublishRootKeeps, ExitKeeps, RemoveKeyFileKeeps,
     TamperKeeps, PowerCutKeeps DEF Next
<1>2. CASE UNCHANGED vars
  <2>1. Types' /\ born' = born
    BY <1>2 DEF vars, disk, ghosts, facts, IndInv, Types
  <2>2. Unborn'
    BY <1>2 DEF vars, disk, ghosts, facts, IndInv, Unborn, UnbornDisk, UnbornRest, NoWrap, CreatesAt
  <2>3. HasVault'
    BY <1>2 DEF vars, disk, ghosts, facts, IndInv, HasVault, VaultDisk, RootsOpen, VaultHandle, VaultOp,
       Rotating, NoWrap, Sound, Table
  <2>4. HasWraps'
    BY <1>2 DEF vars, disk, ghosts, facts, IndInv, HasWraps, WrapDisk, RootsOpen, ToldStays, WrapHandle,
       WrapOp, Genuine
  <2> QED
    BY <2>1, <2>2, <2>3, <2>4 DEF IndInv
<1> QED
  BY <1>1, <1>2

\* So it always holds.
LEMMA Inductive == Spec => []IndInv
<1>1. Init => IndInv
  BY InitHolds
<1>2. IndInv /\ [Next]_vars => IndInv'
  BY StepKeeps
<1> QED
  BY <1>1, <1>2, PTL DEF Spec

-----------------------------------------------------------------------------
(* The tables of open handles, and the one on disk. *)

\* The table a handle goes back to when the rotation it is in fails.
Mine(p) == IF Rotating(p) THEN op[p].prior ELSE repo[p].gens

\* A table that begins with another one.
Begins(s, t) == \A i \in DOMAIN s : i \in DOMAIN t /\ t[i] = s[i]

\* vault.bin has that table unless the handle was overtaken, and a rotation
\* under way appends to it.
Follows(p) ==
  /\ (repo[p] # None \/ Rotating(p)) /\ repo[p].mode # "passphrase" /\ p \notin overtaken
        => Holds(vault, Mine(p))
  /\ Rotating(p) => Begins(op[p].prior, repo[p].gens)

DiskFollows == \A p \in Procs : Follows(p)

\* Nothing a handle follows has changed.
LEMMA FollowsOn ==
  ASSUME NEW q \in Procs, Follows(q), vault' = vault, q \notin overtaken' => q \notin overtaken,
         repo'[q] = repo[q], op'[q].at = op[q].at, op'[q].prior = op[q].prior
  PROVE  Follows(q)'
  BY DEF Follows, Mine, Rotating, Holds, Whole, Begins

\* A command that is no rotation moves on.
LEMMA FollowsMoved ==
  ASSUME NEW q \in Procs, Follows(q), vault' = vault, q \notin overtaken' => q \notin overtaken,
         repo'[q] = repo[q], ~Rotating(q), ~Rotating(q)'
  PROVE  Follows(q)'
  BY DEF Follows, Mine, Holds, Whole

\* A handle that is opened, or closed.
LEMMA FollowsOpened ==
  ASSUME NEW q \in Procs, ~Rotating(q)',
         \/ repo'[q] = None
         \/ repo'[q].mode = "passphrase"
         \/ Whole(vault)' /\ repo'[q].gens = vault'.gens
  PROVE  Follows(q)'
  BY DEF Follows, Mine, Holds, Begins

\* A rotation that fails goes back.
LEMMA FollowsBack ==
  ASSUME NEW q \in Procs, Follows(q), vault' = vault, overtaken' = overtaken, Rotating(q), ~Rotating(q)',
         repo'[q].gens = op[q].prior, repo'[q].mode = repo[q].mode
  PROVE  Follows(q)'
  BY DEF Follows, Mine, Holds, Whole

\* The steps of creation: no handle is open before the last of them.
LEMMA CreationFollows ==
  ASSUME IndInv, IndInv', NEW p \in Procs,
         \/ CreateConfig(p) \/ CreateConfigFill(p) \/ CreateVaultOpen(p) \/ CreateVaultFill(p)
         \/ CreateStoreKey(p) \/ CreateFillKey(p) \/ CreateWrapOpen(p) \/ CreateWrapFill(p)
  PROVE  DiskFollows'
<1>0. repo \in [Procs -> HandleRec \cup {None}] /\ Types
  BY DEF IndInv, Types
<1>1. CASE born' = None
  <2>1. ASSUME NEW q \in Procs PROVE repo'[q] = None /\ ~Rotating(q)'
    BY <1>1 DEF IndInv, Unborn, UnbornRest, CreatesAt, Creating, Rotating
  <2> QED
    BY <2>1, FollowsOpened DEF DiskFollows
<1>2. CASE CreateConfig(p)
  <2>1. ASSUME NEW q \in Procs PROVE repo'[q] = None
    BY <1>2 DEF CreateConfig
  <2>2. born' = None
    BY <2>1, <1>2, VaultAssumption
       DEF IndInv, HasVault, HasWraps, VaultDisk, WrapDisk, CreateConfig
  <2> QED
    BY <2>2, <1>1
<1>3. CASE born' # None /\ ~CreateConfig(p)
  <2>1. op[p].at \in Creating
    BY <1>3, VaultAssumption
       DEF CreateConfigFill, CreateVaultOpen, CreateVaultFill, CreateStoreKey, CreateFillKey,
           CreateWrapOpen, CreateWrapFill, At, Creating
  <2>2. /\ born = None /\ CreatesAt(p) /\ \A q \in Procs : repo[q] = None
        /\ \A q \in Procs : q # p => op[q].at = "idle"
    BY <2>1, OthersWait DEF UnbornRest
  <2>3. \/ (CreateStoreKey(p) \/ CreateFillKey(p)) /\ CreateAck(p, op[p].key)
        \/ CreateWrapFill(p)
    BY <1>3, <2>2
       DEF CreateConfigFill, CreateVaultOpen, CreateVaultFill, CreateStoreKey, CreateFillKey,
           CreateWrapOpen, ghosts, facts
  <2>4. Done(p)
    BY <2>3 DEF CreateAck, CreateWrapFill
  <2>5. \A q \in Procs : op'[q].at = "idle"
    BY <2>2, <2>4, <1>0, DoneMoves
  <2>6. ASSUME NEW q \in Procs, q # p PROVE repo'[q] = None
    BY <2>2, <2>3, <2>6, <1>0 DEF CreateAck, CreateWrapFill
  <2>7. CASE CreateWrapFill(p)
    <3>1. repo'[p] = FromDek(fresh, 0)
      BY <2>7, <1>0 DEF CreateWrapFill
    <3>2. repo'[p].mode = "passphrase"
      BY <3>1 DEF FromDek, Handle
    <3> QED
      BY <3>2, <2>5, <2>6, FollowsOpened DEF DiskFollows, Rotating
  <2>8. CASE (CreateStoreKey(p) \/ CreateFillKey(p)) /\ CreateAck(p, op[p].key)
    <3>1. repo'[p] = Handle(config.mode, vault.seed, vault.gens, 0) /\ vault' = vault
      BY <2>8, <1>0 DEF CreateAck, CreateStoreKey, CreateFillKey
    <3>2. vault \in Sealed
      BY <2>2, <2>8 DEF CreatesAt, CreateStoreKey, CreateFillKey, At
    <3>3. Whole(vault)' /\ repo'[p].gens = vault'.gens
      BY <3>1, <3>2, ContentsAreWhole DEF Whole, Handle
    <3> QED
      BY <3>3, <2>5, <2>6, FollowsOpened DEF DiskFollows, Rotating
  <2> QED
    BY <2>3, <2>7, <2>8
<1> QED
  BY <1>1, <1>2, <1>3

\* Opening: the handle has the table on disk.
LEMMA OpeningFollows ==
  ASSUME IndInv, DiskFollows, NEW p \in Procs, OpenVault(p) \/ OpenPassphrase(p)
  PROVE  DiskFollows'
<1>0. Types /\ repo \in [Procs -> HandleRec \cup {None}]
  BY DEF IndInv, Types
<1>1. op' = op /\ op[p].at = "idle" /\ vault' = vault /\ overtaken' \in {overtaken, overtaken \ {p}}
  BY IdleIsOp DEF OpenVault, OpenPassphrase, disk, ghosts
<1>2. ASSUME NEW q \in Procs, q # p PROVE Follows(q)'
  <2>1. repo'[q] = repo[q]
    BY <1>0, <1>2 DEF OpenVault, OpenPassphrase
  <2> QED
    BY <2>1, <1>1, <1>2, FollowsOn DEF DiskFollows
<1>3. CASE OpenVault(p)
  <2>1. repo'[p] = Handle(config.mode, vault.seed, vault.gens, 0) /\ Whole(vault)
    BY <1>0, <1>3 DEF OpenVault, OpenWith
  <2>2. Whole(vault)' /\ repo'[p].gens = vault'.gens
    BY <2>1, <1>1 DEF Handle, Whole
  <2> QED
    BY <2>2, <1>1, <1>2, FollowsOpened DEF DiskFollows, Rotating
<1>4. CASE OpenPassphrase(p)
  <2>1. PICK w : repo'[p] = FromDek(w.dek, w.anchor)
    BY <1>0, <1>4 DEF OpenPassphrase
  <2>2. repo'[p].mode = "passphrase"
    BY <2>1 DEF FromDek, Handle
  <2> QED
    BY <2>2, <1>1, <1>2, FollowsOpened DEF DiskFollows, Rotating
<1> QED
  BY <1>3, <1>4

\* A rotation appends to the table of its handle.
LEMMA StartFollows ==
  ASSUME IndInv, DiskFollows, NEW p \in Procs, RotateStart(p)
  PROVE  DiskFollows'
<1>0. Types /\ op[p] \in OpRec /\ repo[p] \in HandleRec /\ fresh \in Nat
  BY DEF IndInv, Types, RotateStart
<1>1. vault' = vault /\ overtaken' = overtaken /\ op[p].at = "idle"
  BY IdleIsOp DEF RotateStart, ghosts
<1>2. CASE UNCHANGED <<repo, op>>
  BY <1>1, <1>2, FollowsOn DEF DiskFollows
<1>3. ASSUME NEW k,
             repo' = [repo EXCEPT ![p].gens = RotateConvergence(@, fresh)],
             op' = [op EXCEPT ![p] = [@ EXCEPT !.at = "tmpfile", !.key = k, !.prior = repo[p].gens]]
      PROVE  DiskFollows'
  <2>1. ASSUME NEW q \in Procs, q # p PROVE Follows(q)'
    <3>1. repo'[q] = repo[q] /\ op'[q] = op[q]
      BY <1>0, <1>3, <2>1 DEF Types
    <3> QED
      BY <3>1, <1>1, <2>1, FollowsOn DEF DiskFollows
  <2>2. /\ op'[p] = [op[p] EXCEPT !.at = "tmpfile", !.key = k, !.prior = repo[p].gens]
        /\ repo'[p] = [repo[p] EXCEPT !.gens = Append(repo[p].gens, fresh)]
    BY <1>0, <1>3 DEF Types, RotateConvergence
  <2>3. op'[p].at = "tmpfile" /\ op'[p].prior = repo[p].gens
    BY <1>0, <2>2 DEF OpRec
  <2>4. repo'[p].mode = repo[p].mode /\ repo'[p].gens = Append(repo[p].gens, fresh)
    BY <1>0, <2>2 DEF HandleRec
  <2>5. Begins(repo[p].gens, Append(repo[p].gens, fresh))
    <3>1. repo[p].gens \in Seq(Nat)
      BY <1>0 DEF HandleRec
    <3> QED
      BY <3>1, <1>0 DEF Begins
  <2>6. Rotating(p)' /\ ~Rotating(p)
    BY <2>3, <1>1 DEF Rotating
  <2>7. repo[p] # None
    BY DEF RotateStart
  <2>8. Follows(p)'
    BY <2>3, <2>4, <2>5, <2>6, <2>7, <1>1 DEF DiskFollows, Follows, Mine, Holds, Whole, Begins
  <2> QED
    BY <2>1, <2>8 DEF DiskFollows
<1> QED
  BY <1>2, <1>3 DEF RotateStart

\* A rotation goes on, fails, or replaces the file; in the last case whoever has
\* a table other than the replaced one is overtaken.
LEMMA RotationFollows ==
  ASSUME IndInv, DiskFollows, NEW p \in Procs,
         RotateOpenTmp(p) \/ RotateFill(p) \/ RotateRename(p)
  PROVE  DiskFollows'
<1>1. Rotating(p) /\ born # None /\ born.key # 0
  <2>1. op[p].at \in {"tmpfile", "fill", "rename"}
    BY DEF RotateOpenTmp, RotateFill, RotateRename, At
  <2> QED
    BY <2>1, Phases DEF Rotating, Replacing
<1>2. /\ Types /\ VaultDisk /\ VaultOp(p) /\ VaultHandle(p) /\ repo[p] \in HandleRec
      /\ op[p] \in OpRec
  <2>1. Types /\ VaultDisk /\ VaultOp(p) /\ VaultHandle(p)
    BY <1>1, VaultParts
  <2> QED
    BY <1>1, <2>1 DEF VaultOp, Types
<1>3. ASSUME Rollback(p), Done(p), vault' = vault, overtaken' = overtaken PROVE DiskFollows'
  <2>1. /\ repo'[p].mode = repo[p].mode /\ repo'[p].gens = op[p].prior
        /\ \A q \in Procs : q # p => repo'[q] = repo[q]
    BY <1>2, <1>3, RollbackMoves
  <2>2. op'[p].at = "idle" /\ \A q \in Procs : q # p => op'[q] = op[q]
    BY <1>2, <1>3, DoneMoves
  <2>3. ~Rotating(p)'
    BY <2>2 DEF Rotating
  <2> QED
    BY <1>1, <1>2, <1>3, <2>1, <2>2, <2>3, FollowsOn, FollowsBack DEF DiskFollows
<1>4. ASSUME NEW x \in {"fill", "rename"}, Goto(p, x), UNCHANGED <<repo, vault, overtaken>>
      PROVE  DiskFollows'
  <2>1. /\ op'[p].at = x /\ op'[p].prior = op[p].prior
        /\ \A q \in Procs : q # p => op'[q] = op[q]
    BY <1>2, <1>4, GotoMoves DEF Places, Replacing
  <2>2. Follows(p)'
    BY <2>1, <1>1, <1>4 DEF DiskFollows, Follows, Mine, Rotating, Holds, Whole, Begins
  <2> QED
    BY <2>1, <2>2, <1>4, FollowsOn DEF DiskFollows
<1>5. CASE RotateRename(p) /\ Commit(p)
  <2>1. tmp = [of |-> SealWith(repo[p], op[p].key), synced |-> TRUE]
    BY <1>2, <1>5 DEF VaultOp, RotateRename, At
  <2>2. /\ vault' = SealWith(repo[p], op[p].key)
        /\ repo' = [repo EXCEPT ![p].cs = CurrentGeneration(repo[p].gens)] /\ Goto(p, "syncdir")
        /\ overtaken' = (IF op[p].prior = vault.gens THEN overtaken ELSE Procs) \ {p}
    BY <1>5, <2>1 DEF Commit
  <2>3. vault'.gens = repo[p].gens
    BY <2>2 DEF SealWith
  <2>4. op'[p].at = "syncdir" /\ \A q \in Procs : q # p => op'[q] = op[q]
    BY <1>2, <2>2, GotoMoves DEF Places
  <2>5. repo'[p].gens = repo[p].gens /\ \A q \in Procs : q # p => repo'[q] = repo[q]
    <3>1. repo'[p] = [repo[p] EXCEPT !.cs = CurrentGeneration(repo[p].gens)]
      BY <1>2, <2>2 DEF Types
    <3>2. repo'[p].gens = repo[p].gens
      BY <1>2, <3>1 DEF HandleRec
    <3> QED
      BY <3>2, <1>2, <2>2 DEF Types
  <2>6. Whole(vault)'
    <3>1. repo[p].seed \in Nat /\ repo[p].gens \in Seq(Nat) /\ op[p].key \in Nat
      BY <1>2 DEF HandleRec, OpRec
    <3>2. vault' \in Sealed
      BY <3>1, <2>2 DEF SealWith, Sealed
    <3> QED
      BY <3>2, ContentsAreWhole DEF Whole
  <2>7. Follows(p)'
    <3>1. ~Rotating(p)'
      BY <2>4 DEF Rotating
    <3> QED
      BY <3>1, <2>3, <2>5, <2>6, FollowsOpened
  <2>8. ASSUME NEW q \in Procs, q # p PROVE Follows(q)'
    <3>1. op'[q] = op[q] /\ repo'[q] = repo[q]
      BY <2>4, <2>5, <2>8
    <3>2. CASE q \in overtaken'
      BY <3>1, <3>2, <2>8 DEF DiskFollows, Follows, Rotating, Begins
    <3>3. CASE q \notin overtaken'
      <4>1. op[p].prior = vault.gens /\ q \notin overtaken
        BY <2>2, <2>8, <3>3
      <4>2. Begins(vault.gens, vault'.gens)
        BY <4>1, <1>1, <2>3 DEF DiskFollows, Follows
      <4>3. ASSUME repo[q] # None \/ Rotating(q), repo[q].mode # "passphrase"
            PROVE  Holds(vault, Mine(q))'
        <5>1. Holds(vault, Mine(q))
          BY <4>1, <4>3, <2>8 DEF DiskFollows, Follows
        <5>2. Mine(q)' = Mine(q)
          BY <3>1 DEF Mine, Rotating
        <5> QED
          BY <5>1, <5>2, <4>2, <2>6 DEF Holds, Begins
      <4> QED
        BY <4>3, <3>1, <2>8 DEF DiskFollows, Follows, Rotating, Begins
    <3> QED
      BY <3>2, <3>3
  <2> QED
    BY <2>7, <2>8 DEF DiskFollows
<1>6. CASE RotateOpenTmp(p)
  <2>1. vault' = vault /\ overtaken' = overtaken
    BY <1>6 DEF RotateOpenTmp, ghosts
  <2> QED
    BY <2>1, <1>3, <1>4, <1>6 DEF RotateOpenTmp
<1>7. CASE RotateFill(p)
  <2>1. vault' = vault /\ overtaken' = overtaken
    BY <1>7 DEF RotateFill, ghosts
  <2> QED
    BY <2>1, <1>3, <1>4, <1>7 DEF RotateFill
<1>8. CASE RotateRename(p) /\ RenameFails(p)
  BY <1>3, <1>8 DEF RenameFails
<1> QED
  BY <1>5, <1>6, <1>7, <1>8 DEF RotateRename

\* The other commands touch neither a table nor the vault's file.
LEMMA OthersFollow ==
  ASSUME IndInv, IndInv', DiskFollows, NEW p \in Procs,
         \/ RotateSyncDir(p) \/ ExportOpen(p) \/ ExportFill(p) \/ RewrapStart(p)
         \/ PublishWrapOpen(p) \/ PublishWrapFill(p) \/ PublishWrapClean(p)
  PROVE  DiskFollows'
<1>0. op \in [Procs -> OpRec]
  BY DEF IndInv, Types
<1>1. repo' = repo /\ vault' = vault /\ overtaken' = overtaken
  BY DEF RotateSyncDir, ExportOpen, ExportFill, RewrapStart, PublishWrapOpen, PublishWrapFill,
         PublishWrapClean, disk, ghosts
<1>2. ASSUME NEW q \in Procs, q # p PROVE op'[q] = op[q]
  BY <1>0, <1>2
     DEF RotateSyncDir, ExportOpen, ExportFill, RewrapStart, PublishWrapOpen, PublishWrapFill,
         PublishWrapClean, Goto, Done
<1>3. op[p].at \in {"idle", "syncdir", "export", "wrapopen", "wrapfill", "wrapclean"}
  BY IdleIsOp
     DEF RotateSyncDir, ExportOpen, ExportFill, RewrapStart, PublishWrapOpen, PublishWrapFill,
         PublishWrapClean, At
<1>4. op'[p].at \in {"idle", "export", "wrapopen", "wrapfill", "wrapclean"}
  <2>1. CASE Done(p)
    BY <1>0, <2>1, IdleIsOp DEF Done
  <2>2. CASE Goto(p, "wrapfill") \/ Goto(p, "wrapclean")
    <3>1. op[p] \in OpRec /\ op'[p] \in {[op[p] EXCEPT !.at = "wrapfill"], [op[p] EXCEPT !.at = "wrapclean"]}
      BY <1>0, <2>2 DEF Goto
    <3> QED
      BY <3>1 DEF OpRec
  <2>3. CASE ExportOpen(p)
    <3>1. PICK k : op[p] \in OpRec /\ op'[p] = [op[p] EXCEPT !.at = "export", !.key = k]
      BY <1>0, <2>3 DEF ExportOpen
    <3> QED
      BY <3>1 DEF OpRec
  <2>4. CASE RewrapStart(p)
    <3>1. PICK old, new \in Pw, up \in {0, 1} :
              op' = [op EXCEPT ![p] = [@ EXCEPT !.at = "wrapopen", !.pw = new,
                        !.wrap = Rewrap(wraps[LatestWrapSeq], new, wraps[LatestWrapSeq].anchor + up)]]
      BY <2>4 DEF RewrapStart
    <3>2. op[p] \in OpRec /\ op'[p].at = "wrapopen"
      BY <1>0, <3>1 DEF OpRec
    <3> QED
      BY <3>2
  <2> QED
    BY <2>1, <2>2, <2>3, <2>4
       DEF RotateSyncDir, ExportFill, PublishWrapOpen, PublishWrapFill, PublishWrapClean
<1>5. ~Rotating(p) /\ ~Rotating(p)'
  BY <1>3, <1>4 DEF Rotating
<1> QED
  BY <1>1, <1>2, <1>5, FollowsOn, FollowsMoved DEF DiskFollows

\* Every step keeps the tables of open handles on disk.
LEMMA StepFollows == IndInv /\ IndInv' /\ DiskFollows /\ [Next]_vars => DiskFollows'
<1> SUFFICES ASSUME IndInv, IndInv', DiskFollows, [Next]_vars PROVE DiskFollows'
  OBVIOUS
<1>0. Types
  BY DEF IndInv
<1>1. ASSUME NEW p \in Procs, Exit(p) PROVE DiskFollows'
  <2>1. /\ repo' = [repo EXCEPT ![p] = None] /\ Done(p) /\ vault' = vault /\ overtaken' = overtaken
    BY <1>1 DEF Exit, disk, ghosts
  <2>2. op'[p].at = "idle" /\ \A q \in Procs : q # p => op'[q] = op[q]
    BY <1>0, <2>1, DoneMoves
  <2>3. repo'[p] = None /\ \A q \in Procs : q # p => repo'[q] = repo[q]
    BY <1>0, <2>1 DEF Types
  <2>4. ~Rotating(p)'
    BY <2>2 DEF Rotating
  <2> QED
    BY <2>1, <2>2, <2>3, <2>4, FollowsOn, FollowsOpened DEF DiskFollows
<1>2. CASE PowerCut
  <2>1. ASSUME NEW q \in Procs PROVE repo'[q] = None /\ ~Rotating(q)'
    BY <1>2, IdleIsOp DEF PowerCut, Rotating
  <2> QED
    BY <2>1, FollowsOpened DEF DiskFollows
<1>3. ASSUME UNCHANGED <<vault, repo, op, overtaken>> PROVE DiskFollows'
  BY <1>3, FollowsOn DEF DiskFollows
<1>4. ASSUME NEW p \in Procs, PublishRoot(p) PROVE DiskFollows'
  BY <1>3, <1>4 DEF PublishRoot, disk, ghosts
<1>5. CASE RemoveKeyFile
  BY <1>3, <1>5 DEF RemoveKeyFile, ghosts
<1>6. CASE Tamper
  BY <1>3, <1>6 DEF Tamper
<1>7. CASE UNCHANGED vars
  BY <1>3, <1>7 DEF vars, disk, ghosts
<1> QED
  BY <1>1, <1>2, <1>4, <1>5, <1>6, <1>7, CreationFollows, OpeningFollows, StartFollows,
     RotationFollows, OthersFollow DEF Next

\* So vault.bin always has them.
LEMMA TablesFollow == Spec => []DiskFollows
<1>1. Init => DiskFollows
  <2> SUFFICES ASSUME Init, NEW p \in Procs PROVE Follows(p)
    BY DEF DiskFollows
  <2> QED
    BY IdleIsOp DEF Init, Follows, Rotating
<1>2. IndInv /\ IndInv' /\ DiskFollows /\ [Next]_vars => DiskFollows'
  BY StepFollows
<1> QED
  BY <1>1, <1>2, Inductive, PTL DEF Spec

-----------------------------------------------------------------------------
(* What the holder of a namespace can rely on. *)

\* A namespace whose creation was acknowledged opens with the key the device
\* kept and with any key it exported: one key is ever drawn, every rotation
\* seals under it, and a rename or a power cut leaves one of the sealed files.
THEOREM KeysOpen == Spec => []KeysOpenTheVault
<1>1. IndInv => KeysOpenTheVault
  <2> SUFFICES ASSUME IndInv PROVE KeysOpenTheVault
    OBVIOUS
  <2>1. ASSUME born # None, born.key # 0
        PROVE  /\ OpenWith(vault, born.key) /\ vault.seed = born.seed
               /\ vault.gens[1] = born.gens[1]
               /\ born.key \in {keychain, keyFile} /\ {keychain, keyFile} \subseteq {None, born.key}
               /\ exported => dest = born.key
    BY <2>1, VaultParts, ContentsAreWhole DEF VaultDisk, Sound, Table, OpenWith, Whole
  <2>2. exported => born # None /\ born.key # 0
    BY DEF IndInv, Unborn, UnbornRest, HasWraps, WrapDisk
  <2> QED
    BY <2>1, <2>2 DEF KeysOpenTheVault, NamespaceOpens, ExportedKeyOpens
<1> QED
  BY <1>1, Inductive, PTL

\* What a handle seals can be opened again: outside a rotation vault.bin has its
\* table, unless a process rotated another table than the one on disk meanwhile,
\* and its root keys hang on the seed no rotation touches.
THEOREM SealedOpens == Spec => []SealedCanBeOpened
<1>1. IndInv /\ DiskFollows => SealedCanBeOpened
  <2> SUFFICES ASSUME IndInv, DiskFollows, NEW p \in Procs, repo[p] # None
               PROVE  /\ AtRest(p) =>
                           /\ p \notin overtaken => Holds(vault, repo[p].gens)
                           /\ repo[p].cs = repo[p].gens[GenerationNumber(repo[p].gens) + 1]
                      /\ \A r \in roots : OpenRoot(repo[p], r)
    BY DEF SealedCanBeOpened, HandleIsSealed, RootsStayOpen, AtRest
  <2>1. born # None
    BY Phases
  <2>2. CASE born.key # 0
    <3>1. RootsOpen /\ VaultHandle(p) /\ repo[p] \in HandleRec
      BY <2>1, <2>2, VaultParts DEF Types
    <3>2. repo[p].mode = config.mode /\ repo[p].seed = born.seed
      BY <3>1 DEF VaultHandle
    <3>3. \A r \in roots : OpenRoot(repo[p], r)
      BY <3>1, <3>2 DEF RootsOpen, OpenRoot, RootKey
    <3>4. Len(repo[p].gens) - 1 + 1 = Len(repo[p].gens)
      BY <3>1 DEF HandleRec
    <3>5. ~Rotating(p) => repo[p].cs = repo[p].gens[GenerationNumber(repo[p].gens) + 1]
      BY <3>1, <3>4 DEF VaultHandle, CurrentGeneration, GenerationNumber
    <3>6. AtRest(p) /\ p \notin overtaken => Holds(vault, repo[p].gens)
      BY DEF AtRest, DiskFollows, Follows, Mine
    <3> QED
      BY <3>3, <3>5, <3>6 DEF AtRest
  <2>3. CASE born.key = 0
    <3>1. RootsOpen /\ WrapHandle(p) /\ WrapDisk
      BY <2>1, <2>3, WrapParts
    <3> QED
      BY <3>1 DEF RootsOpen, WrapHandle, WrapDisk, OpenRoot, RootKey, AtRest
  <2> QED
    BY <2>2, <2>3
<1> QED
  BY <1>1, Inductive, TablesFollow, PTL

\* While no record is altered, a whole record of the DEK no older than the last
\* told one is on disk, and of the highest record, if it opens at all, neither
\* passphrase nor floor is older; a record that was altered yields what a holder
\* of the DEK sealed into it or nothing.  That the highest record opens is not
\* said: a change killed inside its write leaves it torn.
THEOREM PassphraseHolds == Spec => []PassphraseRecovers
<1>1. IndInv => PassphraseRecovers
  <2> SUFFICES ASSUME IndInv PROVE PassphraseRecovers
    OBVIOUS
  <2>1. RecoveredIsAuthored
    <3> SUFFICES ASSUME NEW p \in Procs, repo[p] # None, repo[p].mode = "passphrase"
                 PROVE  <<repo[p].seed, repo[p].anchor>> \in authored
      BY DEF RecoveredIsAuthored
    <3>1. born # None /\ (born.key # 0 => config.mode # "passphrase" /\ repo[p].mode = config.mode)
      BY Phases DEF IndInv, HasVault, VaultHandle, VaultDisk
    <3> QED
      BY <3>1, WrapParts DEF WrapHandle
  <2>2. ASSUME told # None, ~tampered PROVE born # None /\ born.key = 0
    BY <2>2 DEF IndInv, Unborn, UnbornRest, HasVault, VaultDisk
  <2>3. ASSUME told # None, ~tampered
        PROVE  /\ told \in Wrap /\ told.seq \in WrapSeqs /\ wraps[told.seq] = told /\ told.dek = born.seed
               /\ Whole(told)
               /\ \A s \in WrapSeqs : s >= told.seq /\ Whole(wraps[s]) => wraps[s].anchor >= told.anchor
    <3>1. WrapDisk /\ ToldStays
      BY <2>2, <2>3, WrapParts
    <3>2. told \in Wrap /\ told.seq \in WrapSeqs /\ wraps[told.seq] = told /\ Whole(told)
      BY <3>1, <2>3, ContentsAreWhole DEF WrapDisk, ToldStays, Wrap, Whole
    <3> QED
      BY <3>1, <3>2, <2>3 DEF WrapDisk, ToldStays, Genuine
  <2>4. WrapSeqs \subseteq Nat
    BY BoundsAreNat DEF WrapSeqs
  <2>5. DekIsNeverLost
    <3> SUFFICES ASSUME told # None, ~tampered
                 PROVE  \E s \in WrapSeqs : Whole(wraps[s]) /\ wraps[s].dek = born.seed /\ s >= told.seq
      BY DEF DekIsNeverLost
    <3>1. told.seq \in WrapSeqs /\ wraps[told.seq] = told /\ told.dek = born.seed /\ Whole(told)
      BY <2>3
    <3>2. told.seq >= told.seq
      BY <3>1, <2>4
    <3> QED
      BY <3>1, <3>2
  <2>6. OnlyToldOpens
    <3> SUFFICES ASSUME told # None, ~tampered, NEW pw \in Pw, UnwrapOpens(wraps[LatestWrapSeq], pw)
                 PROVE  LET w == wraps[LatestWrapSeq]
                        IN  /\ w.seq >= told.seq /\ w.anchor >= told.anchor
                            /\ w.seq = told.seq => pw = told.pw
      BY DEF OnlyToldOpens
    <3>1. \E s \in WrapSeqs : wraps[s] # None
      BY <2>3, ContentsAreWhole
    <3>2. /\ LatestWrapSeq \in WrapSeqs /\ told.seq <= LatestWrapSeq
          /\ wraps[LatestWrapSeq].seq = LatestWrapSeq
      BY <3>1, <2>3, OpenedIsGenuine, ContentsAreWhole
    <3>3. Whole(wraps[LatestWrapSeq]) /\ wraps[LatestWrapSeq].pw = pw
      BY DEF UnwrapOpens
    <3> QED
      BY <3>2, <3>3, <2>3, <2>4
  <2> QED
    BY <2>1, <2>5, <2>6 DEF PassphraseRecovers
<1> QED
  BY <1>1, Inductive, PTL

=============================================================================
