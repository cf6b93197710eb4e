------------------------------- MODULE Vault -------------------------------
(***************************************************************************)
(* The secrets of one namespace on one device: nas-cli/src/repo.rs over    *)
(* nas-vault.  An e2ee or transit-only namespace keeps a sealed vault      *)
(* (vault.bin) whose key is in the keychain or in vault.key; a passphrase  *)
(* namespace keeps a chain of wrap records and nothing else.               *)
(*                                                                         *)
(* Every file operation that another process, a kill or a power cut can    *)
(* come between is a step of its own.  None is an absent file, Torn one    *)
(* that was truncated and not filled again.  Secrets, keys and seeds are   *)
(* numbers drawn from `fresh'; sealing and signing are ideal.              *)
(***************************************************************************)
EXTENDS Naturals, Sequences, FiniteSets, FiniteSetsExt

CONSTANTS Procs,       \* processes that may work on the namespace
          None, Torn,  \* model values: no file; a file cut short
          Pw,          \* passphrases, "" not among them
          Modes,       \* the modes `ns create' is asked for
          MaxFresh,    \* bound: random secrets drawn
          MaxWrap,     \* bound: wrap records published
          MaxAnchor    \* bound: sequence numbers a freshness anchor names

VARIABLES config, vault, tmp, keyFile, wraps,  \* the namespace directory
          dest,        \* the file `export-key' is asked to write
          keychain,    \* the item of the desktop keychain
          durable,     \* what vault.bin may hold after a power cut
          repo,        \* each process's open Repo, None before it opens one
          op,          \* where each process is in its command
          fresh,       \* the next random value
          born,        \* the seed, key and first secret, once create returned
          committed,   \* generation tables that were renamed into place
          exported,    \* export-key returned without an error
          told,        \* the wrap record last acknowledged to the operator
          authored,    \* every <<dek, anchor>> a DEK holder wrapped together
          tampered,    \* the disk's keeper replaced a wrap record
          overtaken,   \* processes whose open table a rotation from another one replaced
          roots        \* root manifests sealed for publication

disk == <<config, vault, tmp, keyFile, wraps, dest, keychain, durable>>
facts == <<born, committed, exported, told, authored, tampered>>
ghosts == <<facts, overtaken>>
vars == <<disk, repo, op, fresh, ghosts, roots>>

\* Argon2 costs: what a stored record may ask for, and what the policy allows.
Costs == 0..3
MinCost == 1
MaxCost == 2
Check(cost) == MinCost <= cost /\ cost <= MaxCost

WrapSeqs == 0..MaxWrap

\* What the files hold: the plain config, a sealed vault (and what it was born
\* with), the sibling a rotation fills, a wrap record.
Config == [mode : Modes, salt : Nat]
Sealed == [key : Nat, seed : Nat, gens : Seq(Nat)]
Sibling == [of : Sealed \cup {Torn}, synced : BOOLEAN]
Wrap == [cost : Costs, seq : WrapSeqs, anchor : 0..MaxAnchor, prev : Nat,
         pw : Pw \cup {None}, dek : Nat, bound : Nat \X Nat \X Nat \X Nat, id : Nat]

\* An absent file and a file cut short are neither each other nor any content.
ASSUME VaultAssumption ==
    /\ MaxFresh \in Nat /\ MaxWrap \in Nat /\ MaxAnchor \in Nat
    /\ Modes \subseteq {"e2ee", "transit-only", "passphrase"}
    /\ "" \notin Pw
    /\ None # Torn
    /\ \A x \in {None, Torn} :
          x \notin Nat /\ x \notin Config /\ x \notin Sealed /\ x \notin Sibling /\ x \notin Wrap

Idle == [at |-> "idle", key |-> 0, prior |-> <<>>, pw |-> None, wrap |-> None]

Init ==
    /\ config = None /\ vault = None /\ tmp = None /\ keyFile = None
    /\ wraps = [s \in WrapSeqs |-> None]
    /\ dest = None /\ keychain = None /\ durable = {None}
    /\ repo = [p \in Procs |-> None]
    /\ op = [p \in Procs |-> Idle]
    /\ fresh = 1
    /\ born = None /\ committed = {} /\ exported = FALSE
    /\ told = None /\ authored = {} /\ tampered = FALSE /\ overtaken = {}
    /\ roots = {}

Whole(f) == f \notin {None, Torn}
At(p, place) == op[p].at = place
Goto(p, place) == op' = [op EXCEPT ![p].at = place]
Done(p) == op' = [op EXCEPT ![p] = Idle]

\* ---- Vaults ----

\* A fresh vault: seed s, generation 0 the secret g.
VaultCreate(s, g) == [seed |-> s, gens |-> <<g>>]

\* Generations are numbered from 0 and contiguous: entry i has number i - 1.
CurrentGeneration(gens) == gens[Len(gens)]
GenerationNumber(gens) == Len(gens) - 1
RotateConvergence(gens, secret) == Append(gens, secret)

SealWith(v, key) == [key |-> key, seed |-> v.seed, gens |-> v.gens]
OpenWith(sealed, key) == Whole(sealed) /\ sealed.key = key

\* load_vault_key: the keychain when it answers, else vault.key, copied into
\* the keychain when that works.  k = 0 is the error, kc the keychain after.
LoadVaultKey(k, kc) ==
    \/ keychain # None /\ k = keychain /\ kc = keychain
    \/ Whole(keyFile) /\ k = keyFile /\ kc \in {keychain, keyFile}
    \/ ~Whole(keyFile) /\ k = 0 /\ kc = keychain

\* ---- Wrap records ----

Aad(w) == <<w.cost, w.seq, w.anchor, w.prev>>
CheckGenesis(w) == (w.seq = 0) = (w.prev = 0)

\* `id' stands for the record's bytes in chain_hash; pw and bound are what
\* the ciphertext and the signature were made with.
WrapCreate(pw, dek, seq, anchor, prev, id) ==
    LET w == [cost |-> MinCost, seq |-> seq, anchor |-> anchor, prev |-> prev,
              pw |-> pw, dek |-> dek, bound |-> <<>>, id |-> id]
    IN  [w EXCEPT !.bound = Aad(w)]

UnwrapOpens(w, pw) ==
    /\ Whole(w)
    /\ Check(w.cost)
    /\ CheckGenesis(w)
    /\ w.pw = pw
    /\ w.bound = Aad(w)

LatestWrapSeq == Max({s \in WrapSeqs : wraps[s] # None})

\* ---- nas ns create ----

\* What the prompt yields of two typed lines; the flag skips it.
Typed(first, again) == IF first = "" \/ first # again THEN None ELSE first

\* What the plain config says; a config cut short has no line left and takes
\* every default.
Describe(c) == IF c = Torn THEN "e2ee" ELSE c.mode

\* The config is written before any secret; `exists' tests nothing else.
\* An operator creates a namespace once: no other process is at work on it.
CreateConfig(p) ==
    /\ \A q \in Procs : op[q] = Idle /\ repo[q] = None
    /\ config = None
    /\ \E m \in Modes, first, again \in Pw \cup {""} :
          /\ m = "passphrase" => Typed(first, again) # None
          /\ m # "passphrase" => first = "" /\ again = ""
          /\ config' = Torn
          /\ op' = [op EXCEPT ![p].at = m, ![p].pw = Typed(first, again)]
    /\ UNCHANGED <<vault, tmp, keyFile, wraps, dest, keychain, durable, repo, fresh, ghosts,
                   roots>>

CreateConfigFill(p) ==
    /\ op[p].at \in Modes
    /\ config' = [mode |-> op[p].at, salt |-> fresh]
    /\ Goto(p, IF op[p].at = "passphrase" THEN "wrapfile" ELSE "vaultfile")
    /\ fresh' = fresh + 1
    /\ UNCHANGED <<vault, tmp, keyFile, wraps, dest, keychain, durable, repo, ghosts, roots>>

\* write_private: the file is emptied, filled and synced.
CreateVaultOpen(p) ==
    /\ At(p, "vaultfile") /\ vault = None
    /\ vault' = Torn /\ durable' = {Torn}
    /\ UNCHANGED <<config, tmp, keyFile, wraps, dest, keychain, repo, op, fresh, ghosts, roots>>

CreateVaultFill(p) ==
    /\ At(p, "vaultfile") /\ vault = Torn
    /\ LET v == VaultCreate(fresh, fresh + 1)
       IN  /\ vault' = SealWith(v, fresh + 2)
           /\ durable' = {vault'}
           /\ op' = [op EXCEPT ![p].at = "storekey", ![p].key = fresh + 2]
    /\ fresh' = fresh + 3
    /\ UNCHANGED <<config, tmp, keyFile, wraps, dest, keychain, repo, ghosts, roots>>

Handle(m, seed, gens, anchor) ==
    [mode |-> m, seed |-> seed, gens |-> gens, cs |-> CurrentGeneration(gens), anchor |-> anchor]

\* Everything a passphrase namespace needs comes from the one DEK; it has no
\* generation table.
FromDek(dek, anchor) == Handle("passphrase", dek, <<dek>>, anchor)

CreateAck(p, key) ==
    /\ born' = [seed |-> vault.seed, key |-> key, gens |-> vault.gens]
    /\ committed' = {vault.gens}
    /\ repo' = [repo EXCEPT ![p] = Handle(config.mode, vault.seed, vault.gens, 0)]
    /\ Done(p)
    /\ UNCHANGED <<exported, told, authored, tampered, overtaken>>

\* The keychain first; vault.key only when the keychain would not have it.
CreateStoreKey(p) ==
    /\ At(p, "storekey")
    /\ \/ /\ keychain' = op[p].key
          /\ CreateAck(p, op[p].key)
          /\ UNCHANGED keyFile
       \/ /\ keyFile' = Torn
          /\ Goto(p, "fillkey")
          /\ UNCHANGED <<keychain, repo, ghosts>>
    /\ UNCHANGED <<config, vault, tmp, wraps, dest, durable, fresh, roots>>

CreateFillKey(p) ==
    /\ At(p, "fillkey")
    /\ keyFile' = op[p].key
    /\ CreateAck(p, op[p].key)
    /\ UNCHANGED <<config, vault, tmp, wraps, dest, keychain, durable, fresh, roots>>

CreateWrapOpen(p) ==
    /\ At(p, "wrapfile") /\ wraps[0] = None
    /\ wraps' = [wraps EXCEPT ![0] = Torn]
    /\ UNCHANGED <<config, vault, tmp, keyFile, dest, keychain, durable, repo, op, fresh, ghosts, roots>>

CreateWrapFill(p) ==
    /\ At(p, "wrapfile") /\ wraps[0] = Torn
    /\ LET w == WrapCreate(op[p].pw, fresh, 0, 0, 0, fresh + 1)
       IN  /\ wraps' = [wraps EXCEPT ![0] = w]
           /\ authored' = authored \cup {<<fresh, w.anchor>>}
           /\ told' = w
    /\ born' = [seed |-> fresh, key |-> 0, gens |-> <<fresh>>]
    /\ repo' = [repo EXCEPT ![p] = FromDek(fresh, 0)]
    /\ Done(p)
    /\ fresh' = fresh + 2
    /\ UNCHANGED <<config, vault, tmp, keyFile, dest, keychain, durable,
                   committed, exported, tampered, overtaken, roots>>

\* ---- Repo::open_with ----

OpenVault(p) ==
    /\ op[p] = Idle /\ config # None /\ Describe(config) # "passphrase"
    /\ \E k \in 0..MaxFresh, kc \in {keychain, keyFile} :
          /\ LoadVaultKey(k, kc)
          /\ OpenWith(vault, k)
          /\ keychain' = kc
          /\ repo' = [repo EXCEPT ![p] = Handle(config.mode, vault.seed, vault.gens, 0)]
    /\ overtaken' = overtaken \ {p}
    /\ UNCHANGED <<config, vault, tmp, keyFile, wraps, dest, durable, op, fresh, facts, roots>>

\* Only the highest record on disk is tried.
OpenPassphrase(p) ==
    /\ op[p] = Idle /\ config # None /\ Describe(config) = "passphrase"
    /\ \E s \in WrapSeqs : wraps[s] # None
    /\ LET w == wraps[LatestWrapSeq]
       IN \E pw \in Pw :
          /\ UnwrapOpens(w, pw)
          /\ repo' = [repo EXCEPT ![p] = FromDek(w.dek, w.anchor)]
    /\ UNCHANGED <<disk, op, fresh, ghosts, roots>>

\* ---- Repo::rotate_convergence ----

\* Mutant: a failed rotation keeps the new generation in memory.
RollbackNot(p) == UNCHANGED repo
Rollback(p) == repo' = [repo EXCEPT ![p].gens = op[p].prior]

\* The append in memory and the key, before any file is touched.
RotateStart(p) ==
    /\ op[p] = Idle /\ repo[p] # None /\ repo[p].mode # "passphrase"
    /\ fresh <= MaxFresh
    /\ \E k \in 0..MaxFresh, kc \in {keychain, keyFile} :
          /\ LoadVaultKey(k, kc)
          /\ keychain' = kc
          /\ IF k = 0 THEN UNCHANGED <<repo, op>>
             ELSE /\ repo' = [repo EXCEPT ![p].gens = RotateConvergence(@, fresh)]
                  /\ op' = [op EXCEPT ![p] =
                        [@ EXCEPT !.at = "tmpfile", !.key = k, !.prior = repo[p].gens]]
    /\ fresh' = fresh + 1
    /\ UNCHANGED <<config, vault, tmp, keyFile, wraps, dest, durable, ghosts, roots>>

\* open_exclusive: an existing sibling, left by anyone, is a refusal.
\* Mutant: the sibling is truncated, not created.
OpenTruncating == TRUE
OpenExclusive == tmp = None

RotateOpenTmp(p) ==
    /\ At(p, "tmpfile")
    /\ IF OpenExclusive
       THEN /\ tmp' = [of |-> Torn, synced |-> FALSE]
            /\ Goto(p, "fill")
            /\ UNCHANGED repo
       ELSE Rollback(p) /\ Done(p) /\ UNCHANGED tmp
    /\ UNCHANGED <<config, vault, keyFile, wraps, dest, keychain, durable, fresh, ghosts, roots>>

\* write_all and sync_all; an error of either removes the sibling.
FillTmp(p) == tmp' = [of |-> SealWith(repo[p], op[p].key), synced |-> TRUE]

RotateFill(p) ==
    /\ At(p, "fill")
    /\ \/ FillTmp(p) /\ Goto(p, "rename") /\ UNCHANGED repo
       \/ tmp' = None /\ Rollback(p) /\ Done(p)
    /\ UNCHANGED <<config, vault, keyFile, wraps, dest, keychain, durable, fresh, ghosts, roots>>

\* The rename is the commit; cs_holder follows it at once.  Nothing compares the
\* table that was rotated with the one that is replaced.
Commit(p) ==
    /\ vault' = tmp.of
    /\ durable' = durable \cup {IF tmp.synced THEN tmp.of ELSE Torn}
    /\ committed' = committed \cup {repo[p].gens}
    /\ repo' = [repo EXCEPT ![p].cs = CurrentGeneration(repo[p].gens)]
    /\ overtaken' = (IF op[p].prior = vault.gens THEN overtaken ELSE Procs) \ {p}
    /\ Goto(p, "syncdir")

\* rename fails: the sibling goes and the memory goes back.
RenameFails(p) ==
    /\ Rollback(p)
    /\ Done(p)
    /\ UNCHANGED <<vault, durable, committed, overtaken>>

RotateRename(p) ==
    /\ At(p, "rename")
    /\ (tmp # None /\ Commit(p)) \/ RenameFails(p)
    /\ tmp' = None
    /\ UNCHANGED <<config, keyFile, wraps, dest, keychain, fresh, born, exported, told,
                   authored, tampered, roots>>

\* A failed directory sync is reported and changes nothing in memory.
RotateSyncDir(p) ==
    /\ At(p, "syncdir")
    /\ durable' \in {durable, IF Torn \in durable THEN {Torn} ELSE {vault}}
    /\ Done(p)
    /\ UNCHANGED <<config, vault, tmp, keyFile, wraps, dest, keychain, repo, fresh, ghosts, roots>>

\* ---- Repo::export_vault_key ----

ExportOpen(p) ==
    /\ op[p] = Idle /\ repo[p] # None /\ repo[p].mode # "passphrase"
    /\ dest = None
    /\ \E k \in 1..MaxFresh, kc \in {keychain, keyFile} :
          /\ LoadVaultKey(k, kc)
          /\ keychain' = kc
          /\ op' = [op EXCEPT ![p].at = "export", ![p].key = k]
    /\ dest' = Torn
    /\ UNCHANGED <<config, vault, tmp, keyFile, wraps, durable, repo, fresh, ghosts, roots>>

WritePrivateNew(key) == dest' = key

ExportFill(p) ==
    /\ At(p, "export")
    /\ WritePrivateNew(op[p].key)
    /\ exported' = TRUE
    /\ Done(p)
    /\ UNCHANGED <<config, vault, tmp, keyFile, wraps, keychain, durable, repo, fresh,
                   born, committed, told, authored, tampered, overtaken, roots>>

\* The operator removes vault.key once the keychain has the same key.
RemoveKeyFile ==
    /\ Whole(keyFile) /\ keychain = keyFile
    /\ keyFile' = None
    /\ UNCHANGED <<config, vault, tmp, wraps, dest, keychain, durable, repo, op, fresh,
                   ghosts, roots>>

\* ---- Changing the passphrase: WrapRecord::rewrap and publish_wrap ----

\* rewrap: the DEK is recovered and wrapped again, chained to the old record.
Rewrap(w, new, anchor) == WrapCreate(new, w.dek, w.seq + 1, anchor, w.id, fresh)

RewrapStart(p) ==
    /\ \A q \in Procs : op[q] = Idle
    /\ config # None /\ Describe(config) = "passphrase"
    /\ fresh <= MaxFresh
    /\ \E s \in WrapSeqs : wraps[s] # None
    /\ \E old, new \in Pw, up \in {0, 1} :
          LET w == wraps[LatestWrapSeq]
          IN  /\ UnwrapOpens(w, old)
              /\ w.anchor + up <= MaxAnchor
              /\ w.seq < MaxWrap
              /\ LET next == Rewrap(w, new, w.anchor + up)
                 IN  /\ op' = [op EXCEPT ![p] =
                              [@ EXCEPT !.at = "wrapopen", !.pw = new, !.wrap = next]]
                     /\ authored' = authored \cup {<<next.dek, next.anchor>>}
    /\ fresh' = fresh + 1
    /\ UNCHANGED <<disk, repo, born, committed, exported, told, tampered, overtaken, roots>>

\* write_private truncates the new record's own path and no other.
\* Mutant: superseded wraps are removed before the new one is written.
OpenWrapFileAlone(seq) == wraps' = [s \in WrapSeqs |-> IF s = seq THEN Torn ELSE None]
OpenWrapFile(seq) == wraps' = [wraps EXCEPT ![seq] = Torn]

PublishWrapOpen(p) ==
    /\ At(p, "wrapopen")
    /\ OpenWrapFile(op[p].wrap.seq)
    /\ Goto(p, "wrapfill")
    /\ UNCHANGED <<config, vault, tmp, keyFile, dest, keychain, durable, repo, fresh, ghosts, roots>>

PublishWrapFill(p) ==
    /\ At(p, "wrapfill")
    /\ wraps' = [wraps EXCEPT ![op[p].wrap.seq] = op[p].wrap]
    /\ Goto(p, "wrapclean")
    /\ UNCHANGED <<config, vault, tmp, keyFile, dest, keychain, durable, repo, fresh, ghosts, roots>>

\* Superseded records go; a removal that fails is not reported.
PublishWrapClean(p) ==
    /\ At(p, "wrapclean")
    /\ \E kept \in SUBSET {s \in WrapSeqs : s < op[p].wrap.seq} :
          wraps' = [s \in WrapSeqs |->
                      IF s < op[p].wrap.seq /\ s \notin kept THEN None ELSE wraps[s]]
    /\ told' = op[p].wrap
    /\ Done(p)
    /\ UNCHANGED <<config, vault, tmp, keyFile, dest, keychain, durable, repo, fresh,
                   born, committed, exported, authored, tampered, overtaken, roots>>

\* The keeper of the disk or of the copied wraps directory alters a record's
\* plain fields; it has neither a passphrase nor the signing key.
Tamper ==
    /\ ~tampered
    /\ \E s \in WrapSeqs, to \in WrapSeqs, cost \in Costs, anchor \in 0..MaxAnchor :
          /\ Whole(wraps[s])
          /\ wraps' = [wraps EXCEPT ![s] = None,
                         ![to] = [wraps[s] EXCEPT !.cost = cost, !.anchor = anchor, !.seq = to]]
    /\ tampered' = TRUE
    /\ UNCHANGED <<config, vault, tmp, keyFile, dest, keychain, durable, repo, op, fresh,
                   born, committed, exported, told, authored, overtaken, roots>>

\* ---- Root manifests ----

RootKey(h, seq) == <<h.seed, seq>>

SealRoot(h, seq) ==
    [seq |-> seq, key |-> IF h.mode = "transit-only" THEN <<0, 0>> ELSE RootKey(h, seq)]

OpenRoot(h, r) == h.mode = "transit-only" \/ r.key = RootKey(h, r.seq)

PublishRoot(p) ==
    /\ op[p] = Idle /\ repo[p] # None
    /\ Cardinality(roots) < 2
    /\ roots' = roots \cup {SealRoot(repo[p], Cardinality(roots) + 1)}
    /\ UNCHANGED <<disk, repo, op, fresh, ghosts>>

\* ---- Stops ----

\* The process ends: killed, or the command is over.
Exit(p) ==
    /\ repo[p] # None \/ op[p] # Idle
    /\ repo' = [repo EXCEPT ![p] = None]
    /\ Done(p)
    /\ UNCHANGED <<disk, fresh, ghosts, roots>>

\* A power cut: vault.bin is any of the contents not yet superseded on disk,
\* the sibling's bytes may not have arrived.
PowerCut ==
    /\ Cardinality(durable) > 1 \/ tmp # None
    /\ vault' \in durable
    /\ durable' = {vault'}
    /\ tmp' \in {tmp, None}
    /\ repo' = [p \in Procs |-> None]
    /\ op' = [p \in Procs |-> Idle]
    /\ UNCHANGED <<config, keyFile, wraps, dest, keychain, fresh, ghosts, roots>>

Next ==
    \/ \E p \in Procs :
         \/ CreateConfig(p) \/ CreateConfigFill(p)
         \/ CreateVaultOpen(p) \/ CreateVaultFill(p)
         \/ CreateStoreKey(p) \/ CreateFillKey(p)
         \/ CreateWrapOpen(p) \/ CreateWrapFill(p)
         \/ OpenVault(p) \/ OpenPassphrase(p)
         \/ RotateStart(p) \/ RotateOpenTmp(p) \/ RotateFill(p)
         \/ RotateRename(p) \/ RotateSyncDir(p)
         \/ ExportOpen(p) \/ ExportFill(p)
         \/ RewrapStart(p) \/ PublishWrapOpen(p) \/ PublishWrapFill(p) \/ PublishWrapClean(p)
         \/ PublishRoot(p) \/ Exit(p)
    \/ RemoveKeyFile
    \/ Tamper
    \/ PowerCut

Spec == Init /\ [][Next]_vars

\* ---- Properties ----

Rotating(p) == op[p].at \in {"tmpfile", "fill", "rename"}

\* A namespace whose creation was acknowledged opens: vault.bin is whole, has
\* the identity seed and the first generation, and the key that opens it is in
\* the keychain or in vault.key, and no other key is in either, whatever
\* rotations, races, kills and power cuts came since (write_vault_replace).
NamespaceOpens ==
    (born # None /\ born.key # 0) =>
        /\ OpenWith(vault, born.key)
        /\ vault.seed = born.seed
        /\ vault.gens[1] = born.gens[1]
        /\ born.key \in {keychain, keyFile}
        /\ {keychain, keyFile} \subseteq {None, born.key}

\* vault.bin has every generation of a table, under its number.
Holds(sealed, gens) ==
    Whole(sealed) /\ \A i \in DOMAIN gens : i \in DOMAIN sealed.gens /\ sealed.gens[i] = gens[i]

AtRest(p) == repo[p] # None /\ repo[p].mode # "passphrase" /\ ~Rotating(p)

\* Between commands vault.bin holds every generation an open Repo has, and what
\* sealer() uses is the secret of what generation() reports: no rotation that
\* failed half way leaves an unpersisted generation in use, and one that another
\* process made meanwhile keeps what this one seals under.  Excepted is a process
\* whose table was replaced by a rotation of another table than the one on disk.
HandleIsSealed ==
    \A p \in Procs : AtRest(p) =>
        /\ p \notin overtaken => Holds(vault, repo[p].gens)
        /\ repo[p].cs = repo[p].gens[GenerationNumber(repo[p].gens) + 1]

\* "The vault keeps every past generation": without the exception it does not.
\* Two processes that opened the same vault both rotate, and the second rename
\* drops the generation the first one seals under.
GenerationsAreKept == \A p \in Procs : AtRest(p) => Holds(vault, repo[p].gens)

\* An exported key goes on opening the namespace: no rotation since the export
\* sealed the vault under another key, and no later export touched the file.
ExportedKeyOpens == exported => OpenWith(vault, dest)

\* What a passphrase recovery yields, secrets and freshness floor together,
\* is what a holder of the DEK wrapped together, whatever was done to the
\* plain fields of the stored record.
RecoveredIsAuthored ==
    \A p \in Procs :
        (repo[p] # None /\ repo[p].mode = "passphrase") =>
            <<repo[p].seed, repo[p].anchor>> \in authored

\* A passphrase change that stops anywhere leaves a whole record of the DEK,
\* no older than the last one acknowledged.
DekIsNeverLost ==
    (told # None /\ ~tampered) =>
        \E s \in WrapSeqs : Whole(wraps[s]) /\ wraps[s].dek = born.seed /\ s >= told.seq

\* After an acknowledged change only the new passphrase opens the namespace
\* (or that of a still later record), and the floor it yields is not lower,
\* even when superseded records could not be removed.
OnlyToldOpens ==
    (told # None /\ ~tampered) =>
        LET w == wraps[LatestWrapSeq]
        IN \A pw \in Pw :
             UnwrapOpens(w, pw) => /\ w.seq >= told.seq /\ w.anchor >= told.anchor
                                   /\ w.seq = told.seq => pw = told.pw

\* Every root manifest ever sealed opens under every handle opened later: no
\* rotation or passphrase change moves the key chain below the slot records.
RootsStayOpen ==
    \A p \in Procs, r \in roots : repo[p] # None => OpenRoot(repo[p], r)

\* No sequence of creations, rotations, exports, races, kills and power cuts
\* leaves a namespace that does not open: with its own key, or an exported one.
KeysOpenTheVault == NamespaceOpens /\ ExportedKeyOpens

\* Whatever a handle seals can be opened again: by the vault on disk, unless a
\* rotation from an older table overtook the handle, and, for roots, by every
\* other handle (rotate_convergence, write_vault_replace, seal_root, open_root).
SealedCanBeOpened == HandleIsSealed /\ RootsStayOpen

\* Passphrase changes that stop anywhere or leave old records behind keep a whole
\* record of the DEK and bring back no old passphrase or floor, as long as the
\* records are not altered; with altered ones a recovery still yields secrets and
\* floor that belong together.  A change cut off inside its write leaves a torn
\* record above the whole one, and only the highest is tried: the DEK is there
\* and the namespace does not open (passphrase_change, publish_wrap, unwrap).
PassphraseRecovers == DekIsNeverLost /\ OnlyToldOpens /\ RecoveredIsAuthored
=============================================================================
