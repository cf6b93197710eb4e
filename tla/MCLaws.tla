------------------------------- MODULE MCLaws -------------------------------
(***************************************************************************)
(* One run for the parts of nas-tools that answer without keeping state,   *)
(* and for the document log and the chunk stream.  From the initial state  *)
(* either a case is posed, an input of one of the pure modules, and its    *)
(* laws are invariants of the state that holds it; or devices edit a       *)
(* document; or a reader is cut into chunks.                               *)
(***************************************************************************)
EXTENDS DocLog, Chunks

Fields == INSTANCE Fields
Wire == INSTANCE Wire
Records == INSTANCE Records
Tables == INSTANCE Manifests
Globs == INSTANCE Globs
Sig == INSTANCE SigV4
Dav == INSTANCE WebDav
Keys == INSTANCE Keys
Leases == INSTANCE Leases
Skip == INSTANCE Ladder

VARIABLE case  \* <<subject, input...>>

Idle == <<"idle">>
On(subject) == case[1] = subject
UpTo(S, n) == UNION {[1..k -> S] : k \in 0..n}
IsFresh == case = Idle /\ ~stream.open /\ \A w \in Writers : log[w] = EmptyLog /\ plain[w]
Pose(subject, input) == case' = <<subject, input>> /\ UNCHANGED <<docvars, stream>>
Input == case[2]

-----------------------------------------------------------------------------
\* Framing: byte strings short enough for two fields, and near misses of them.
PoseBytes == \E b \in UpTo({0, 1, 2}, 5) : Pose("bytes", b)
PoseFields == \E f \in UpTo(UpTo({0, 1}, 2), 3) : Pose("fields", f)

PoseName == \E s \in UpTo({"0", "a", "f", "A", "g"}, 5) : Pose("name", s)

FramingIsCanonical == On("bytes") => Fields!FramingIsCanonical(Input)
FramingRoundTrips == On("fields") => Fields!FramingRoundTrips(Input)

AddressHasOneName == On("name") => Fields!AddressHasOneName(Input)

-----------------------------------------------------------------------------
\* Frames of every length around the classes, every configuration of a few
\* sizes, and streams over inputs longer than the window.
Profiles == {"None", "Classes", "Fixed"}
Bases == {Config(a, b, c) : a \in 0..2, b \in {1, 2, 4, 8}, c \in {2, 3, 4, 5, 8}}
PoseFrame == \E p \in Profiles, b \in UpTo({0, 1, 3, 5}, 6) : Pose("frame", [profile |-> p, bytes |-> b])
PoseCut ==
    \E p \in Profiles, b \in Bases, d \in UpTo({1, 2}, 6) : Pose("cut", [profile |-> p, base |-> b, data |-> d])
Stream ==
    \/ IsFresh /\ \E cfg \in {Config(1, 2, 3), Config(1, 4, 5), Fixed(2)}, d \in UpTo({1, 2}, 8) : OpenStream(cfg, d)
    \/ StreamNext

FrameIsTheOnlyOne == On("frame") => OneFrame(Input.profile, Input.bytes)
EveryChunkCanBePadded == On("cut") => ChunksFit(Input.profile, Input.base, Input.data)

-----------------------------------------------------------------------------
\* Messages of every kind, lists up to and over the limit.
Id1 == <<7, 7>>
Id2 == <<0, 9>>
Lists == {<<>>, <<Id1>>, <<Id2, Id1>>, <<Id1, Id1>>, <<Id1, Id2, Id1>>}
Requests ==
    LET W(k) == Wire!Req(k)
    IN  {[W(k) EXCEPT !.id = Id1] : k \in Wire!OneId}
          \cup {[W(k) EXCEPT !.blob = b] : k \in Wire!OneBlob, b \in {<<>>, <<5>>, [i \in 1..20 |-> 0]}}
          \cup {[W(k) EXCEPT !.id = Id2, !.from = n] : k \in Wire!IdFrom, n \in {0, 258}}
          \cup {W(k) : k \in Wire!NoArgs}
          \cup {[W(k) EXCEPT !.list = l] : k \in Wire!AddrLists, l \in Lists}
          \cup {[W("ForgetRetention") EXCEPT !.blob = <<1>>, !.list = l] : l \in Lists}
          \cup {[W("Prove") EXCEPT !.id = Id1, !.nonce = Id2]}
Responses ==
    LET W(k) == Wire!Rsp(k)
    IN  {[W(k) EXCEPT !.blob = Id1] : k \in {"Blob", "Stored", "Proof", "Error"}}
          \cup {[W("Bool") EXCEPT !.flag = b] : b \in BOOLEAN}
          \cup {W("Record"), [W("Record") EXCEPT !.flag = TRUE, !.blob = <<1, 2>>], W("Ok")}
          \cup {[W(k) EXCEPT !.list = l] : k \in {"Records", "Addrs"}, l \in Lists}
PoseRequest == \E r \in Requests : Pose("request", r)
PoseResponse == \E r \in Responses : Pose("response", r)
PosePage == \E s \in UpTo({<<>>, Id1, [i \in 1..9 |-> 1], [i \in 1..13 |-> 1]}, 4) : Pose("page", s)

RequestIsCanonical == On("request") => Wire!RequestIsCanonical(Input)
ResponseIsCanonical == On("response") => Wire!ResponseIsCanonical(Input)
PageAlwaysFits == On("page") => Wire!PageAlwaysFits(Input)

-----------------------------------------------------------------------------
\* Signed records of every kind.
Zeroes == <<0, 0>>
Pk(n) == <<n, n, 0, n>>
SigOf(n) == <<n, 0, 0, 0, 1>>
SeqPrev == {<<0, Zeroes>>, <<1, Id1>>, <<258, Id2>>}
SlotRecords ==
    {[slot |-> s, seq |-> p[1], root |-> Id1, nonce |-> <<1, 2, 3>>, writer |-> w, prev |-> p[2],
      regime |-> g, sig |-> SigOf(1)] : s \in {Id1, Id2}, p \in SeqPrev, w \in {Id1, Zeroes}, g \in {0, 1}}
Handoffs ==
    {[slot |-> s, seq |-> n, from_pk |-> Pk(k), to |-> t, sig |-> SigOf(2)] :
       s \in {Id1, Id2}, n \in {0, 257}, k \in {1, 7}, t \in {Id1, Id2}}
Checkpoints ==
    {[slot |-> s, seq |-> n, hash |-> h, prev_seq |-> 1, prev |-> p, pk |-> Pk(k), sig |-> SigOf(1)] :
       s \in {Id1, Id2}, n \in {1, 257}, h \in {Id1, Id2}, p \in {Zeroes, Id1}, k \in {1, 7}}
Witnesses ==
    {[pk |-> Pk(k), slot |-> Id1, seq |-> p[1], hash |-> Id2, prev |-> p[2], time |-> t, sig |-> SigOf(3)] :
       k \in {1, 7}, p \in SeqPrev, t \in {0, 259}}
Deltas ==
    {[pk |-> Pk(1), epoch |-> e, seq |-> p[1], add |-> a, remove |-> r, prev |-> p[2], sig |-> SigOf(s)] :
       e \in {0, 1}, s \in {1, 4}, p \in SeqPrev, a \in {<<>>, <<Id1>>, <<Id2, Id1>>}, r \in {<<>>, <<Id1>>}}
LeaseCps ==
    {[pk |-> Pk(1), epoch |-> 1, seq |-> p[1], root |-> h, count |-> n, prev |-> p[2], sig |-> SigOf(1)] :
       p \in SeqPrev, h \in {Id1, Zeroes}, n \in {0, 257}}
Statements ==
    UNION {{[kind |-> "Slot", r |-> r] : r \in SlotRecords}, {[kind |-> "SlotHandoff", r |-> r] : r \in Handoffs},
           {[kind |-> "SlotCheckpoint", r |-> r] : r \in Checkpoints}, {[kind |-> "Witness", r |-> r] : r \in Witnesses},
           {[kind |-> "Lease", r |-> r] : r \in Deltas}, {[kind |-> "LeaseCheckpoint", r |-> r] : r \in LeaseCps}}
PoseStatement == \E s \in Statements : Pose("statement", s)

RecordIsCanonical == On("statement") => Records!RecordIsCanonical(Input.kind, Input.r)
StatementIsBound == On("statement") => Records!StatementIsBound(Input.kind, Input.r, Statements)
HashCommitsToRecord == On("statement") => Records!HashCommitsToRecord(Input.kind, Input.r, Statements)

-----------------------------------------------------------------------------
\* Ladders over two forks of one writer, beside another slot's and a stranger's.
Fork1 == Skip!History("s", "w", <<0, 0, 0, 0, 0>>)
Fork2 == Skip!History("s", "w", <<0, 2, 2, 2, 2>>)
Other == Skip!History("t", "w", <<0, 0, 0>>)
Stranger == Skip!History("s", "x", <<0, 0, 0>>)
RungPool == UNION {ToSet(Skip!Rungs(h, 2)) : h \in {Fork1, Fork2, Other, Stranger}}
              \cup {[Skip!Rungs(Fork1, 2)[2] EXCEPT !.sig = "x"]}
Tails == UpTo(UNION {ToSet(h) : h \in {Fork1, Fork2, Stranger}}, 2)
PoseLadder == \E cs \in UpTo(RungPool, 3) : Pose("ladder", cs)
PosePlan ==
    \E from \in 0..4, head \in 0..5, rungs \in SUBSET (0..5), budget \in 0..3 :
      Pose("plan", [from |-> from, head |-> head, rungs |-> rungs, budget |-> budget])

SkipWalkIsOneHistory ==
    On("ladder") =>
      /\ Skip!HonestWalkIsAccepted(Fork2, 2, "s", {"w"})
      /\ \A tail \in Tails, anchor \in {Skip!Zero} \cup RungPool :
            Skip!SkipWalkIsOneHistory(Input, tail, "s", {"w"}, anchor, {Fork1, Fork2}, 2)
PlanReachesHead == On("plan") => Skip!PlanReachesHead(Input.from, Input.head, Input.rungs, Input.budget)

-----------------------------------------------------------------------------
\* Stored tables.
Chunk(n) == [addr |-> Id1, ck |-> Id2, pt |-> <<n, 0>>, len |-> n]
Object(chunks, size) ==
    [scheme |-> 0, padding |-> 1, kind |-> 0, name |-> <<97>>, size |-> size, chunks |-> chunks, meta |-> <<>>]
Objects == {Object(<<>>, 0), Object(<<Chunk(3)>>, 3), Object(<<Chunk(3), Chunk(1)>>, 4)}
Empty == Object(<<>>, 0)
Buckets ==
    LET E == {[lamport |-> n, writer |-> Id1, object |-> o] : n \in {1, 256}, o \in {{}, {Empty}}}
    IN  UNION {[K -> E] : K \in {{}, {<<97>>}, {<<97>>, <<97, 47>>}, {<<98>>, <<255>>}}}
Dirs ==
    LET E == {[Tables!Entry("file") EXCEPT !.object = {Empty}], [Tables!Entry("link") EXCEPT !.target = <<98>>],
              [Tables!Entry("dir") EXCEPT !.addr = Id1, !.id = <<1>>],
              [Tables!Entry("dir") EXCEPT !.addr = Id1, !.id = <<2>>]}
    IN  UNION {{d \in [K -> E] : Tables!DistinctIds(d)} : K \in {{}, {<<97>>}, {<<97>>, <<97, 98>>}}}
Roots == {[tree |-> Id1, generation |-> n] : n \in {0, 256, 258}}
GitMaps == UNION {[K -> {[addr |-> Id1, kind |-> k, size |-> 258] : k \in 1..4}] :
                    K \in {{}, {<<1, 2, 3>>}, {<<1, 2, 3>>, <<0, 0, 0>>}}}
Acls == UNION {[K -> {{}, {0}, {0, 6}}] : K \in {{}, {<<97>>}, {<<97>>, <<98>>}}}
DocOps == {[kind |-> 1, ref |-> <<Zeroes, 0>>, ch |-> 97], [kind |-> 2, ref |-> <<Id1, 1>>, ch |-> 0]}
Docs ==
    {[clock |-> c, ops |-> o] :
       c \in UNION {[K -> {1, 256}] : K \in {{}, {Id1}, {Id1, Id2}}},
       o \in UNION {[K -> DocOps] : K \in {{}, {<<Id1, 1>>}, {<<Id1, 2>>, <<Id1, 256>>}, {<<Id1, 1>>, <<Id2, 3>>}}}}
PoseTable ==
    \/ \E v \in Objects : Pose("table", [kind |-> "Manifest", v |-> v])
    \/ \E v \in Buckets : Pose("table", [kind |-> "Bucket", v |-> v])
    \/ \E v \in Dirs : Pose("table", [kind |-> "Dir", v |-> v])
    \/ \E v \in Roots : Pose("table", [kind |-> "Root", v |-> v])
    \/ \E v \in GitMaps : Pose("table", [kind |-> "Git", v |-> v])
    \/ \E v \in Acls : Pose("table", [kind |-> "Acl", v |-> v])
PoseDoc == \E v \in Docs : Pose("doc", v)

TableIsCanonical == On("table") => Tables!TableIsCanonical(Input.kind, Input.v)
TableIsItself == On("table") => Tables!TableIsItself(Input.kind, Input.v)
DocReadsBack == On("doc") => Tables!DocReadsBack(Input)

-----------------------------------------------------------------------------
\* Globs of one segment with every wildcard, and of several with every split.
OneSegment == {<<s>> : s \in UpTo({"a", "b"}, 3)}
OneGlob == {<<s>> : s \in UpTo({"a", "b", "*", "?"}, 3)}
Paths == UpTo({<<>>, <<"a">>, <<"b">>}, 3)
PathGlobs == UpTo({<<>>, <<"a">>, <<"*">>, <<"*", "*">>}, 3)
Line(key, globs, flag) == [key |-> key, globs |-> globs, flag |-> flag]
Lines == {Line("#", <<>>, ""), Line("none", <<>>, ""),
          Line("exclude_paths", <<<<<<"a">>, <<"*", "*">>>>>>, ""), Line("exclude_paths", <<<<<<"b">>>>>>, ""),
          Line("exclude_paths", <<<<<<"[">>>>>>, ""), Line("exclude_paths", <<<<<<>>>>>>, ""),
          Line("drop_empty_commits", <<>>, "false"), Line("filter_messages", <<>>, "maybe")}
PoseGlob ==
    \/ \E g \in OneGlob, p \in OneSegment : Pose("glob", [glob |-> g, path |-> p])
    \/ \E g \in PathGlobs, p \in Paths : Pose("glob", [glob |-> g, path |-> p])
PoseRules == \E t \in UpTo(Lines, 3) : Pose("rules", t)

GlobMeansWhatItSays == On("glob") => Globs!GlobMeansWhatItSays(Input.glob, Input.path)
SubtreeIsExcluded == On("glob") => Globs!SubtreeIsExcluded(<<"a">>, Input.path)
RulesAreTakenWhole == On("rules") => Globs!RulesAreTakenWhole(Input)

-----------------------------------------------------------------------------
\* Requests of the S3 face.
Q1 == <<"prefix", "a">>
Q2 == <<"max-keys", "1">>
Body1 == "b1"
Day(d) == <<d, "t">>
Headers ==
    {"range" :> <<"0-1">>,
     "date" :> Day("d1"),
     "x-amz-date" :> Day("d1"),
     "x-amz-date" :> Day("d1") @@ "range" :> <<"0-1">>,
     "x-amz-date" :> Day("d2") @@ "x-amz-content-sha256" :> <<"UNSIGNED-PAYLOAD">>,
     "x-amz-date" :> Day("d1") @@ "x-amz-content-sha256" :> <<"UNSIGNED-PAYLOAD">>,
     "x-amz-date" :> Day("d1") @@ "x-amz-content-sha256" :> <<"sha256", "b1">>}
HttpRequests ==
    {[method |-> v, path |-> p, query |-> q, headers |-> h, body |-> b] :
       v \in {"GET", "PUT"}, p \in {"", "/", "/k"}, q \in {<<>>, <<Q1>>, <<Q1, Q2>>, <<Q2, Q1>>, <<Q1, Q1>>},
       h \in Headers, b \in {"b1", "b2"}}
Creds == [id |-> "key", secret |-> "s"]
PoseHttp == \E r \in HttpRequests : Pose("http", r)

SignatureBindsRequest == On("http") => Sig!SignatureBindsRequest(Creds, "r", Input, HttpRequests)
QueryOrderIsFree == On("http") => Sig!QueryOrderIsFree(Creds, "r", Input)

\* Keys with slashes in every place.
DavKeys == {<<"a">>, <<"a", "/">>, <<"a", "/", "x">>, <<"a", "/", "/", "x">>, <<"/", "x">>, <<"a", "/", "x", "/", "y">>}
PoseListing == \E live \in SUBSET DavKeys : Pose("listing", live)

WalkFindsEveryKey == On("listing") => Dav!WalkFindsEveryKey(Input)

-----------------------------------------------------------------------------
\* Pairs of calls of the cipher, pairs of derivations, pairs of directories.
Text == {<<"p">>, <<"q">>, <<"nonce/chunk/v1">>}
Dek == <<"dek">>
Ns == Keys!FromDek(Dek)
KeyPool == {Keys!ChunkKey(Ns.convergence, t) : t \in Text}
             \cup {Keys!ManifestKey(Keys!DirAt(Ns.root_secret, p)) : p \in {<<>>, <<<<"x">>>>}}
             \cup {Keys!WrappingKey(<<"kek">>)}
Calls(draw) ==
    {[op |-> o, cs |-> Ns.convergence, plain |-> p, aad |-> a, key |-> k, secret |-> Ns.root_secret,
      slot |-> s, seq |-> n, draw |-> <<draw>>] :
       o \in {"chunk", "key", "root"}, p \in {<<"p">>, <<"q">>}, a \in {<<"aad/dir">>, <<"aad/bucket">>},
       k \in KeyPool, s \in {"s1", "s2"}, n \in {"1", "2"}}
PoseCall == \E c \in Calls("r1") : Pose("call", c)

DirPaths == UpTo({<<"x">>, <<"y">>, <<"x", "y">>}, 3)
PoseDirs == \E p, q \in DirPaths : Pose("dirs", [path |-> p, other |-> q])

Derivations ==
    LET D(of) == [of |-> of, dek |-> Dek, path |-> <<>>, seq |-> "", text |-> <<>>]
        plainly == {D(o) : o \in {"ns_root", "convergence", "slot_seed"} \cup DOMAIN Keys!RoleContext}
    IN  {[d EXCEPT !.dek = k] : d \in plainly, k \in {Dek, <<"dek2">>}}
          \cup {[D(o) EXCEPT !.path = p] : o \in {"dir", "manifest"}, p \in {<<>>, <<<<"x">>>>, <<<<"y">>>>}}
          \cup {[D("root") EXCEPT !.seq = n] : n \in {"1", "2"}}
          \cup {[D("chunk") EXCEPT !.text = t] : t \in Text}
PoseDerivation == \E d \in Derivations : Pose("derivation", d)

KeystreamIsNeverReused ==
    On("call") => \A b \in Calls("r2") \cup {Input} : Keys!KeystreamIsNeverReused(Input, b)
OpensOnlyWhatItSealed ==
    On("call") => \A b \in Calls("r1") \cup Calls("r2") : Keys!OpensOnlyWhatItSealed(Input, b)
SubtreeReachesDownOnly ==
    On("dirs") => Keys!SubtreeReachesDownOnly(Ns.root_secret, Input.path, Input.other)
KeysAreApart == On("derivation") => \A e \in Derivations : Keys!KeysAreApart(Input, e)

-----------------------------------------------------------------------------
\* Lease histories: one that forks at its second delta, and another holder's.
Step(a, r) == [add |-> a, remove |-> r]
Steps == {Step(<<1>>, <<>>), Step(<<2, 1>>, <<1>>), Step(<<>>, <<1>>)}
Forks ==
    {{Leases!History(1, <<a, b, Step(<<3>>, <<>>)>>), Leases!History(1, <<a, c, Step(<<3>>, <<2>>)>>),
      Leases!History(2, <<a, b>>)} : a, b, c \in Steps}
PoseReplay ==
    \E hs \in Forks :
      \E given \in UpTo(UNION {ToSet(h) : h \in hs}, 3) : Pose("replay", [histories |-> hs, given |-> given])
PoseLists == \E s, t \in UpTo(1..3, 3) : Pose("lists", [list |-> s, other |-> t])
PoseClaim ==
    \E steps \in UpTo(Steps, 3), claim \in {<<>>, <<1>>, <<2>>, <<2, 1>>}, n \in 0..2 :
      Pose("claim", [history |-> Leases!History(1, steps), claim |-> claim, seq |-> n])

RootCommitsToSet == On("lists") => Leases!RootCommitsToSet(Input.list, Input.other)
ReplayIsTheHistory == On("replay") => Leases!ReplayIsTheHistory(Input.histories, Input.given)
CheckpointIsHonest == On("claim") => Leases!CheckpointIsHonest(Input.history, Input.claim, Input.seq)

-----------------------------------------------------------------------------
\* The properties.

\* One value, one spelling: every message, record, table, address and padded
\* frame decodes to what was encoded and to nothing else, other bytes are
\* refused or are another value's only encoding, no kind is read as another,
\* and a page of records fits a frame (encode and decode of encoding.rs,
\* addr.rs, padding.rs, wire.rs, the record and the manifest modules, bounded).
FormatsAreCanonical ==
    /\ FramingIsCanonical /\ FramingRoundTrips /\ AddressHasOneName /\ FrameIsTheOnlyOne
    /\ RequestIsCanonical /\ ResponseIsCanonical /\ PageAlwaysFits
    /\ RecordIsCanonical /\ TableIsCanonical /\ TableIsItself /\ DocReadsBack

\* What is signed or hashed is pinned down: a signature over one statement or
\* request is good for no other of any kind, a link names one record, and a
\* Merkle root one set, while the order of a query and of a list is free
\* (Identity::sign, record_hash, chain_hash, merkle::root, sigv4::verify).
SignaturesBind ==
    /\ StatementIsBound /\ HashCommitsToRecord /\ SignatureBindsRequest /\ QueryOrderIsFree
    /\ RootCommitsToSet

\* No key seals two texts under one nonce, what was sealed opens only as what
\* it was, a directory's secret reaches what is below it and nothing else, and
\* two derivations give one key only if they are the same (keys.rs, derive.rs).
KeysStayApart ==
    KeystreamIsNeverReused /\ OpensOnlyWhatItSealed /\ SubtreeReachesDownOnly /\ KeysAreApart

\* Chunks depend on the bytes alone, never on how a reader hands them over or
\* fails in between, and a writer that was accepted can pad each of them
\* (Stream::next, refill, Split::next, for_profile, ObjectWriter::new).
ChunksFollowContent == StreamCutsLikeSplit /\ EveryChunkCanBePadded

\* Whatever rungs, records, deltas and checkpoints of rival histories are
\* offered together, what is accepted is a part of one history, ends at its
\* head and yields its set (verify_skip_chain, plan_walk, replay, covers).
WalksAreOneHistory ==
    SkipWalkIsOneHistory /\ PlanReachesHead /\ ReplayIsTheHistory /\ CheckpointIsHonest

\* What selects files selects what it says: a glob matches by its definition, a
\* subtree is excluded at every depth, a rule file is taken whole or refused,
\* and a walk over a mounted bucket meets every key (glob_match, parse_rules,
\* append_children).
SelectorsMeanWhatTheySay ==
    GlobMeansWhatItSays /\ SubtreeIsExcluded /\ RulesAreTakenWhole /\ WalkFindsEveryKey

\* Devices that edit, merge and compact one document lose nothing: an id names
\* one edit, every visible character hangs from the start, the same edits show
\* the same text where no compaction came in, text keeps its order, and what was
\* typed stands in one piece behind the character it was typed behind
\* (insert_text, delete_range, merge, compact).
EditsSurvive ==
    /\ []OpIdNamesOneEdit /\ []NothingIsCutOff /\ []SameEditsSameText
    /\ OrderIsKept /\ TypedTogether

-----------------------------------------------------------------------------
Init == DocInit /\ StreamInit /\ case = Idle

Next ==
    \/ /\ IsFresh
       /\ \/ PoseBytes \/ PoseFields \/ PoseName \/ PoseFrame \/ PoseCut \/ PoseRequest \/ PoseResponse \/ PosePage \/ PoseStatement
          \/ PoseTable \/ PoseDoc \/ PoseGlob \/ PoseRules \/ PoseHttp \/ PoseListing
          \/ PoseLadder \/ PosePlan \/ PoseCall \/ PoseDirs \/ PoseDerivation \/ PoseReplay \/ PoseLists \/ PoseClaim
    \/ case = Idle /\ ~stream.open /\ DocNext /\ UNCHANGED <<case, stream>>
    \/ case = Idle /\ Stream /\ UNCHANGED <<case, docvars>>
=============================================================================
