---------------------------- MODULE PeerService ----------------------------
(***************************************************************************)
(* `nas peer serve`: the directory an operator prepares (peercmd.rs), the  *)
(* handshake that decides who is asking (session.rs), the loop that serves *)
(* one connection after the other and the dispatch of a request to the     *)
(* store (server.rs), the access list (acl.rs), and the client that pushes *)
(* a blob and makes the peer prove what it claims to hold.                 *)
(*                                                                         *)
(* A key is proved by the handshake or the connection is refused.  A frame *)
(* is lost only with its connection.  What the store does behind a request *)
(* is in PeerGC, SlotPeer, SlotClient and DeleteTrail; here it is a set,   *)
(* and whether the store takes what a request brings is a free choice.     *)
(***************************************************************************)
EXTENDS Naturals, Sequences, FiniteSets

CONSTANTS
  Client,      \* processes that connect
  Key,         \* transport keys
  KeyOf,       \* client -> the key it really holds
  Subject,     \* names, numbered as the directory sorts them
  Addr,        \* blobs, all of them the client's own bytes
  Right,       \* rights an operator may grant
  Modes,       \* what `peer serve` may be started as
  MaxRecords,  \* MAX_RECORDS of one list response
  Kinds,       \* bound: the kinds of request clients send besides a push
  MaxAsks,     \* bound: client -> requests of one connection
  MaxConns,    \* bound: connections of one client
  MaxOps       \* bound: operator commands and damaged files

VARIABLES
  dir,         \* the peer directory: clients/<subject>.pub, acl
  peer,        \* the serving process: what it loaded, its mode
  store,       \* blobs held, blobs whose file is damaged
  leases,      \* subject -> addresses
  done,        \* the write the last answer accepted: who really asked, as whom, what for
  queue,       \* connections not accepted yet
  conn,        \* the connection being served: [client, subject], or NoConn
  link,        \* client -> its side of the connection
  push,        \* client -> how far its push of a blob has come
  ops

vars == <<dir, peer, store, leases, done, queue, conn, link, push, ops>>

NoKey == "no key"
Unknown == 0                  \* the subject "?"
NoConn == [client |-> "none", subject |-> Unknown]
NoReq == [op |-> "none"]
NoWrite == [what |-> "none"]
Idle == [st |-> "idle", claim |-> NoKey, req |-> NoReq, rsp |-> "none", asks |-> 0, conns |-> 0]
Off == [on |-> FALSE]

ASSUME ServiceAssumption ==
  /\ Subject \subseteq Nat \ {0} /\ IsFiniteSet(Subject)
  /\ KeyOf \in [Client -> Key] /\ NoKey \notin Key
  /\ MaxRecords \in Nat

----------------------------------------------------------------------------
(* The operator: peercmd.rs *)

Init ==
  /\ dir = [clients |-> [s \in Subject |-> NoKey], acl |-> [s \in Subject |-> {}]]
  /\ peer = Off
  /\ store = [held |-> {}, damaged |-> {}]
  /\ leases = [s \in Subject \cup {Unknown} |-> {}]
  /\ done = NoWrite /\ queue = <<>> /\ conn = NoConn
  /\ link = [c \in Client |-> Idle]
  /\ push = [c \in Client |-> "none"]
  /\ ops = 0

Operate == ops < MaxOps /\ ops' = ops + 1

\* allow: the subject's key file is written, or replaced.
Allow(s, k) ==
  /\ Operate
  /\ dir.clients[s] # k
  /\ dir' = [dir EXCEPT !.clients[s] = k]
  /\ UNCHANGED <<peer, store, leases, done, queue, conn, link, push>>

\* grant: the access list is loaded, extended and renamed into place.
Grant(s, r) ==
  /\ Operate
  /\ r \notin dir.acl[s]
  /\ dir' = [dir EXCEPT !.acl[s] = @ \cup {r}]
  /\ UNCHANGED <<peer, store, leases, done, queue, conn, link, push>>

\* serve: everything is loaded once.  A peer that serves again has lost its
\* connections and kept its store.
Serve(m) ==
  /\ Operate
  /\ peer' = [on |-> TRUE, clients |-> dir.clients, acl |-> dir.acl, mode |-> m]
  /\ queue' = <<>> /\ conn' = NoConn /\ done' = NoWrite
  /\ link' = [c \in Client |-> [Idle EXCEPT !.conns = link[c].conns]]
  /\ push' = [c \in Client |-> IF push[c] \in {"present", "sent"} THEN push[c] ELSE "none"]
  /\ UNCHANGED <<dir, store, leases>>

\* A blob's file is damaged where it lies.
Damage(a) ==
  /\ Operate
  /\ a \in store.held
  /\ store' = [store EXCEPT !.held = @ \ {a}, !.damaged = @ \cup {a}]
  /\ UNCHANGED <<dir, peer, leases, done, queue, conn, link, push>>

----------------------------------------------------------------------------
(* Sessions: session.rs and the accept loop *)

\* connect: the hello claims a key; the socket waits to be accepted.
Connect(c, k) ==
  /\ peer.on /\ link[c].st = "idle" /\ link[c].conns < MaxConns
  /\ queue' = Append(queue, c)
  /\ link' = [link EXCEPT ![c].st = "waiting", ![c].claim = k, ![c].conns = @ + 1]
  /\ UNCHANGED <<dir, peer, store, leases, done, conn, push, ops>>

Closed(c) == [link EXCEPT ![c] = [Idle EXCEPT !.conns = link[c].conns]]
Ends(c) == [push EXCEPT ![c] = IF @ \in {"present", "sent", "refused"} THEN @ ELSE "none"]

\* Mutant: the key the hello claims is believed.
RespondTrusting(c) == link[c].claim \in {peer.clients[s] : s \in Subject}

\* accept_from and respond: the key of the hello is on the list, and the
\* handshake proves it.
Respond(c) ==
  /\ link[c].claim \in {peer.clients[s] : s \in Subject}
  /\ link[c].claim = KeyOf[c]

\* subject_for: bind_subject went through the names in order, the last one
\* bound to a key has it.
SubjectFor(k) ==
  LET bound == {s \in Subject : peer.clients[s] = k} IN
    IF bound = {} THEN Unknown ELSE CHOOSE s \in bound : \A t \in bound : t <= s

\* The loop takes the next socket and reads a hello that may never come.
Accept ==
  /\ peer.on /\ conn = NoConn /\ queue # <<>>
  /\ queue' = Tail(queue)
  /\ conn' = [client |-> Head(queue), subject |-> Unknown]
  /\ link' = [link EXCEPT ![Head(queue)].st = "greeting"]
  /\ done' = NoWrite
  /\ UNCHANGED <<dir, peer, store, leases, push, ops>>

\* The hello arrives: a session of the subject bound to its key, or a refusal.
Greet(c) ==
  /\ conn # NoConn /\ conn.client = c /\ link[c].st = "greeting"
  /\ IF Respond(c)
     THEN /\ conn' = [client |-> c, subject |-> SubjectFor(link[c].claim)]
          /\ link' = [link EXCEPT ![c].st = "open"]
     ELSE conn' = NoConn /\ link' = Closed(c)
  /\ UNCHANGED <<dir, peer, store, leases, done, queue, push, ops>>

Ask(c, r) ==
  /\ conn.client = c /\ link[c].st = "open" /\ link[c].asks < MaxAsks[c]
  /\ link' = [link EXCEPT ![c].st = "asked", ![c].req = r, ![c].asks = @ + 1]
  /\ UNCHANGED <<dir, peer, store, leases, done, queue, conn, ops>>

\* Mutant: the timeouts are set once the handshake is done.
LeaveAfterHello ==
  LET c == conn.client IN
  /\ conn # NoConn /\ link[c].st \in {"open", "answered"}
  /\ conn' = NoConn
  /\ IF link[c].st = "answered" THEN UNCHANGED <<link, push>>
     ELSE link' = Closed(c) /\ push' = Ends(c)
  /\ UNCHANGED <<dir, peer, store, leases, done, queue, ops>>

\* The client closes, or a read of the hello or of the next request expires
\* after IO_TIMEOUT.  An answer that was sent can still be read.
Leave ==
  LET c == conn.client IN
  /\ conn # NoConn /\ link[c].st \in {"greeting", "open", "answered"}
  /\ conn' = NoConn
  /\ IF link[c].st = "answered" THEN UNCHANGED <<link, push>>
     ELSE link' = Closed(c) /\ push' = Ends(c)
  /\ UNCHANGED <<dir, peer, store, leases, done, queue, ops>>

----------------------------------------------------------------------------
(* The access list: acl.rs *)

\* Right::enforceable_in and Acl::check.
Check(s, right) ==
  IF right = "read" /\ peer.mode # "transit-only" THEN "not-enforceable"
  ELSE IF s = Unknown \/ peer.acl[s] = {} THEN "unknown-subject"
  ELSE IF right \in peer.acl[s] THEN "allowed" ELSE "denied"

\* Mutant: whoever is not denied may go on.
PermitsUnknown(decision) == decision # "denied"

\* Decision::permits
Permits(decision) == decision = "allowed"

----------------------------------------------------------------------------
(* The dispatch: server.rs *)

\* Requests that the dispatch treats alike.
Submissions == {"witness", "handoff", "checkpoint", "approval", "execute", "forget"}
Lookups == {"slot-head", "delete-record"}
Lists == {"witnesses", "slot-history", "handoffs", "checkpoints", "approvals"}

Answer(rsp) == [rsp |-> rsp, store |-> store, leases |-> leases, done |-> NoWrite]
Did(what, a) ==
  [a EXCEPT !.done = [what |-> what, as |-> conn.subject, by |-> conn.client]]

\* BlobStore::put: what is there is verified, and written again if it is not
\* intact; the write may fail.
Put(a, taken) ==
  IF taken
  THEN [Answer("stored") EXCEPT !.store = [held |-> store.held \cup {a}, damaged |-> store.damaged \ {a}]]
  ELSE Answer("error")

\* has_blob and prove, of an honest peer and of one that claims everything.
Has(a) == a \in store.held \cup store.damaged \/ peer.mode = "dedup-lie"
Prove(a) == Answer(IF a \in store.held THEN "proof" ELSE "error")

\* get_blob verifies what it reads, and may lie about it.
Get(a) ==
  Answer(IF peer.mode = "withhold" \/ a \notin store.held THEN "error"
         ELSE IF peer.mode = "tamper" THEN "tampered" ELSE "blob")

\* A signed record or statement that needs no right of whoever brings it: the
\* store takes it or refuses it (witness, handoff, checkpoint, approval,
\* execution, a retention to forget).
Submit(taken) == Answer(IF taken THEN "ok" ELSE "error")

PublishSlot(taken) ==
  IF taken /\ (Permits(Check(conn.subject, "write")) \/ Permits(Check(conn.subject, "append")))
  THEN Did("slot", Answer("ok")) ELSE Answer("error")

\* The request's hash comes back as a Proof.
PublishDeleteRequest(taken) ==
  IF Permits(Check(conn.subject, "delete-request")) /\ taken
  THEN Did("delete", Answer("proof")) ELSE Answer("error")

\* All the addresses or none: the peer holds each, and the quota is kept.
\* A record that cannot be written after its entry was made is PeerGC's.
TakeLease(A, taken) ==
  IF A \subseteq store.held \cup store.damaged /\ taken
  THEN Did("lease", [Answer("ok") EXCEPT !.leases[conn.subject] = @ \cup A])
  ELSE Answer("error")

\* What is not leased is ignored; only the list's write can fail.
ReleaseLease(A, taken) ==
  Did("lease", [Submit(taken) EXCEPT !.leases[conn.subject] = @ \ A])

\* leases_of, as a list of addresses: one that is too long does not encode.
Leases ==
  Answer(IF Cardinality(leases[conn.subject]) > MaxRecords THEN "unsendable" ELSE "addrs")

\* Those leases whose blobs the next sweep would take, all of them at most.
SweepWarnings(all) == IF all THEN Leases ELSE Answer("addrs")

\* bounded: as many records as fit.
Bounded == Answer("records")

\* handle_at
Handle(r, taken) ==
  IF peer.mode = "witness" /\ r.op \notin {"witness", "witnesses"} THEN Answer("error")
  ELSE CASE r.op = "get" -> Get(r.addr)
         [] r.op = "has" -> Answer(IF Has(r.addr) THEN "true" ELSE "false")
         [] r.op = "put" -> Put(r.addr, taken)
         [] r.op = "prove" -> Prove(r.addr)
         [] r.op = "slot" -> PublishSlot(taken)
         [] r.op = "delete" -> PublishDeleteRequest(taken)
         [] r.op = "lease" -> TakeLease({r.addr}, taken)
         [] r.op = "release" -> ReleaseLease({r.addr}, taken)
         [] r.op = "leases" -> Leases
         [] r.op = "warnings" -> SweepWarnings(taken)
         [] r.op \in Submissions -> Submit(taken)
         [] r.op \in Lookups -> Answer("record")
         [] r.op \in Lists -> Bounded

\* One turn of serve: the answer is sent, or the connection ends with it.
ReplyWith(taken) ==
  LET c == conn.client
      a == Handle(link[c].req, taken)
  IN
  /\ conn # NoConn /\ link[c].st = "asked"
  /\ store' = a.store /\ leases' = a.leases /\ done' = a.done
  /\ IF a.rsp = "unsendable"
     THEN conn' = NoConn /\ link' = Closed(c) /\ push' = Ends(c)
     ELSE /\ link' = [link EXCEPT ![c].st = "answered", ![c].rsp = a.rsp]
          /\ UNCHANGED <<conn, push>>
  /\ UNCHANGED <<dir, peer, queue, ops>>

Reply == \E taken \in BOOLEAN : ReplyWith(taken)

----------------------------------------------------------------------------
(* The client: push_blob, and any other request *)

\* A response is read; the request and its response belong together.  The
\* connection may have been left at the peer's end meanwhile.
Read(c) ==
  /\ link[c].st = "answered"
  /\ link' = IF conn.client = c
              THEN [link EXCEPT ![c].st = "open", ![c].req = NoReq, ![c].rsp = "none"]
              ELSE Closed(c)
  /\ UNCHANGED <<dir, peer, store, leases, done, queue, conn, ops>>

\* Mutant: the peer's word that it holds the blob is enough.
NextOfPushTrusting(op, rsp) ==
  CASE op = "has" /\ rsp = "true" -> "present"
    [] op = "has" /\ rsp = "false" -> "put"
    [] op = "put" /\ rsp = "stored" -> "sent"
    [] OTHER -> "refused"

\* push_blob: a claim is to be proved, an absence is to be filled.
NextOfPush(op, rsp) ==
  CASE op = "has" /\ rsp = "true" -> "prove"
    [] op = "has" /\ rsp = "false" -> "put"
    [] op = "prove" /\ rsp = "proof" -> "present"
    [] op = "put" /\ rsp = "stored" -> "sent"
    [] OTHER -> "refused"

Pushing == {"has", "prove", "put"}

PushBlob(c, a) == push[c] = "none" /\ Ask(c, [op |-> "has", addr |-> a]) /\ push' = [push EXCEPT ![c] = "has"]

\* The answer to a step of the push decides the next, which is asked at once
\* or, the peer having left, fails; the last one is read.
PushReads(c) ==
  /\ link[c].st = "answered" /\ push[c] \in Pushing
  /\ LET n == NextOfPush(link[c].req.op, link[c].rsp) IN
       IF n \in Pushing /\ conn.client = c
       THEN /\ push' = [push EXCEPT ![c] = n]
            /\ link' = [link EXCEPT ![c].st = "asked", ![c].req.op = n, ![c].rsp = "none"]
            /\ UNCHANGED <<dir, peer, store, leases, done, queue, conn, ops>>
       ELSE push' = [push EXCEPT ![c] = IF n \in Pushing THEN "none" ELSE n] /\ Read(c)

Requests ==
  {r \in [op : {"get", "put", "lease", "release"}, addr : Addr]
           \cup [op : {"slot", "delete", "leases", "warnings"} \cup Submissions \cup Lookups \cup Lists] :
     r.op \in Kinds}

Next ==
  \/ \E s \in Subject, k \in Key : Allow(s, k)
  \/ \E s \in Subject, r \in Right : Grant(s, r)
  \/ \E m \in Modes : Serve(m)
  \/ \E a \in Addr : Damage(a)
  \/ \E c \in Client, k \in Key : Connect(c, k)
  \/ Accept \/ Leave \/ Reply
  \/ \E c \in Client :
       \/ Greet(c)
       \/ \E r \in Requests : Ask(c, r) /\ push[c] \notin Pushing /\ UNCHANGED push
       \/ push[c] \notin Pushing /\ Read(c) /\ UNCHANGED push
       \/ \E a \in Addr : PushBlob(c, a)
       \/ PushReads(c)

\* The peer's loop goes on: it accepts, answers what it was asked, and its
\* reads time out.  Nothing is assumed of a client: it may say nothing from the
\* hello on, or leave an answer unread.
Fairness == WF_vars(Accept) /\ WF_vars(Reply) /\ WF_vars(Leave)

Spec == Init /\ [][Next]_vars /\ Fairness

----------------------------------------------------------------------------
(* Properties *)

\* The rights of which a write needs one; a lease needs none.
Needs == [slot |-> {"write", "append"}, delete |-> {"delete-request"}, lease |-> {}]

\* Who really asked holds the key the subject was bound to when the peer
\* started, and the operator had granted that subject the right: no claim in a
\* hello, no name shared by keys and no grant made meanwhile gets around it
\* (accept_from, subject_for, check).
WritesAreAuthorised ==
  done # NoWrite =>
    /\ done.as # Unknown => peer.clients[done.as] = KeyOf[done.by]
    /\ Needs[done.what] # {} => done.as # Unknown /\ dir.acl[done.as] \cap Needs[done.what] # {}

\* A push that ends well leaves the blob at the peer, whatever the peer claimed
\* on the way (intact, or damaged since it answered).
PushedIsHeld ==
  [][\A c \in Client :
       push'[c] # push[c] /\ push'[c] \in {"present", "sent"} =>
         link[c].req.addr \in store.held \cup store.damaged]_vars

\* Whoever connects has its socket accepted in the end: a client that stalls,
\* before its hello, between requests or before reading an answer, keeps the
\* others out no longer than a read timeout (read_frame, set_timeouts).  A client
\* that never stops asking, or sends a frame byte by byte, does: MaxAsks bounds
\* the requests of a connection, and a frame arrives whole or not at all.  That
\* who waits has a read timeout of its own can only make the wait shorter.
NobodyWaitsForever == \A c \in Client : link[c].st = "waiting" ~> link[c].st # "waiting"
=============================================================================
