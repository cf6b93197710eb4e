-------------------------- MODULE PeerService_proofs --------------------------
(***************************************************************************)
(* PeerService for every set of clients, keys, subjects and rights and     *)
(* every bound: the write a peer accepts was asked for by the holder of    *)
(* the key its subject is bound to, under a right the operator granted,    *)
(* and a push that ends well leaves the blob at the peer.                  *)
(***************************************************************************)
EXTENDS PeerService, FiniteSetTheorems, SequenceTheorems, TLAPS

Addressed == {"get", "has", "put", "prove", "lease", "release"}
Plain == {"none", "slot", "delete", "leases", "warnings"} \cup Submissions \cup Lookups \cup Lists
Req == [op : Addressed, addr : Addr] \cup [op : Plain]
Rsp == {"none", "stored", "error", "proof", "blob", "tampered", "ok", "unsendable", "addrs",
        "record", "records", "true", "false"}
Steps == {"none", "has", "prove", "put", "present", "sent", "refused"}
Link == [st : {"idle", "waiting", "greeting", "open", "asked", "answered"}, claim : Key \cup {NoKey},
         req : Req, rsp : Rsp, asks : Nat, conns : Nat]
Named == Subject \cup {Unknown}

\* What the proofs need to know of the types.
Types ==
  /\ dir \in [clients : [Subject -> Key \cup {NoKey}], acl : [Subject -> SUBSET Right]]
  /\ peer # Off =>
       peer \in [on : {TRUE}, clients : [Subject -> Key \cup {NoKey}],
                 acl : [Subject -> SUBSET Right], mode : Modes]
  /\ store \in [held : SUBSET Addr, damaged : SUBSET Addr]
  /\ leases \in [Named -> SUBSET Addr]
  /\ queue \in Seq(Client)
  /\ conn # NoConn => conn \in [client : Client, subject : Named]
  /\ link \in [Client -> Link]
  /\ push \in [Client -> Steps]
  /\ done # NoWrite => done \in [what : {"slot", "delete", "lease"}, as : Named, by : Client]

\* The connection is one the handshake proved, and only a serving peer has one;
\* rights are granted and never taken back, so what the peer loaded still holds.
SessionIsProved ==
  /\ conn # NoConn => /\ peer # Off
                      /\ conn.subject # Unknown => peer.clients[conn.subject] = KeyOf[conn.client]
  /\ peer # Off => \A s \in Subject : peer.acl[s] \subseteq dir.acl[s]

\* An accepted write is as the last answer left it.
WriteIsProved ==
  done # NoWrite =>
    /\ peer # Off
    /\ done.as # Unknown => peer.clients[done.as] = KeyOf[done.by]
    /\ done.what = "slot" => done.as # Unknown /\ dir.acl[done.as] \cap {"write", "append"} # {}
    /\ done.what = "delete" => done.as # Unknown /\ "delete-request" \in dir.acl[done.as]

\* A proof or a receipt a client has in hand was true when given and stays so.
AnswersHold ==
  \A c \in Client :
    link[c].st = "answered" =>
      /\ link[c].req.op = "prove" /\ link[c].rsp = "proof" =>
           link[c].req.addr \in store.held \cup store.damaged
      /\ link[c].req.op = "put" /\ link[c].rsp = "stored" =>
           link[c].req.addr \in store.held \cup store.damaged

\* Whoever waits for an answer has asked something.
AskedSomething ==
  \A c \in Client : link[c].st \in {"asked", "answered"} => link[c].req.op # "none"

IndInv == Types /\ AskedSomething /\ SessionIsProved /\ WriteIsProved /\ AnswersHold
-------------------------------------------------------------------------------
(* Least and greatest elements. *)

\* A set of naturals that is not empty has a least element: the natural order
\* is well-founded.
LEMMA LeastNat ==
  ASSUME NEW T \in SUBSET Nat, T # {}
  PROVE  \E x \in T : \A y \in T : x <= y
<1> DEFINE Less == {p \in Nat \X Nat : p[1] < p[2]}
<1>1. IsWellFoundedOn(OpToRel(<, Nat), Nat)
  BY NatLessThanWellFounded
<1>2. OpToRel(<, Nat) = Less
  BY DEF OpToRel
<1>3. IsWellFoundedOn(Less, Nat)
  BY <1>1, <1>2
<1> HIDE DEF Less
<1>4. PICK x \in T : \A y \in T : ~ (<<y, x>> \in Less)
  BY <1>3, WFMin
<1>5. ASSUME NEW y \in T PROVE x <= y
  <2>1. ~ (<<y, x>> \in Less) /\ x \in Nat /\ y \in Nat
    BY <1>4
  <2>2. <<y, x>> \in Nat \X Nat /\ <<y, x>>[1] = y /\ <<y, x>>[2] = x
    BY <2>1
  <2>3. ~(y < x)
    BY <2>1, <2>2 DEF Less
  <2> QED
    BY <2>3, <2>1
<1> QED
  BY <1>5

\* A finite set of naturals that is not empty has a greatest element: of those
\* without one, the smallest would lose an element and still have none.
LEMMA GreatestNat ==
  ASSUME NEW T \in SUBSET Nat, T # {}, IsFiniteSet(T)
  PROVE  \E x \in T : \A y \in T : y <= x
<1> DEFINE HasMax(S) == \E x \in S : \A y \in S : y <= x
           Sizes == {n \in Nat : \E S \in SUBSET Nat :
                       IsFiniteSet(S) /\ S # {} /\ Cardinality(S) = n /\ ~HasMax(S)}
<1>1. SUFFICES ASSUME ~HasMax(T) PROVE FALSE
  OBVIOUS
<1>2. Cardinality(T) \in Sizes
  BY <1>1, FS_CardinalityType
<1>3. PICK n \in Sizes : \A m \in Sizes : n <= m
  <2>1. Sizes \in SUBSET Nat /\ Sizes # {}
    BY <1>2
  <2> HIDE DEF Sizes
  <2> QED
    BY <2>1, LeastNat
<1>4. PICK S \in SUBSET Nat : IsFiniteSet(S) /\ S # {} /\ Cardinality(S) = n /\ ~HasMax(S)
  OBVIOUS
<1>5. PICK e \in S : TRUE
  BY <1>4
<1>6. IsFiniteSet(S \ {e}) /\ Cardinality(S \ {e}) = n - 1 /\ n - 1 \in Nat
  <2>1. IsFiniteSet(S \ {e}) /\ Cardinality(S \ {e}) = Cardinality(S) - 1
    BY <1>4, <1>5, FS_RemoveElement
  <2> QED
    BY <2>1, <1>4, FS_CardinalityType
<1>7. S \ {e} # {}
  <2>1. S \ {e} = {} => HasMax(S)
    BY <1>5
  <2> QED
    BY <2>1, <1>4
<1>8. HasMax(S \ {e})
  <2>1. n - 1 \notin Sizes
    BY <1>3, <1>6
  <2> QED
    BY <2>1, <1>6, <1>7
<1>9. PICK x \in S \ {e} : \A y \in S \ {e} : y <= x
  BY <1>8
<1>10. HasMax(S)
  <2>1. CASE e <= x
    BY <2>1, <1>5, <1>9
  <2>2. CASE ~(e <= x)
    <3>1. \A y \in S : y <= e
      BY <2>2, <1>5, <1>9
    <3> QED
      BY <3>1, <1>5
  <2> QED
    BY <2>1, <2>2
<1> QED
  BY <1>4, <1>10

-------------------------------------------------------------------------------
(* What the helpers yield. *)

\* subject_for: the subject found for a key is bound to it.
LEMMA SubjectForBinds ==
  ASSUME NEW k
  PROVE  /\ SubjectFor(k) \in Named
         /\ SubjectFor(k) # Unknown => peer.clients[SubjectFor(k)] = k
<1> DEFINE bound == {s \in Subject : peer.clients[s] = k}
<1>1. CASE bound = {}
  BY <1>1 DEF SubjectFor, Named
<1>2. CASE bound # {}
  <2>1. bound \in SUBSET Nat /\ IsFiniteSet(bound)
    BY ServiceAssumption, FS_Subset
  <2>2. \E x \in bound : \A y \in bound : y <= x
    BY <1>2, <2>1, GreatestNat
  <2>3. SubjectFor(k) = CHOOSE s \in bound : \A t \in bound : t <= s
    BY <1>2 DEF SubjectFor
  <2>4. SubjectFor(k) \in bound
    BY <2>2, <2>3
  <2> QED
    BY <2>4 DEF Named
<1> QED
  BY <1>1, <1>2

\* check: what is allowed was granted to a known subject.
LEMMA PermitsGranted ==
  ASSUME Types, SessionIsProved, peer # Off, NEW s \in Named, NEW right, Permits(Check(s, right))
  PROVE  s # Unknown /\ s \in Subject /\ right \in dir.acl[s]
  BY DEF Types, SessionIsProved, Permits, Check, Named, Unknown

\* The parts of an answer that is sound for the connection being served.
SoundStore(q) ==
  /\ q \in [held : SUBSET Addr, damaged : SUBSET Addr]
  /\ store.held \cup store.damaged \subseteq q.held \cup q.damaged
SoundWrite(d) ==
  d # NoWrite =>
    /\ d \in [what : {"slot", "delete", "lease"}, as : Named, by : Client]
    /\ d.as = conn.subject /\ d.by = conn.client
    /\ d.what = "slot" =>
         conn.subject # Unknown /\ dir.acl[conn.subject] \cap {"write", "append"} # {}
    /\ d.what = "delete" =>
         conn.subject # Unknown /\ "delete-request" \in dir.acl[conn.subject]
Sound(a) ==
  /\ a.rsp \in Rsp
  /\ SoundStore(a.store)
  /\ a.leases \in [Named -> SUBSET Addr]
  /\ SoundWrite(a.done)

\* handle_at: what an answer may be, whatever was asked.
LEMMA HandleYields ==
  ASSUME IndInv, conn # NoConn, NEW r \in Req, r.op # "none", NEW taken \in BOOLEAN
  PROVE  /\ Sound(Handle(r, taken))
         /\ r.op = "prove" /\ Handle(r, taken).rsp = "proof" =>
              r.addr \in Handle(r, taken).store.held \cup Handle(r, taken).store.damaged
         /\ r.op = "put" /\ Handle(r, taken).rsp = "stored" =>
              r.addr \in Handle(r, taken).store.held \cup Handle(r, taken).store.damaged
<1>0. /\ r.op \in Addressed \cup Plain
      /\ r.op \in Addressed => r.addr \in Addr
  BY DEF Req, Addressed, Plain, Submissions, Lookups, Lists
<1>1. /\ conn.subject \in Named /\ conn.client \in Client /\ peer # Off
      /\ store \in [held : SUBSET Addr, damaged : SUBSET Addr]
      /\ leases \in [Named -> SUBSET Addr]
      /\ Types /\ SessionIsProved
  BY DEF IndInv, Types, SessionIsProved
<1>2. SoundStore(store) /\ SoundWrite(NoWrite)
  BY <1>1 DEF SoundStore, SoundWrite
<1>3. ASSUME NEW rsp \in Rsp PROVE Sound(Answer(rsp))
  BY <1>1, <1>2 DEF Answer, Sound
<1>4. ASSUME r.op = "put"
      PROVE  /\ Sound(Put(r.addr, taken))
             /\ Put(r.addr, taken).rsp = "stored" => r.addr \in Put(r.addr, taken).store.held
  <2> DEFINE q == [held |-> store.held \cup {r.addr}, damaged |-> store.damaged \ {r.addr}]
  <2>0. CASE taken
    <3>0. Put(r.addr, taken) = [Answer("stored") EXCEPT !.store = q]
      BY <2>0 DEF Put
    <3>1. Put(r.addr, taken) = [rsp |-> "stored", store |-> q, leases |-> leases, done |-> NoWrite]
      <4> HIDE DEF q
      <4> QED
        BY <3>0 DEF Answer
    <3>2. SoundStore(q) /\ r.addr \in q.held
      BY <1>1, <1>4, <1>0 DEF SoundStore, Addressed
    <3> QED
      BY <3>1, <3>2, <1>1, <1>2 DEF Sound, Rsp
  <2>1. CASE ~taken
    <3>1. Put(r.addr, taken) = Answer("error") /\ Answer("error").rsp = "error"
      BY <2>1 DEF Put, Answer
    <3> QED
      BY <3>1, <1>3 DEF Rsp
  <2> QED
    BY <2>0, <2>1
<1>5. ASSUME NEW what, NEW rsp \in Rsp, NEW l \in [Named -> SUBSET Addr],
             SoundWrite([what |-> what, as |-> conn.subject, by |-> conn.client])
      PROVE  Sound(Did(what, [Answer(rsp) EXCEPT !.leases = l]))
  <2> DEFINE d == [what |-> what, as |-> conn.subject, by |-> conn.client]
  <2>1. [Answer(rsp) EXCEPT !.leases = l] =
          [rsp |-> rsp, store |-> store, leases |-> l, done |-> NoWrite]
    BY DEF Answer
  <2>2. Did(what, [Answer(rsp) EXCEPT !.leases = l]) =
          [[rsp |-> rsp, store |-> store, leases |-> l, done |-> NoWrite] EXCEPT !.done = d]
    BY <2>1 DEF Did
  <2>3. Did(what, [Answer(rsp) EXCEPT !.leases = l]) =
          [rsp |-> rsp, store |-> store, leases |-> l, done |-> d]
    <3> HIDE DEF d
    <3> QED
      BY <2>2
  <2> QED
    BY <2>3, <1>1, <1>2, <1>5 DEF Sound
<1>6. ASSUME NEW rsp PROVE [Answer(rsp) EXCEPT !.leases = leases] = Answer(rsp)
  BY DEF Answer
<1>7. Sound(PublishSlot(taken))
  <2>1. CASE ~(taken /\ (Permits(Check(conn.subject, "write")) \/ Permits(Check(conn.subject, "append"))))
    <3>1. PublishSlot(taken) = Answer("error")
      BY <2>1 DEF PublishSlot
    <3> QED
      BY <3>1, <1>3 DEF Rsp
  <2>2. CASE taken /\ (Permits(Check(conn.subject, "write")) \/ Permits(Check(conn.subject, "append")))
    <3>1. conn.subject # Unknown /\ dir.acl[conn.subject] \cap {"write", "append"} # {}
      BY <2>2, <1>1, PermitsGranted
    <3>2. PublishSlot(taken) = Did("slot", Answer("ok"))
      BY <2>2 DEF PublishSlot
    <3>3. SoundWrite([what |-> "slot", as |-> conn.subject, by |-> conn.client])
      BY <3>1, <1>1 DEF SoundWrite
    <3>4. "ok" \in Rsp
      BY DEF Rsp
    <3>5. Sound(Did("slot", [Answer("ok") EXCEPT !.leases = leases]))
      BY <3>3, <3>4, <1>1, <1>5
    <3> QED
      BY <3>2, <3>5, <1>6
  <2> QED
    BY <2>1, <2>2
<1>8. Sound(PublishDeleteRequest(taken))
  <2>1. CASE ~(Permits(Check(conn.subject, "delete-request")) /\ taken)
    <3>1. PublishDeleteRequest(taken) = Answer("error")
      BY <2>1 DEF PublishDeleteRequest
    <3> QED
      BY <3>1, <1>3 DEF Rsp
  <2>2. CASE Permits(Check(conn.subject, "delete-request")) /\ taken
    <3>1. conn.subject # Unknown /\ "delete-request" \in dir.acl[conn.subject]
      BY <2>2, <1>1, PermitsGranted
    <3>2. PublishDeleteRequest(taken) = Did("delete", Answer("proof"))
      BY <2>2 DEF PublishDeleteRequest
    <3>3. SoundWrite([what |-> "delete", as |-> conn.subject, by |-> conn.client])
      BY <3>1, <1>1 DEF SoundWrite
    <3>4. "proof" \in Rsp
      BY DEF Rsp
    <3>5. Sound(Did("delete", [Answer("proof") EXCEPT !.leases = leases]))
      BY <3>3, <3>4, <1>1, <1>5
    <3> QED
      BY <3>2, <3>5, <1>6
  <2> QED
    BY <2>1, <2>2
<1>9. ASSUME r.op = "lease" PROVE Sound(TakeLease({r.addr}, taken))
  <2> DEFINE l == [leases EXCEPT ![conn.subject] = @ \cup {r.addr}]
  <2>1. CASE ~({r.addr} \subseteq store.held \cup store.damaged /\ taken)
    <3>1. TakeLease({r.addr}, taken) = Answer("error")
      BY <2>1 DEF TakeLease
    <3> QED
      BY <3>1, <1>3 DEF Rsp
  <2>2. CASE {r.addr} \subseteq store.held \cup store.damaged /\ taken
    <3>1. l \in [Named -> SUBSET Addr]
      BY <1>1, <1>9, <1>0 DEF Addressed
    <3>2. [Answer("ok") EXCEPT !.leases[conn.subject] = @ \cup {r.addr}]
            = [Answer("ok") EXCEPT !.leases = l]
      BY DEF Answer
    <3>3. TakeLease({r.addr}, taken) = Did("lease", [Answer("ok") EXCEPT !.leases = l])
      BY <2>2, <3>2 DEF TakeLease
    <3>4. SoundWrite([what |-> "lease", as |-> conn.subject, by |-> conn.client])
      BY <1>1 DEF SoundWrite
    <3> QED
      <4>1. "ok" \in Rsp
        BY DEF Rsp
      <4> HIDE DEF l
      <4>2. Sound(Did("lease", [Answer("ok") EXCEPT !.leases = l]))
        BY <3>1, <3>4, <4>1, <1>5
      <4> QED
        BY <3>3, <4>2
  <2> QED
    BY <2>1, <2>2
<1>10. /\ Sound(Leases) /\ Sound(SweepWarnings(taken)) /\ Sound(Bounded)
       /\ Sound(Submit(taken)) /\ Sound(Answer("record"))
  BY <1>3 DEF Leases, SweepWarnings, Bounded, Submit, Rsp
<1>16. ASSUME r.op = "release" PROVE Sound(ReleaseLease({r.addr}, taken))
  <2> DEFINE l == [leases EXCEPT ![conn.subject] = @ \ {r.addr}]
  <2>1. l \in [Named -> SUBSET Addr]
    BY <1>1
  <2>2. PICK rsp \in Rsp : Submit(taken) = Answer(rsp)
    BY DEF Submit, Rsp
  <2>3. [Submit(taken) EXCEPT !.leases[conn.subject] = @ \ {r.addr}]
          = [Answer(rsp) EXCEPT !.leases = l]
    BY <2>2 DEF Answer
  <2>4. ReleaseLease({r.addr}, taken) = Did("lease", [Answer(rsp) EXCEPT !.leases = l])
    BY <2>3 DEF ReleaseLease
  <2>5. SoundWrite([what |-> "lease", as |-> conn.subject, by |-> conn.client])
    BY <1>1 DEF SoundWrite
  <2> QED
    <3> HIDE DEF l
    <3>1. Sound(Did("lease", [Answer(rsp) EXCEPT !.leases = l]))
      BY <2>1, <2>2, <2>5, <1>5
    <3> QED
      BY <2>4, <3>1
<1>11. /\ Sound(Get(r.addr)) /\ Sound(Prove(r.addr))
       /\ Sound(Answer(IF Has(r.addr) THEN "true" ELSE "false"))
  BY <1>3 DEF Get, Prove, Rsp
<1>12. Sound(Handle(r, taken))
  BY <1>0, <1>3, <1>4, <1>7, <1>8, <1>9, <1>10, <1>11, <1>16
  DEF Handle, Addressed, Plain, Rsp
<1>13. Answer("error").rsp = "error"
  BY DEF Answer
<1>14. ASSUME r.op = "prove", Handle(r, taken).rsp = "proof"
       PROVE  r.addr \in Handle(r, taken).store.held \cup Handle(r, taken).store.damaged
  <2>1. Handle(r, taken) = Prove(r.addr)
    BY <1>13, <1>14 DEF Handle, Submissions, Lookups, Lists
  <2> QED
    BY <2>1, <1>1, <1>14 DEF Prove, Answer
<1>15. ASSUME r.op = "put", Handle(r, taken).rsp = "stored"
       PROVE  r.addr \in Handle(r, taken).store.held \cup Handle(r, taken).store.damaged
  <2>1. Handle(r, taken) = Put(r.addr, taken)
    BY <1>13, <1>15 DEF Handle, Submissions, Lookups, Lists
  <2> QED
    BY <2>1, <1>4, <1>15
<1> QED
  BY <1>12, <1>14, <1>15

-------------------------------------------------------------------------------
(* The inductive step. *)

LEMMA InitHolds == Init => IndInv
<1> SUFFICES ASSUME Init PROVE IndInv
  OBVIOUS
<1> USE DEF Init
<1>1. Idle \in Link
  BY DEF Idle, NoReq, Link, Req, Plain, Rsp
<1>2. Types
  BY <1>1, ServiceAssumption DEF Types, Named, Steps
<1>3. AskedSomething /\ AnswersHold
  BY DEF AskedSomething, AnswersHold, Idle
<1>4. SessionIsProved /\ WriteIsProved
  BY DEF SessionIsProved, WriteIsProved
<1> QED
  BY <1>2, <1>3, <1>4 DEF IndInv

\* A connection that ends leaves its client as it was before connecting.
LEMMA ClosedIsIdle ==
  ASSUME Types, NEW c \in Client
  PROVE  /\ Closed(c) \in [Client -> Link] /\ Ends(c) \in [Client -> Steps]
         /\ Closed(c)[c].st = "idle"
         /\ \A b \in Client : b # c => Closed(c)[b] = link[b]
<1>1. [Idle EXCEPT !.conns = link[c].conns] \in Link
  BY DEF Idle, NoReq, Link, Req, Plain, Rsp, Types
<1>2. [Idle EXCEPT !.conns = link[c].conns].st = "idle"
  BY DEF Idle
<1> QED
  BY <1>1, <1>2 DEF Closed, Ends, Types, Steps

\* The operator: peercmd.rs
LEMMA OperatorKeeps ==
  ASSUME IndInv,
         \/ \E s \in Subject, k \in Key : Allow(s, k)
         \/ \E s \in Subject, r \in Right : Grant(s, r)
         \/ \E m \in Modes : Serve(m)
         \/ \E a \in Addr : Damage(a)
  PROVE  IndInv'
<1> USE DEF IndInv
<1>1. ASSUME NEW s \in Subject, NEW k \in Key, Allow(s, k) PROVE IndInv'
  <2>1. dir'.acl = dir.acl /\ Types'
    BY <1>1 DEF Allow, Types
  <2> QED
    BY <2>1, <1>1 DEF Allow, AskedSomething, SessionIsProved, WriteIsProved, AnswersHold
<1>2. ASSUME NEW s \in Subject, NEW r \in Right, Grant(s, r) PROVE IndInv'
  <2>1. Types' /\ \A t \in Subject : dir.acl[t] \subseteq dir'.acl[t]
    BY <1>2 DEF Grant, Types
  <2>2. SessionIsProved' /\ AskedSomething' /\ AnswersHold'
    BY <2>1, <1>2 DEF Grant, AskedSomething, SessionIsProved, AnswersHold
  <2>3. WriteIsProved'
    BY <2>1, <1>2 DEF Grant, WriteIsProved, Types, Named
  <2> QED
    BY <2>1, <2>2, <2>3
<1>3. ASSUME NEW m \in Modes, Serve(m) PROVE IndInv'
  <2>1. \A c \in Client : link'[c] \in Link /\ link'[c].st = "idle"
    BY <1>3 DEF Serve, Types, Idle, NoReq, Link, Req, Plain, Rsp
  <2>2. Types'
    BY <2>1, <1>3 DEF Serve, Types, Off, Steps
  <2>3. SessionIsProved' /\ WriteIsProved'
    BY <1>3 DEF Serve, SessionIsProved, WriteIsProved
  <2> QED
    BY <2>1, <2>2, <2>3 DEF AskedSomething, AnswersHold
<1>4. ASSUME NEW a \in Addr, Damage(a) PROVE IndInv'
  <2>1. /\ store' \in [held : SUBSET Addr, damaged : SUBSET Addr]
        /\ store.held \cup store.damaged \subseteq store'.held \cup store'.damaged
    BY <1>4 DEF Damage, Types
  <2>2. Types' /\ SessionIsProved' /\ WriteIsProved' /\ AskedSomething'
    BY <2>1, <1>4 DEF Damage, Types, SessionIsProved, WriteIsProved, AskedSomething
  <2>3. AnswersHold'
    BY <2>1, <1>4 DEF Damage, AnswersHold
  <2> QED
    BY <2>2, <2>3
<1> QED
  BY <1>1, <1>2, <1>3, <1>4

\* Sessions and the dispatch: session.rs, server.rs
LEMMA PeerKeeps ==
  ASSUME IndInv, Accept \/ Leave \/ Reply \/ \E c \in Client : Greet(c)
  PROVE  IndInv'
<1> USE DEF IndInv
<1>1. ASSUME Accept PROVE IndInv'
  <2> DEFINE c == Head(queue)
  <2>1. c \in Client /\ Tail(queue) \in Seq(Client) /\ peer # Off
    BY <1>1 DEF Accept, Types, Off
  <2>2. /\ conn' = [client |-> c, subject |-> Unknown]
        /\ link' = [link EXCEPT ![c].st = "greeting"]
        /\ queue' = Tail(queue) /\ done' = NoWrite
        /\ UNCHANGED <<dir, peer, store, leases, push>>
    BY <1>1 DEF Accept
  <2> HIDE DEF c
  <2>3. link' \in [Client -> Link] /\ link'[c].st = "greeting" /\ \A b \in Client : b # c => link'[b] = link[b]
    <3>1. link[c] \in Link /\ link'[c] = [link[c] EXCEPT !.st = "greeting"]
      BY <2>1, <2>2 DEF Types
    <3>2. link'[c] \in Link /\ link'[c].st = "greeting"
      BY <3>1 DEF Link
    <3> QED
      BY <2>1, <2>2, <3>2 DEF Types
  <2>4. Types'
    BY <2>1, <2>2, <2>3 DEF Types, Named
  <2>5. SessionIsProved' /\ WriteIsProved'
    BY <2>1, <2>2 DEF SessionIsProved, WriteIsProved
  <2>6. AskedSomething' /\ AnswersHold'
    BY <2>2, <2>3 DEF AskedSomething, AnswersHold
  <2> QED
    BY <2>4, <2>5, <2>6
<1>5. ASSUME NEW c \in Client, Greet(c) PROVE IndInv'
  <2>1. UNCHANGED <<dir, peer, store, leases, done, queue, push>> /\ peer # Off
    BY <1>5 DEF Greet, SessionIsProved
  <2>2. CASE Respond(c)
    <3>1. /\ conn' = [client |-> c, subject |-> SubjectFor(link[c].claim)]
          /\ link' = [link EXCEPT ![c].st = "open"]
      BY <1>5, <2>2 DEF Greet
    <3>2. /\ conn'.client = c /\ conn'.subject \in Named
          /\ conn'.subject # Unknown => peer.clients[conn'.subject] = KeyOf[c]
      BY <3>1, <2>2, SubjectForBinds DEF Respond
    <3>3. link' \in [Client -> Link] /\ link'[c].st = "open" /\ \A b \in Client : b # c => link'[b] = link[b]
      <4>1. link[c] \in Link /\ link'[c] = [link[c] EXCEPT !.st = "open"]
        BY <3>1 DEF Types
      <4>2. link'[c] \in Link /\ link'[c].st = "open"
        BY <4>1 DEF Link
      <4> QED
        BY <3>1, <4>2 DEF Types
    <3>4. Types'
      BY <2>1, <3>1, <3>2, <3>3 DEF Types
    <3>5. SessionIsProved' /\ WriteIsProved'
      BY <2>1, <3>2 DEF SessionIsProved, WriteIsProved
    <3>6. AskedSomething' /\ AnswersHold'
      BY <2>1, <3>3 DEF AskedSomething, AnswersHold
    <3> QED
      BY <3>4, <3>5, <3>6
  <2>3. CASE ~Respond(c)
    <3>1. link' = Closed(c) /\ conn' = NoConn
      BY <1>5, <2>3 DEF Greet
    <3>2. Types'
      BY <2>1, <3>1, ClosedIsIdle DEF Types
    <3>3. SessionIsProved' /\ WriteIsProved'
      BY <2>1, <3>1 DEF SessionIsProved, WriteIsProved
    <3>4. AskedSomething' /\ AnswersHold'
      BY <2>1, <3>1, ClosedIsIdle DEF AskedSomething, AnswersHold
    <3> QED
      BY <3>2, <3>3, <3>4
  <2> QED
    BY <2>2, <2>3
<1>2. ASSUME NEW c \in Client, conn' = NoConn, link' = Closed(c), push' = Ends(c),
             UNCHANGED <<dir, peer, queue>>, Types, AskedSomething,
             store' \in [held : SUBSET Addr, damaged : SUBSET Addr],
             store.held \cup store.damaged \subseteq store'.held \cup store'.damaged,
             leases' \in [Named -> SUBSET Addr],
             done' # NoWrite =>
               done' \in [what : {"slot", "delete", "lease"}, as : Named, by : Client],
             WriteIsProved'
      PROVE  IndInv'
  <2>1. Types'
    BY <1>2, ClosedIsIdle DEF Types
  <2>2. SessionIsProved'
    BY <1>2 DEF SessionIsProved
  <2>4. Closed(c)[c].st = "idle" /\ \A b \in Client : b # c => Closed(c)[b] = link[b]
    BY <1>2, ClosedIsIdle
  <2>5. AskedSomething'
    BY <1>2, <2>4 DEF AskedSomething
  <2>3. AskedSomething' /\ AnswersHold'
    BY <1>2, <2>4, <2>5 DEF AnswersHold
  <2> QED
    BY <2>1, <2>2, <2>3, <1>2
<1>3. ASSUME Leave PROVE IndInv'
  <2>1. conn.client \in Client
    BY <1>3 DEF Leave, Types
  <2>2. WriteIsProved'
    BY <1>3 DEF Leave, WriteIsProved
  <2>3. CASE link[conn.client].st # "answered"
    BY <2>1, <2>2, <2>3, <1>2, <1>3 DEF Leave, Types
  <2>4. CASE link[conn.client].st = "answered"
    <3>1. conn' = NoConn /\ UNCHANGED <<dir, peer, store, leases, done, queue, link, push>>
      BY <1>3, <2>4 DEF Leave
    <3> QED
      BY <2>2, <3>1 DEF Types, AskedSomething, SessionIsProved, AnswersHold
  <2> QED
    BY <2>3, <2>4
<1>4. ASSUME Reply PROVE IndInv'
  <2>0. PICK taken \in BOOLEAN : ReplyWith(taken)
    BY <1>4 DEF Reply
  <2> DEFINE c == conn.client
             a == Handle(link[c].req, taken)
  <2>1. c \in Client /\ conn.subject \in Named /\ conn # NoConn /\ peer # Off
    BY <2>0 DEF ReplyWith, Types, SessionIsProved
  <2>2. link[c].req \in Req /\ link[c].req.op # "none"
    BY <2>0, <2>1 DEF ReplyWith, Types, Link, AskedSomething
  <2>3. /\ Sound(a)
        /\ link[c].req.op = "prove" /\ a.rsp = "proof" =>
             link[c].req.addr \in a.store.held \cup a.store.damaged
        /\ link[c].req.op = "put" /\ a.rsp = "stored" =>
             link[c].req.addr \in a.store.held \cup a.store.damaged
    BY <2>1, <2>2, HandleYields
  <2>4. store' = a.store /\ leases' = a.leases /\ done' = a.done /\ UNCHANGED <<dir, peer, queue>>
    BY <2>0 DEF ReplyWith
  <2> HIDE DEF a
  <2>5. /\ store' \in [held : SUBSET Addr, damaged : SUBSET Addr]
        /\ store.held \cup store.damaged \subseteq store'.held \cup store'.damaged
        /\ leases' \in [Named -> SUBSET Addr]
        /\ done' # NoWrite =>
             done' \in [what : {"slot", "delete", "lease"}, as : Named, by : Client]
    BY <2>3, <2>4 DEF Sound, SoundStore, SoundWrite
  <2>6. WriteIsProved'
    <3>1. done' # NoWrite =>
            /\ done'.as = conn.subject /\ done'.by = conn.client
            /\ done'.what = "slot" => done'.as # Unknown /\ dir.acl[done'.as] \cap {"write", "append"} # {}
            /\ done'.what = "delete" => done'.as # Unknown /\ "delete-request" \in dir.acl[done'.as]
      BY <2>3, <2>4 DEF Sound, SoundWrite
    <3>2. conn.subject # Unknown => peer.clients[conn.subject] = KeyOf[conn.client]
      BY <2>1 DEF SessionIsProved
    <3> QED
      BY <3>1, <3>2, <2>1, <2>4 DEF WriteIsProved
  <2>7. CASE a.rsp = "unsendable"
    <3>1. conn' = NoConn /\ link' = Closed(c) /\ push' = Ends(c)
      BY <2>0, <2>7 DEF ReplyWith, a
    <3> QED
      BY <3>1, <2>1, <2>4, <2>5, <2>6, <1>2
  <2>8. CASE a.rsp # "unsendable"
    <3>1. link' = [link EXCEPT ![c].st = "answered", ![c].rsp = a.rsp] /\ UNCHANGED <<conn, push>>
      BY <2>0, <2>8 DEF ReplyWith, a
    <3>2. a.rsp \in Rsp
      BY <2>3 DEF Sound
    <3>3. /\ link' \in [Client -> Link]
          /\ link'[c].req = link[c].req /\ link'[c].rsp = a.rsp
          /\ \A b \in Client : b # c => link'[b] = link[b]
      <4>1. link[c] \in Link /\ link'[c] = [link[c] EXCEPT !.st = "answered", !.rsp = a.rsp]
        BY <3>1, <2>1 DEF Types
      <4>2. link'[c] \in Link /\ link'[c].req = link[c].req /\ link'[c].rsp = a.rsp
        BY <4>1, <3>2 DEF Link
      <4> QED
        BY <3>1, <4>2, <2>1 DEF Types
    <3>4. Types'
      BY <3>1, <3>3, <2>4, <2>5 DEF Types
    <3>5. SessionIsProved'
      BY <3>1, <2>4 DEF SessionIsProved
    <3>6. AskedSomething'
      BY <3>3, <2>2 DEF AskedSomething
    <3>7. AnswersHold'
      <4> SUFFICES ASSUME NEW b \in Client, link'[b].st = "answered"
                   PROVE  /\ link'[b].req.op = "prove" /\ link'[b].rsp = "proof" =>
                               link'[b].req.addr \in store'.held \cup store'.damaged
                          /\ link'[b].req.op = "put" /\ link'[b].rsp = "stored" =>
                               link'[b].req.addr \in store'.held \cup store'.damaged
        BY DEF AnswersHold
      <4>1. CASE b = c
        BY <4>1, <3>3, <2>3, <2>4
      <4>2. CASE b # c
        BY <4>2, <3>3, <2>5 DEF AnswersHold
      <4> QED
        BY <4>1, <4>2
    <3> QED
      BY <3>4, <3>5, <3>6, <3>7, <2>6
  <2> QED
    BY <2>7, <2>8
<1> QED
  BY <1>1, <1>3, <1>4, <1>5

\* The clients: connect, ask, read, and the steps of push_blob.
LEMMA ClientKeeps ==
  ASSUME IndInv, NEW c \in Client,
         \/ \E k \in Key : Connect(c, k)
         \/ \E r \in Requests : Ask(c, r) /\ push[c] \notin Pushing /\ UNCHANGED push
         \/ push[c] \notin Pushing /\ Read(c) /\ UNCHANGED push
         \/ \E a \in Addr : PushBlob(c, a)
         \/ PushReads(c)
  PROVE  IndInv'
<1> USE DEF IndInv
<1>0. ASSUME UNCHANGED <<dir, peer, store, leases, done, conn>>, queue' \in Seq(Client),
             push' \in [Client -> Steps], link' \in [Client -> Link],
             \A b \in Client : b # c => link'[b] = link[b],
             link'[c].st # "answered",
             link'[c].st = "asked" => link'[c].req.op # "none"
      PROVE  IndInv'
  <2>1. Types'
    BY <1>0 DEF Types
  <2>2. SessionIsProved' /\ WriteIsProved'
    BY <1>0 DEF SessionIsProved, WriteIsProved
  <2>3. AskedSomething' /\ AnswersHold'
    BY <1>0 DEF AskedSomething, AnswersHold
  <2> QED
    BY <2>1, <2>2, <2>3
<1>1. ASSUME NEW k \in Key, Connect(c, k) PROVE IndInv'
  <2>1. /\ link' \in [Client -> Link] /\ link'[c].st = "waiting"
        /\ \A b \in Client : b # c => link'[b] = link[b]
    <3> DEFINE n == link[c].conns + 1
    <3>1. link[c] \in Link /\ link'[c] = [link[c] EXCEPT !.st = "waiting", !.claim = k, !.conns = n]
      BY <1>1 DEF Connect, Types
    <3>0. n \in Nat
      BY <3>1 DEF Link
    <3> HIDE DEF n
    <3>2. link'[c] \in Link /\ link'[c].st = "waiting"
      BY <3>0, <3>1 DEF Link
    <3> QED
      BY <1>1, <3>2 DEF Connect, Types
  <2>2. queue' = Append(queue, c) /\ queue \in Seq(Client) /\ push' = push /\ push \in [Client -> Steps]
    BY <1>1 DEF Connect, Types
  <2>3. queue' \in Seq(Client)
    BY <2>2, AppendProperties
  <2> QED
    BY <1>0, <1>1, <2>1, <2>2, <2>3 DEF Connect
<1>2. ASSUME NEW r \in Req, Ask(c, r), r.op # "none", push' \in [Client -> Steps] PROVE IndInv'
  <2>1. /\ link' \in [Client -> Link] /\ link'[c].st = "asked" /\ link'[c].req = r
        /\ \A b \in Client : b # c => link'[b] = link[b]
    <3> DEFINE n == link[c].asks + 1
    <3>1. link[c] \in Link /\ link'[c] = [link[c] EXCEPT !.st = "asked", !.req = r, !.asks = n]
      BY <1>2 DEF Ask, Types
    <3>0. n \in Nat
      BY <3>1 DEF Link
    <3> HIDE DEF n
    <3>2. link'[c] \in Link /\ link'[c].st = "asked" /\ link'[c].req = r
      BY <3>0, <3>1 DEF Link
    <3> QED
      BY <1>2, <3>2 DEF Ask, Types
  <2> QED
    BY <1>0, <1>2, <2>1 DEF Ask, Types
<1>3. ASSUME Read(c), push' \in [Client -> Steps] PROVE IndInv'
  <2>1. CASE conn.client = c
    <3>1. /\ link[c] \in Link
          /\ link' = [link EXCEPT ![c].st = "open", ![c].req = NoReq, ![c].rsp = "none"]
      BY <1>3, <2>1 DEF Read, Types
    <3>2. NoReq \in Req
      BY DEF NoReq, Req, Plain
    <3>3. link'[c] = [link[c] EXCEPT !.st = "open", !.req = NoReq, !.rsp = "none"]
      BY <3>1 DEF Types
    <3>6. link[c] \in Link /\ "none" \in Rsp
      BY <3>1 DEF Rsp
    <3>4. link'[c] \in Link /\ link'[c].st = "open"
      BY <3>2, <3>3, <3>6 DEF Link
    <3>5. link' \in [Client -> Link] /\ \A b \in Client : b # c => link'[b] = link[b]
      BY <3>1, <3>4 DEF Types
    <3> QED
      BY <1>0, <1>3, <3>4, <3>5 DEF Read, Types
  <2>2. CASE conn.client # c
    <3>1. link' = Closed(c)
      BY <1>3, <2>2 DEF Read
    <3> QED
      BY <1>0, <1>3, <3>1, ClosedIsIdle DEF Read, Types
  <2> QED
    BY <2>1, <2>2
<1>4. ASSUME NEW r \in Requests PROVE r \in Req /\ r.op # "none"
  BY DEF Requests, Req, Addressed, Plain, Submissions, Lookups, Lists
<1>5. ASSUME NEW a \in Addr, PushBlob(c, a) PROVE IndInv'
  <2>1. [op |-> "has", addr |-> a] \in Req /\ push' \in [Client -> Steps]
    BY <1>5 DEF Req, Addressed, PushBlob, Types, Steps
  <2> QED
    BY <2>1, <1>2, <1>5 DEF PushBlob
<1>6. ASSUME PushReads(c) PROVE IndInv'
  <2> DEFINE n == NextOfPush(link[c].req.op, link[c].rsp)
  <2>1. n \in Steps /\ (n \in Pushing => link[c].req.op = "has" /\ n \in {"prove", "put"})
    BY DEF NextOfPush, Pushing, Steps
  <2> HIDE DEF n
  <2>2. push' \in [Client -> Steps]
    BY <1>6, <2>1 DEF PushReads, Types, Steps, n
  <2>3. CASE n \in Pushing /\ conn.client = c
    <3>1. /\ link' = [link EXCEPT ![c].st = "asked", ![c].req.op = n, ![c].rsp = "none"]
          /\ UNCHANGED <<dir, peer, store, leases, done, queue, conn, ops>>
      BY <1>6, <2>3 DEF PushReads, n
    <3>2. link[c].req \in [op : Addressed, addr : Addr] /\ link[c] \in Link
      BY <2>1, <2>3 DEF Types, Link, Req, Plain, Submissions, Lookups, Lists
    <3>3. [link[c].req EXCEPT !.op = n] \in Req /\ [link[c].req EXCEPT !.op = n].op = n
      BY <2>1, <2>3, <3>2 DEF Req, Addressed
    <3>4. link'[c] = [link[c] EXCEPT !.st = "asked", !.req = [link[c].req EXCEPT !.op = n], !.rsp = "none"]
      BY <3>1 DEF Types
    <3>5. link'[c] \in Link /\ link'[c].st = "asked" /\ link'[c].req.op = n
      BY <3>2, <3>3, <3>4 DEF Link, Rsp
    <3>6. link' \in [Client -> Link] /\ \A b \in Client : b # c => link'[b] = link[b]
      BY <3>1, <3>5 DEF Types
    <3> QED
      BY <1>0, <2>1, <2>2, <2>3, <3>1, <3>5, <3>6 DEF Types
  <2>4. CASE ~(n \in Pushing /\ conn.client = c)
    BY <1>3, <1>6, <2>2, <2>4 DEF PushReads, n
  <2> QED
    BY <2>3, <2>4
<1> QED
  BY <1>1, <1>2, <1>3, <1>4, <1>5, <1>6 DEF Types

\* Every step keeps the invariant.
LEMMA StepKeeps == IndInv /\ [Next]_vars => IndInv'
<1> SUFFICES ASSUME IndInv, [Next]_vars PROVE IndInv'
  OBVIOUS
<1>1. CASE Next
  BY <1>1, OperatorKeeps, PeerKeeps, ClientKeeps DEF Next
<1>2. CASE UNCHANGED vars
  BY <1>2 DEF vars, IndInv, Types, AskedSomething, SessionIsProved, WriteIsProved, AnswersHold
<1> QED
  BY <1>1, <1>2

\* So it always holds.
LEMMA Inductive == Spec => []IndInv
<1>1. Init => IndInv
  BY InitHolds
<1>2. IndInv /\ [Next]_vars => IndInv'
  BY StepKeeps
<1> QED
  BY <1>1, <1>2, PTL DEF Spec

-------------------------------------------------------------------------------
(* What a peer and its clients can rely on. *)

\* No write of an access-controlled kind is accepted from anyone but the holder
\* of the key its subject is bound to, under a right the operator granted: the
\* handshake proves the claimed key (accept_from), the subject is one bound to
\* that key (subject_for) and the check reads rights that are never taken back.
THEOREM WritesAuthorised == Spec => []WritesAreAuthorised
<1>1. IndInv => WritesAreAuthorised
  BY DEF IndInv, Types, WriteIsProved, WritesAreAuthorised, Needs
<1> QED
  BY <1>1, Inductive, PTL

\* A push ends well only on a proof or a receipt, and the peer that gave it
\* still has the blob's file when the client reads it: puts and damage keep the
\* file, and nothing else touches the store (push_blob, prove, BlobStore::put).
THEOREM PushHolds == Spec => PushedIsHeld
<1> DEFINE Ended(c) == push'[c] # push[c] /\ push'[c] \in {"present", "sent"} =>
                         link[c].req.addr \in store.held \cup store.damaged
<1>1. IndInv /\ [Next]_vars => [\A c \in Client : Ended(c)]_vars
  <2> SUFFICES ASSUME IndInv, Next, NEW c \in Client, push'[c] # push[c],
                      push'[c] \in {"present", "sent"}
               PROVE  link[c].req.addr \in store.held \cup store.damaged
    BY DEF vars
  <2>1. push \in [Client -> Steps]
    BY DEF IndInv, Types
  <2>2. ASSUME NEW s \in Subject, NEW k \in Key, Allow(s, k) PROVE FALSE
    BY <2>2 DEF Allow
  <2>3. ASSUME NEW s \in Subject, NEW r \in Right, Grant(s, r) PROVE FALSE
    BY <2>3 DEF Grant
  <2>4. ASSUME NEW m \in Modes, Serve(m) PROVE FALSE
    BY <2>4 DEF Serve
  <2>5. ASSUME NEW a \in Addr, Damage(a) PROVE FALSE
    BY <2>5 DEF Damage
  <2>6. ASSUME NEW b \in Client, NEW k \in Key, Connect(b, k) PROVE FALSE
    BY <2>6 DEF Connect
  <2>7. ASSUME NEW b, push' = Ends(b) PROVE FALSE
    BY <2>1, <2>7 DEF Ends
  <2>8. ASSUME Accept \/ Leave \/ Reply \/ \E b \in Client : Greet(b) PROVE FALSE
    BY <2>7, <2>8 DEF Accept, Leave, Reply, ReplyWith, Greet
  <2>9. ASSUME NEW b \in Client, NEW a \in Addr, PushBlob(b, a) PROVE FALSE
    BY <2>1, <2>9 DEF PushBlob
  <2>10. ASSUME NEW b \in Client, PushReads(b)
         PROVE  link[c].req.addr \in store.held \cup store.damaged
    <3>0. PICK n : push' = [push EXCEPT ![b] = n] /\ n \in {NextOfPush(link[b].req.op, link[b].rsp), "none"}
      BY <2>10 DEF PushReads
    <3>1. link[b].st = "answered" /\ push' = [push EXCEPT ![b] = n]
      BY <2>10, <3>0 DEF PushReads
    <3>2. b = c
      BY <2>1, <3>1
    <3>3. NextOfPush(link[c].req.op, link[c].rsp) \in {"present", "sent"}
      BY <2>1, <3>0, <3>1, <3>2
    <3>4. \/ link[c].req.op = "prove" /\ link[c].rsp = "proof"
          \/ link[c].req.op = "put" /\ link[c].rsp = "stored"
      BY <3>3 DEF NextOfPush
    <3> QED
      BY <3>1, <3>2, <3>4 DEF IndInv, AnswersHold
  <2> QED
    BY <2>2, <2>3, <2>4, <2>5, <2>6, <2>8, <2>9, <2>10 DEF Next
<1> QED
  BY <1>1, Inductive, PTL DEF Spec, PushedIsHeld

===============================================================================
