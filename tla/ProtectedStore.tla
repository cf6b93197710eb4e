--------------------------- MODULE ProtectedStore ---------------------------
(***************************************************************************)
(* What a peer promises about the blobs it holds, with no word about how:  *)
(* no memory, no disk, no restarts.  A client uploads blobs, claims the    *)
(* ones it needs, and may have addresses put on a floor that only an       *)
(* authorised deletion lowers.  The store may collect a blob only when     *)
(* the floor, the upload grace and every claim allow it.                   *)
(***************************************************************************)
EXTENDS Integers

CONSTANTS Addr,         \* blob addresses
          Holder,       \* lease holders
          Request,      \* deletion requests
          Grace,        \* seconds an upload is immune
          Window        \* seconds a claim lasts after the last contact

VARIABLES held,         \* blobs the store has
          handed,       \* when each address was last handed over
          claim,        \* what each holder relies on
          since,        \* the clock reading each holder's claim counts from
          floor,        \* addresses promised to be kept
          authorised,   \* deletion requests that met their quorum
          now           \* the store's own clock

avars == <<held, handed, claim, since, floor, authorised, now>>

Elapsed(from) == IF now > from THEN now - from ELSE 0

AInit ==
  /\ held = {}
  /\ handed = [a \in Addr |-> 0]
  /\ claim = [h \in Holder |-> {}]
  /\ since = [h \in Holder |-> 0]
  /\ floor = {}
  /\ authorised = {}
  /\ now \in Nat

Upload(a) ==
  /\ held' = held \cup {a}
  /\ handed' = [handed EXCEPT ![a] = now]
  /\ UNCHANGED <<claim, since, floor, authorised, now>>

\* A claim that was granted counts from the moment it was granted.
Claim(h, S) ==
  /\ S \subseteq held
  /\ claim' = [claim EXCEPT ![h] = @ \cup S]
  /\ since' = [since EXCEPT ![h] = now]
  /\ UNCHANGED <<held, handed, floor, authorised, now>>

\* Any other contact may give claims up, and can only shorten what is left
\* of them when the clock has gone back.
Disclaim(h, S) ==
  /\ claim' = [claim EXCEPT ![h] = @ \ S]
  /\ \E t \in {now, since[h]} : since' = [since EXCEPT ![h] = t]
  /\ UNCHANGED <<held, handed, floor, authorised, now>>

Promise(S) ==
  /\ floor' = floor \cup S
  /\ UNCHANGED <<held, handed, claim, since, authorised, now>>

Authorise(r) ==
  /\ authorised' = authorised \cup {r}
  /\ UNCHANGED <<held, handed, claim, since, floor, now>>

Withdraw(S) ==
  /\ authorised # {}
  /\ floor' = floor \ S
  /\ UNCHANGED <<held, handed, claim, since, authorised, now>>

\* What may be collected: off the floor, past its grace, claimed by nobody
\* whose window is still open.
Collectable(a) ==
  /\ a \notin floor
  /\ Elapsed(handed[a]) >= Grace
  /\ \A h \in Holder : a \in claim[h] => Elapsed(since[h]) > Window

Collect(D) ==
  /\ \A a \in D : Collectable(a)
  /\ held' = held \ D
  /\ UNCHANGED <<handed, claim, since, floor, authorised, now>>

Clock ==
  /\ now' \in Nat
  /\ UNCHANGED <<held, handed, claim, since, floor, authorised>>

ANext ==
  \/ \E a \in Addr : Upload(a)
  \/ \E h \in Holder, S \in SUBSET Addr : Claim(h, S) \/ Disclaim(h, S)
  \/ \E S \in SUBSET Addr : Promise(S) \/ Withdraw(S) \/ Collect(S)
  \/ \E r \in Request : Authorise(r)
  \/ Clock

ASpec == AInit /\ [][ANext]_avars

=============================================================================
