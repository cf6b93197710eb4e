------------------------------- MODULE KeyMap -------------------------------
(***************************************************************************)
(* What the S3 face promises: a map of keys, each write visible at once    *)
(* and until a later one to the same key.                                  *)
(***************************************************************************)
EXTENDS Naturals

CONSTANT Key

VARIABLE map

\* A key never written; `live` is FALSE for a tombstone too.
Absent == [lamport |-> 0, id |-> 0, live |-> FALSE]

MInit == map = [k \in Key |-> Absent]

\* The next version of a key: a new object, or the tombstone of a live one.
Write(k) ==
  LET new == map'[k] IN
  /\ new.lamport = map[k].lamport + 1
  /\ new.id \notin {map[j].id : j \in Key}
  /\ new.live \/ map[k].live
  /\ map' = [map EXCEPT ![k] = new]

MSpec == MInit /\ [][\E k \in Key : Write(k)]_map
=============================================================================
