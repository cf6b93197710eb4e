--------------------------- MODULE MCDeleteTrail ---------------------------
EXTENDS DeleteTrail, TLC

CONSTANTS k1, k2, laptop

MCKey == {k1, k2, laptop}
MCAuthority == {k1, k2}

\* A request of the everyday device, and one by a key of the authority.
MCRequest ==
  {[scope |-> [kind |-> "object", path |-> "p"], by |-> laptop, nonce |-> 1],
   [scope |-> [kind |-> "object", path |-> "p"], by |-> k1, nonce |-> 2]}

MCQuorum == [object |-> 1, prefix |-> 2, namespace |-> 2]
=============================================================================
