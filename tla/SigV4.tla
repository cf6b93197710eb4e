------------------------------- MODULE SigV4 -------------------------------
(***************************************************************************)
(* How the gateway's TCP face decides that a request is signed             *)
(* (nas-gateway/src/sigv4.rs).  Hashes and HMACs are symbolic: an          *)
(* injective function of what they are computed from, so a signature is    *)
(* the tuple (secret, day, region, string to sign).  A request is          *)
(*   [method, path, query, headers, body]                                  *)
(* with query a sequence of <<name, value>> pairs in the order of the URL, *)
(* and headers a function on the lower-case names that are present.        *)
(***************************************************************************)
EXTENDS Naturals, Sequences, FiniteSets, SequencesExt

Unsigned == "UNSIGNED-PAYLOAD"
Absent == <<"absent">>
Sha256(body) == <<"sha256", body>>

HeaderOf(h, name) == IF name \in DOMAIN h THEN h[name] ELSE Absent
ValueOf(h, name) == IF name \in DOMAIN h THEN h[name] ELSE <<"">>

\* A date is <<day, time>>; `x-amz-date' wins over `date'.
AmzDate(h) == IF "x-amz-date" \in DOMAIN h THEN h["x-amz-date"] ELSE HeaderOf(h, "date")

\* The payload a request answers for: what its header claims, when the claim is
\* true of the body; "bad" stands for AuthError::PayloadHash.
PayloadHash(r) ==
    LET claim == HeaderOf(r.headers, "x-amz-content-sha256")
    IN  IF claim = <<Unsigned>> THEN <<Unsigned>>
        ELSE IF claim = Absent THEN Sha256(r.body)
        ELSE IF claim = Sha256(r.body) THEN claim
        ELSE <<"bad">>

\* Sorted, the pairs no longer tell in which order the URL had them.
CanonicalQuery(q) == [p \in ToSet(q) |-> Cardinality({i \in DOMAIN q : q[i] = p})]

CanonicalPath(p) == IF p = "" THEN "/" ELSE p

\* The headers `sign' covers, of those that are there; in the code a sorted list.
Usual == {"host", "x-amz-date", "x-amz-content-sha256", "content-type", "range"}

CanonicalWithSigned(r, signed, payload) ==
    <<r.method, CanonicalPath(r.path), CanonicalQuery(r.query),
      [n \in signed |-> ValueOf(r.headers, n)], signed, payload>>

Canonical(r) ==
    LET p == PayloadHash(r)
    IN  CanonicalWithSigned(r, DOMAIN r.headers \cap Usual,
                            IF p = <<"bad">> THEN Sha256(r.body) ELSE p)

StringToSign(date, day, region, canon) == <<date, day, region, Sha256(canon)>>
SigningSig(secret, day, region, sts) == <<secret, day, region, sts>>

\* `sign' dates a request without a date to the epoch.
Epoch == <<"19700101", "t0">>
Sign(creds, region, r) ==
    LET d == IF AmzDate(r.headers) = Absent THEN Epoch ELSE AmzDate(r.headers)
    IN  [key    |-> creds.id, day |-> d[1], region |-> region,
         signed |-> DOMAIN r.headers \cap Usual,
         sig    |-> SigningSig(creds.secret, d[1], region,
                               StringToSign(d, d[1], region, Canonical(r)))]

\* `verify' of a request that carries the authorization a.
Verify(creds, r, a) ==
    LET date == AmzDate(r.headers)
    IN  /\ a.key = creds.id
        /\ PayloadHash(r) # <<"bad">>
        /\ date # Absent
        /\ date[1] = a.day
        /\ a.sig = SigningSig(creds.secret, a.day, a.region,
                     StringToSign(date, a.day, a.region,
                                  CanonicalWithSigned(r, a.signed, PayloadHash(r))))

-----------------------------------------------------------------------------
SameBag(p, q) == \A x \in ToSet(p) \cup ToSet(q) :
                   Cardinality({i \in DOMAIN p : p[i] = x}) = Cardinality({i \in DOMAIN q : q[i] = x})

\* What a signed request asks for.
SameRequest(r, s, signed) ==
    /\ r.method = s.method
    /\ CanonicalPath(r.path) = CanonicalPath(s.path)
    /\ SameBag(r.query, s.query)
    /\ AmzDate(r.headers) = AmzDate(s.headers)
    /\ \A n \in signed : ValueOf(r.headers, n) = ValueOf(s.headers, n)
    /\ \/ r.body = s.body
       \/ ValueOf(r.headers, "x-amz-content-sha256") = <<Unsigned>>

\* verify: a request signed with the gateway's key is accepted if and only if it
\* is dated and its payload claim is true; and no request is accepted under its
\* signature that asks for something else: another verb, path, query, date,
\* covered header, or (unless it waived the payload) another body.
SignatureBindsRequest(creds, region, r, set) ==
    LET a == Sign(creds, region, r)
    IN  /\ Verify(creds, r, a) <=>
             (AmzDate(r.headers) # Absent /\
              ValueOf(r.headers, "x-amz-content-sha256") \in {<<"">>, <<Unsigned>>, Sha256(r.body)})
        /\ \A s \in set : Verify(creds, s, a) => SameRequest(r, s, a.signed)

\* A client may send the query in any order: the same request with its query
\* reversed is accepted under the same signature.
QueryOrderIsFree(creds, region, r) ==
    LET a == Sign(creds, region, r)
    IN  Verify(creds, r, a) <=> Verify(creds, [r EXCEPT !.query = Reverse(@)], a)
=============================================================================
