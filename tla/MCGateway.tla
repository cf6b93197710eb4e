----------------------------- MODULE MCGateway -----------------------------
EXTENDS Gateway

MCKeys == {<<"a">>, <<"b">>}
MCChunkLen == [A |-> 2, B |-> 1, C |-> 1]
MCObjects == {<<"A", "B">>, <<"B", "C", "B">>, <<"C">>}
MCAcls == {NoAcl, {"append"}}

Req(method, key, auth, range) ==
    [method |-> method, key |-> key, auth |-> auth, range |-> range, large |-> FALSE]
Rng(kind, a, b) == [kind |-> kind, a |-> a, b |-> b]

MCRequests ==
    {Req("GET", <<"a">>, "sigv4", r) :
        r \in {Unset, Rng("closed", 1, 1), Rng("open", 2, 0), Rng("suffix", 2, 0)}}
    \cup {Req("GET", Unset, "sigv4", Unset),
          Req("HEAD", <<"a">>, "sigv4", Unset), Req("PROPFIND", <<"a">>, "basic", Unset),
          Req("PUT", <<"a">>, "sigv4", Unset), Req("PUT", <<"a">>, "basic", Unset),
          Req("DELETE", <<"a">>, "sigv4", Unset), Req("PUT", <<"a">>, "none", Unset),
          [Req("PUT", <<"a">>, "sigv4", Unset) EXCEPT !.large = TRUE]}
=============================================================================
